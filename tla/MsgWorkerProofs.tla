-------------------------- MODULE MsgWorkerProofs --------------------------
(***************************************************************************)
(* Theorems about MsgWorker, for every set of calls, threads and messages, *)
(* every batch size and every choice of the limits.                        *)
(***************************************************************************)
EXTENDS MsgWorker, ConsumerUnitLockerProofs, FiniteSetTheorems

\* The inductive invariant: the types, and the records' accounts.
IInv == TypeOK /\ BatchesAccounted

\* A batch holds a number of copies of a message.
LEMMA CountType ==
  ASSUME NEW b \in Seq(MsgId), NEW m
  PROVE  Count(b, m) \in Nat
<1>1. Len(b) \in Nat /\ DOMAIN b = 1 .. Len(b)
  BY LenProperties
<1>2. IsFiniteSet(DOMAIN b)
  BY <1>1, FS_Interval
<1>3. IsFiniteSet({i \in DOMAIN b : b[i] = m})
  BY <1>2, FS_Subset
<1> QED
  BY <1>3, FS_CardinalityType DEF Count

\* ConsumerUnit::setMsgAck keeps every record's accounts and its batch.
LEMMA SetMsgAckAllAccounted ==
  ASSUME NEW A, lockers \in [Thread -> Locker], \A t \in Thread : Accounted(lockers[t], A),
         NEW id, NEW s \in ConsumeStatus, s = "CONSUME_SUCCESS" /\ Known(id) => id \in A,
         SetMsgAckAll(id, s)
  PROVE  /\ lockers' \in [Thread -> Locker]
         /\ \A t \in Thread : Accounted(lockers'[t], A) /\ lockers'[t].msgs = lockers[t].msgs
<1>1. ASSUME NEW t \in Thread
      PROVE  /\ SetMsgAck(lockers[t], id, s) \in Locker
             /\ Accounted(SetMsgAck(lockers[t], id, s), A)
             /\ SetMsgAck(lockers[t], id, s).msgs = lockers[t].msgs
  <2>1. lockers[t] \in Locker /\ Accounted(lockers[t], A)
    BY <1>1
  <2>2. s = "CONSUME_SUCCESS" /\ Units(lockers[t], id) # {} => id \in A
    BY <1>1 DEF Known
  <2> QED
    BY <2>1, <2>2, SetMsgAckAccounted
<1> QED
  BY <1>1 DEF SetMsgAckAll

-----------------------------------------------------------------------------
\* Types and accounts hold at first.
LEMMA InitInv == Init => IInv
<1> SUFFICES ASSUME Init PROVE IInv
  OBVIOUS
<1>1. NoLocker \in Locker /\ Accounted(NoLocker, {})
  BY NoLockerAccounted
<1>2. <<>> \in Seq(Call)
  BY EmptySeq
<1>3. TypeOK
  BY <1>1, <1>2, TimeAssumption, BatchAssumption
  DEF Init, TypeOK, NewUnit, UnitStatus, CallStatus, MatcherAt, MatcherPC, HandlerIdle, HandlerPC
<1>4. BatchesAccounted
  BY <1>1 DEF Init, BatchesAccounted, MatcherAt
<1> QED
  BY <1>3, <1>4 DEF IInv

\* The callback threads keep the invariant.
LEMMA ConsumeMessageInv ==
  ASSUME IInv, NEW t \in Thread, NEW b \in Batches, ConsumeMessage(t, b)
  PROVE  IInv'
<1>1. b \in Seq(MsgId) \ {<<>>}
  BY BatchAssumption
<1>2. NewLocker(b) \in Locker /\ Accounted(NewLocker(b), acked)
  BY <1>1, NewLockerAccounted
<1>3. broker' \in [MsgId -> Nat]
  <2>1. \A m \in MsgId : Count(b, m) \in Nat /\ broker[m] \in Nat
    BY <1>1, CountType DEF IInv, TypeOK
  <2>2. \A m \in MsgId : broker[m] - Count(b, m) \in Nat
    BY <2>1 DEF ConsumeMessage
  <2> QED
    BY <2>2 DEF ConsumeMessage
<1>4. TypeOK'
  BY <1>2, <1>3 DEF IInv, TypeOK, ConsumeMessage, unitVars, rpcVars, historyVars
<1>5. BatchesAccounted'
  BY <1>2 DEF IInv, TypeOK, BatchesAccounted, ConsumeMessage, historyVars
<1> QED
  BY <1>4, <1>5 DEF IInv

LEMMA ReturnStatusInv ==
  ASSUME IInv, NEW t \in Thread, ReturnStatus(t)
  PROVE  IInv'
<1> DEFINE l == lockers[t]
<1>1. l \in Locker /\ l.msgs \in Seq(MsgId)
  BY DEF IInv, TypeOK, Locker
<1>2. NoLocker \in Locker /\ Accounted(NoLocker, acked)
  BY NoLockerAccounted
<1>3. broker' \in [MsgId -> Nat]
  <2>1. \A m \in MsgId : Count(l.msgs, m) \in Nat /\ broker[m] \in Nat
    BY <1>1, CountType DEF IInv, TypeOK
  <2> QED
    BY <2>1 DEF ReturnStatus
<1>4. consumed' \subseteq MsgId
  BY <1>1, LenProperties, ElementOfSeq DEF IInv, TypeOK, ReturnStatus, Returned
<1>5. TypeOK'
  BY <1>2, <1>3, <1>4 DEF IInv, TypeOK, ReturnStatus, unitVars, rpcVars, historyVars
<1>6. BatchesAccounted'
  BY <1>2 DEF IInv, TypeOK, BatchesAccounted, ReturnStatus, historyVars
<1> QED
  BY <1>5, <1>6 DEF IInv

-----------------------------------------------------------------------------
\* The matcher keeps the invariant.
LEMMA FetchInv ==
  ASSUME IInv, NEW c \in Call, NEW t \in Thread, Fetch(c, t)
  PROVE  IInv'
<1>1. /\ GetMsg(lockers[t]) \in Locker
      /\ Accounted(GetMsg(lockers[t]), acked)
      /\ NextMsg(lockers[t]) \in MsgId
  BY GetMsgAccounted DEF IInv, TypeOK, BatchesAccounted, Fetch
<1>2. TypeOK'
  BY <1>1 DEF IInv, TypeOK, Fetch, brokerVars, unitVars, rpcVars, historyVars, MatcherPC
<1>3. BatchesAccounted'
  BY <1>1 DEF IInv, TypeOK, BatchesAccounted, Fetch, historyVars
<1> QED
  BY <1>2, <1>3 DEF IInv

LEMMA SetMsgReconsumeInv ==
  ASSUME IInv, NEW c \in Call, SetMsgReconsume(c)
  PROVE  IInv'
<1>1. /\ lockers' \in [Thread -> Locker]
      /\ \A t \in Thread : Accounted(lockers'[t], acked)
  BY SetMsgAckAllAccounted
  DEF IInv, TypeOK, BatchesAccounted, SetMsgReconsume, ConsumeStatus
<1>2. TypeOK'
  BY <1>1 DEF IInv, TypeOK, SetMsgReconsume, MatcherAt, MatcherPC,
              brokerVars, unitVars, rpcVars, historyVars
<1>3. BatchesAccounted'
  BY <1>1 DEF BatchesAccounted, SetMsgReconsume, MatcherAt, historyVars
<1> QED
  BY <1>2, <1>3 DEF IInv

\* The steps between two units change no record.
LEMMA PopInv ==
  ASSUME IInv, TryPop \/ PoolEmpty \/ WaitNotify \/ NotifyTimeout
  PROVE  IInv'
<1> USE DEF IInv, TypeOK, BatchesAccounted, brokerVars, unitVars, rpcVars, historyVars,
            MatcherAt, MatcherPC
<1>1. CASE TryPop
  BY <1>1, HeadTailProperties DEF TryPop
<1>2. CASE PoolEmpty \/ WaitNotify \/ NotifyTimeout
  BY <1>2 DEF PoolEmpty, WaitNotify, NotifyTimeout
<1> QED
  BY <1>1, <1>2

\* The matcher's other steps on a unit change no record either.
LEMMA MatcherInv ==
  ASSUME IInv, NEW c \in Call,
         \/ Register(c) \/ ResponseMsg(c) \/ WatchAck(c)
         \/ ResponseTimeOut(c) \/ FetchAgain(c)
         \/ AckAgain(c) \/ AckTimeout(c) \/ DropAcked(c)
  PROVE  IInv'
<1> USE DEF IInv, TypeOK, BatchesAccounted, brokerVars, unitVars, rpcVars, historyVars,
            MatcherAt, MatcherPC
<1>1. CASE Register(c)
  <2>1. matcher.msg \in MsgId /\ matcher' = [matcher EXCEPT !.pc = "respond"]
    BY <1>1 DEF Register
  <2>2. unit' \in [Call -> [status : UnitStatus, msgId : MsgId \cup {NoMsg}, age : 0..TimeCap]]
    <3> DEFINE u == [unit[c] EXCEPT !.status = "CLIENT_RECEIVE", !.msgId = matcher.msg]
    <3>1. u \in [status : UnitStatus, msgId : MsgId \cup {NoMsg}, age : 0..TimeCap]
      <4>1. unit[c] \in [status : UnitStatus, msgId : MsgId \cup {NoMsg}, age : 0..TimeCap]
        OBVIOUS
      <4> HIDE DEF IInv, TypeOK, BatchesAccounted
      <4> QED
        BY <2>1, <4>1 DEF UnitStatus
    <3>2. unit' = [unit EXCEPT ![c] = u]
      BY <1>1 DEF Register
    <3> QED
      BY <3>1, <3>2
  <2>3. idUnitMap' \in [MsgId -> Call \cup {NoCall}]
    BY <1>1 DEF Register
  <2>4. BatchesAccounted'
    BY <1>1, <2>1 DEF Register
  <2> QED
    BY <1>1, <2>1, <2>2, <2>3, <2>4 DEF Register
<1>2. CASE ResponseMsg(c)
  BY <1>2 DEF ResponseMsg, CallStatus
<1>3. ASSUME Requeue(c) PROVE pool' \in Seq(Call)
  BY <1>3 DEF Requeue
<1>4. CASE WatchAck(c)
  BY <1>3, <1>4, TimeAssumption DEF WatchAck
<1>5. CASE ResponseTimeOut(c)
  BY <1>5, TimeAssumption DEF ResponseTimeOut, CallStatus
<1>6. CASE FetchAgain(c) \/ AckAgain(c)
  BY <1>3, <1>6 DEF FetchAgain, AckAgain
<1>7. CASE AckTimeout(c)
  BY <1>7 DEF AckTimeout
<1>8. CASE DropAcked(c)
  BY <1>8 DEF DropAcked
<1> QED
  BY <1>1, <1>2, <1>4, <1>5, <1>6, <1>7, <1>8
-----------------------------------------------------------------------------
\* The completion queue's thread keeps the invariant.
LEMMA AckProcessInv ==
  ASSUME IInv, NEW a \in Ack, NEW m \in MsgId, NEW s \in AckStatus, AckProcess(a, m, s)
  PROVE  IInv'
<1>1. s \in ConsumeStatus
  BY AckStatusAssumption
<1>2. acked \subseteq acked' /\ (s = "CONSUME_SUCCESS" /\ Known(m) => m \in acked')
  BY DEF AckProcess
<1>3. \A t \in Thread : Accounted(lockers[t], acked')
  BY <1>2, AccountedMonotonic DEF IInv, BatchesAccounted
<1>4. /\ lockers' \in [Thread -> Locker]
      /\ \A t \in Thread : Accounted(lockers'[t], acked')
  <2>1. lockers \in [Thread -> Locker] /\ SetMsgAckAll(m, s)
    BY DEF IInv, TypeOK, AckProcess
  <2> QED
    BY <1>1, <1>2, <1>3, <2>1, SetMsgAckAllAccounted
<1>5. TypeOK'
  <2>1. acked' \subseteq MsgId /\ idle' \in 0..TimeCap
    BY TimeAssumption DEF IInv, TypeOK, AckProcess
  <2>2. ack' \in [Ack -> MsgId \cup {NoMsg}]
    BY DEF IInv, TypeOK, AckProcess
  <2>3. handler' \in [pc : HandlerPC, call : Call \cup {NoCall}, ack : Ack \cup {NoAck}]
    BY DEF IInv, TypeOK, AckProcess, HandlerPC
  <2> QED
    BY <1>4, <2>1, <2>2, <2>3 DEF IInv, TypeOK, AckProcess, brokerVars, unitVars
<1>6. BatchesAccounted'
  BY <1>4 DEF IInv, BatchesAccounted, AckProcess
<1> QED
  BY <1>5, <1>6 DEF IInv

LEMMA ConsumeCancelInv ==
  ASSUME IInv, NEW c \in Call, ConsumeCancel(c)
  PROVE  IInv'
<1>1. /\ lockers' \in [Thread -> Locker]
      /\ \A t \in Thread : Accounted(lockers'[t], acked)
  <2>1. CASE unit[c].msgId = NoMsg
    BY <2>1 DEF ConsumeCancel, IInv, TypeOK, BatchesAccounted
  <2>2. CASE unit[c].msgId # NoMsg
    BY <2>2, SetMsgAckAllAccounted
    DEF ConsumeCancel, IInv, TypeOK, BatchesAccounted, ConsumeStatus
  <2> QED
    BY <2>1, <2>2
<1>2. TypeOK'
  BY <1>1, ZenonT(40)
  DEF IInv, TypeOK, ConsumeCancel, CallStatus, HandlerPC, brokerVars, unitVars, historyVars
<1>3. BatchesAccounted'
  BY <1>1 DEF IInv, BatchesAccounted, ConsumeCancel, historyVars
<1> QED
  BY <1>2, <1>3 DEF IInv

\* Its other steps, and the clock, change no record.
LEMMA ConsumeInv ==
  ASSUME IInv, NEW c \in Call, ConsumeProcess(c) \/ ConsumeDel(c) \/ CancelErase(c)
  PROVE  IInv'
<1> USE DEF IInv, TypeOK, BatchesAccounted, brokerVars, unitVars, rpcVars, historyVars,
            HandlerIdle, HandlerPC
<1>1. CASE ConsumeProcess(c)
  <2>1. NewUnit \in [status : UnitStatus, msgId : MsgId \cup {NoMsg}, age : 0..TimeCap]
    BY TimeAssumption DEF NewUnit, UnitStatus
  <2>2. pool' \in Seq(Call)
    BY <1>1 DEF ConsumeProcess
  <2> QED
    BY <1>1, <2>1, <2>2 DEF ConsumeProcess, CallStatus
<1>2. CASE ConsumeDel(c)
  BY <1>2 DEF ConsumeDel, CallStatus
<1>3. CASE CancelErase(c)
  BY <1>3 DEF CancelErase, CallStatus
<1> QED
  BY <1>1, <1>2, <1>3

LEMMA AckInv ==
  ASSUME IInv, NEW a \in Ack, AckReply(a) \/ AckDel(a)
  PROVE  IInv'
<1> USE DEF IInv, TypeOK, BatchesAccounted, brokerVars, unitVars, rpcVars, historyVars,
            HandlerIdle, HandlerPC
<1>1. CASE AckReply(a)
  <2>1. ASSUME NEW d \in Call
        PROVE  [unit[d] EXCEPT !.status = "CONSUME_ACK"] \in
                 [status : UnitStatus, msgId : MsgId \cup {NoMsg}, age : 0..TimeCap]
    <3>1. unit[d] \in [status : UnitStatus, msgId : MsgId \cup {NoMsg}, age : 0..TimeCap]
      OBVIOUS
    <3> HIDE DEF IInv, TypeOK, BatchesAccounted
    <3> QED
      BY <3>1 DEF UnitStatus
  <2>2. \A d : [unit EXCEPT ![d].status = "CONSUME_ACK"]
                 \in [Call -> [status : UnitStatus, msgId : MsgId \cup {NoMsg}, age : 0..TimeCap]]
    BY <2>1
  <2> QED
    BY <1>1, <2>2 DEF AckReply
<1>2. CASE AckDel(a)
  BY <1>2 DEF AckDel
<1> QED
  BY <1>1, <1>2

LEMMA TickInv ==
  ASSUME IInv, Tick
  PROVE  IInv'
<1>1. \A n \in 0 .. TimeCap : Older(n) \in 0 .. TimeCap
  BY TimeAssumption DEF Older
<1>2. TypeOK'
  BY <1>1, ZenonT(40) DEF IInv, TypeOK, Tick, brokerVars, rpcVars, historyVars
<1>3. BatchesAccounted'
  BY DEF IInv, BatchesAccounted, Tick, historyVars
<1> QED
  BY <1>2, <1>3 DEF IInv

-----------------------------------------------------------------------------
\* The invariant is inductive.
LEMMA StepInv == IInv /\ [Next]_vars => IInv'
<1> SUFFICES ASSUME IInv, [Next]_vars PROVE IInv'
  OBVIOUS
<1>1. CASE LoopMatch \/ NotifyTimeout
  <2>1. CASE TryPop \/ PoolEmpty \/ WaitNotify \/ NotifyTimeout
    BY <2>1, PopInv
  <2>2. ASSUME NEW c \in Call, NEW t \in Thread, Fetch(c, t) PROVE IInv'
    BY <2>2, FetchInv
  <2>3. ASSUME NEW c \in Call,
               \/ Register(c) \/ ResponseMsg(c) \/ WatchAck(c)
               \/ ResponseTimeOut(c) \/ FetchAgain(c)
               \/ AckAgain(c) \/ AckTimeout(c) \/ DropAcked(c)
        PROVE  IInv'
    BY <2>3, MatcherInv
  <2>4. ASSUME NEW c \in Call, SetMsgReconsume(c) PROVE IInv'
    BY <2>4, SetMsgReconsumeInv
  <2> QED
    BY <1>1, <2>1, <2>2, <2>3, <2>4 DEF LoopMatch
<1>2. CASE HandleRpcs
  <2>1. CASE ConsumeNotify
    BY <2>1 DEF ConsumeNotify, MatcherAt, MatcherPC, HandlerIdle, HandlerPC, IInv, TypeOK,
                BatchesAccounted, brokerVars, unitVars, historyVars
  <2>2. ASSUME NEW c \in Call,
               ConsumeProcess(c) \/ ConsumeDel(c) \/ CancelErase(c)
        PROVE  IInv'
    BY <2>2, ConsumeInv
  <2>3. ASSUME NEW c \in Call, ConsumeCancel(c) PROVE IInv'
    BY <2>3, ConsumeCancelInv
  <2>4. ASSUME NEW a \in Ack, AckReply(a) \/ AckDel(a) PROVE IInv'
    BY <2>4, AckInv
  <2>5. ASSUME NEW a \in Ack, NEW m \in MsgId, NEW s \in AckStatus, AckProcess(a, m, s)
        PROVE  IInv'
    BY <2>5, AckProcessInv
  <2> QED
    BY <1>2, <2>1, <2>2, <2>3, <2>4, <2>5 DEF HandleRpcs, HandlerStep
<1>3. CASE Tick
  BY <1>3, TickInv
<1>4. ASSUME NEW t \in Thread, ReturnStatus(t) PROVE IInv'
  BY <1>4, ReturnStatusInv
<1>5. ASSUME NEW t \in Thread, NEW b \in Batches, ConsumeMessage(t, b) PROVE IInv'
  BY <1>5, ConsumeMessageInv
<1>6. CASE UNCHANGED vars
  BY <1>6 DEF vars, IInv, TypeOK, BatchesAccounted, brokerVars, unitVars, rpcVars, historyVars
<1> QED
  BY <1>1, <1>2, <1>3, <1>4, <1>5, <1>6 DEF Next

\* The types and the accounts are kept by every execution of the consume path.
THEOREM Invariance == Spec => []IInv
<1> QED
  BY InitInv, StepInv, PTL DEF Spec

\* Every variable of the consume path keeps its type.
THEOREM TypeCorrect == Spec => []TypeOK
<1>1. IInv => TypeOK
  BY DEF IInv
<1> QED
  BY <1>1, Invariance, PTL

\* The records account for every verdict they hold, in every execution.
THEOREM Accounts == Spec => []BatchesAccounted
<1>1. IInv => BatchesAccounted
  BY DEF IInv
<1> QED
  BY <1>1, Invariance, PTL

-----------------------------------------------------------------------------
\* One step reports a message as consumed only if a client acknowledged it.
LEMMA NoLossStep ==
  ASSUME IInv, NoSilentLoss, [Next]_vars
  PROVE  NoSilentLoss'
<1> USE DEF NoSilentLoss, brokerVars, historyVars
<1>1. ASSUME NEW t \in Thread, ReturnStatus(t) PROVE NoSilentLoss'
  <2>1. \A i \in Returned(lockers[t], "CONSUME_SUCCESS") : lockers[t].msgs[i] \in acked
    BY <1>1, SuccessAcked DEF IInv, TypeOK, BatchesAccounted, ReturnStatus
  <2> QED
    BY <1>1, <2>1 DEF ReturnStatus
<1>2. ASSUME NEW t \in Thread, NEW b \in Batches, ConsumeMessage(t, b) PROVE NoSilentLoss'
  BY <1>2 DEF ConsumeMessage
<1>3. CASE LoopMatch \/ NotifyTimeout
  BY <1>3, ZenonT(40) DEF LoopMatch, NotifyTimeout, TryPop, PoolEmpty, WaitNotify, Fetch, Register,
              ResponseMsg, WatchAck, ResponseTimeOut, FetchAgain, AckAgain, AckTimeout,
              SetMsgReconsume, DropAcked
<1>4. CASE HandleRpcs
  BY <1>4 DEF HandleRpcs, HandlerStep, ConsumeProcess, ConsumeNotify, ConsumeDel,
              ConsumeCancel, CancelErase, AckProcess, AckReply, AckDel
<1>5. CASE Tick \/ UNCHANGED vars
  BY <1>5 DEF Tick, vars
<1> QED
  BY <1>1, <1>2, <1>3, <1>4, <1>5 DEF Next

\* No message is reported as consumed unless a client acknowledged it, whatever
\* the timeouts, broken replies and the other messages of its batch.
THEOREM NoLoss == Spec => []NoSilentLoss
<1>1. Init => NoSilentLoss
  BY DEF Init, NoSilentLoss
<1>2. IInv /\ NoSilentLoss /\ [Next]_vars => NoSilentLoss'
  BY NoLossStep
<1> QED
  BY <1>1, <1>2, Invariance, PTL DEF Spec

-----------------------------------------------------------------------------
\* The batches the threads hold, which the steps below compare.
Held == [t \in Thread |-> lockers[t].msgs]

\* Both specifications count the copies in a batch alike.
LEMMA SameCount == \A b, m : Delivery!Count(b, m) = Count(b, m)
  BY Zenon DEF Delivery!Count, Count, Delivery!Cardinality, Cardinality

\* Steps that change nothing the abstract specification sees.
LEMMA SameBatches ==
  ASSUME IInv, UNCHANGED <<broker, consumed, acked>>,
         \A t \in Thread : lockers'[t].msgs = lockers[t].msgs
  PROVE  UNCHANGED Delivery!vars
<1>1. Held' = Held
  BY DEF Held
<1> QED
  BY <1>1 DEF Held, Delivery!vars

\* A callback that starts takes a batch.
LEMMA TakeStep ==
  ASSUME IInv, NEW t \in Thread, NEW b \in Batches, ConsumeMessage(t, b)
  PROVE  Delivery!Take(t, b)
<1>1. Held' = [Held EXCEPT ![t] = b]
  BY DEF Held, ConsumeMessage, NewLocker, IInv, TypeOK
<1>2. Held[t] = <<>>
  BY DEF Held, ConsumeMessage, Holding
<1>3. /\ \A m \in MsgId : Delivery!Count(b, m) <= broker[m]
      /\ broker' = [m \in MsgId |-> broker[m] - Delivery!Count(b, m)]
      /\ UNCHANGED <<acked, consumed>>
  <2>1. /\ \A m \in MsgId : Count(b, m) <= broker[m]
        /\ broker' = [m \in MsgId |-> broker[m] - Count(b, m)]
        /\ UNCHANGED <<acked, consumed>>
    BY DEF ConsumeMessage, historyVars
  <2> QED
    BY <2>1, SameCount
<1> QED
  BY <1>1, <1>2, <1>3 DEF Held, Delivery!Take

\* A callback that ends settles its batch: what it reports as consumed was
\* acknowledged, and the rest goes back to the broker.
LEMMA SettleStep ==
  ASSUME IInv, NEW t \in Thread, ReturnStatus(t), NEW done,
         done = {lockers[t].msgs[i] : i \in Returned(lockers[t], "CONSUME_SUCCESS")}
  PROVE  done \in SUBSET Delivery!Ids(Held[t]) /\ Delivery!Settle(t, done)
<1> DEFINE l    == lockers[t]
           back == Returned(l, "RECONSUME_LATER")
<1>1. Held[t] = l.msgs /\ l.msgs # <<>>
  BY DEF Held, ReturnStatus, Holding
<1>2. Held' = [Held EXCEPT ![t] = <<>>]
  BY NoLockerAccounted DEF Held, ReturnStatus, IInv, TypeOK
<1>3. done \subseteq Delivery!Ids(Held[t])
  BY <1>1 DEF Delivery!Ids, Returned
<1>4. done \subseteq acked
  BY SuccessAcked DEF IInv, TypeOK, BatchesAccounted, ReturnStatus
<1>5. \A m \in MsgId : (\E i \in back : l.msgs[i] = m) <=> m \in Delivery!Ids(l.msgs) \ done
  BY DEF Delivery!Ids, Returned, Verdict
<1>6. /\ broker' = [m \in MsgId |-> IF m \in Delivery!Ids(l.msgs) \ done
                                   THEN broker[m] + Delivery!Count(l.msgs, m) ELSE broker[m]]
      /\ consumed' = consumed \cup done
      /\ acked' = acked
  <2>1. /\ broker' = [m \in MsgId |-> IF \E i \in back : l.msgs[i] = m
                                     THEN broker[m] + Count(l.msgs, m) ELSE broker[m]]
        /\ consumed' = consumed \cup done
        /\ acked' = acked
    BY DEF ReturnStatus, historyVars
  <2> HIDE DEF back, l
  <2> QED
    BY <1>5, <2>1, SameCount
<1>7. Delivery!Settle(t, done)
  BY <1>1, <1>2, <1>4, <1>6 DEF Held, Delivery!Settle
<1> QED
  BY <1>3, <1>7

\* An ack request acknowledges a message some thread holds, or changes nothing.
LEMMA AcknowledgeStep ==
  ASSUME IInv, NEW a \in Ack, NEW m \in MsgId, NEW s \in AckStatus, AckProcess(a, m, s)
  PROVE  (\E t \in Thread : Delivery!Acknowledge(t, m)) \/ UNCHANGED Delivery!vars
<1>1. \A t \in Thread : lockers'[t].msgs = lockers[t].msgs
  <2>1. \A t \in Thread : Accounted(lockers[t], acked \cup {m})
    BY AccountedMonotonic DEF IInv, BatchesAccounted
  <2>2. lockers \in [Thread -> Locker] /\ SetMsgAckAll(m, s) /\ s \in ConsumeStatus
    BY AckStatusAssumption DEF IInv, TypeOK, AckProcess
  <2> QED
    BY <2>1, <2>2, SetMsgAckAllAccounted
<1>2. Held' = Held
  BY <1>1 DEF Held
<1>3. CASE Known(m) /\ s = "CONSUME_SUCCESS"
  <2>1. PICK t \in Thread : Units(lockers[t], m) # {}
    BY <1>3 DEF Known
  <2>2. m \in Delivery!Ids(Held[t])
    BY <2>1 DEF Units, Delivery!Ids, Held
  <2>3. Delivery!Acknowledge(t, m)
    BY <1>2, <1>3, <2>2 DEF Held, Delivery!Acknowledge, AckProcess, brokerVars
  <2> QED
    BY <2>3
<1>4. CASE ~(Known(m) /\ s = "CONSUME_SUCCESS")
  BY <1>1, <1>4, SameBatches DEF AckProcess, brokerVars
<1> QED
  BY <1>3, <1>4
\* Every step of the consume path is a step of at-least-once delivery, or none.
LEMMA RefinementStep ==
  ASSUME IInv, [Next]_vars
  PROVE  [Delivery!Next]_(Delivery!vars)
<1>1. ASSUME NEW t \in Thread, NEW b \in Batches, ConsumeMessage(t, b)
      PROVE  Delivery!Next
  BY <1>1, TakeStep DEF Delivery!Next
<1>2. ASSUME NEW t \in Thread, ReturnStatus(t)
      PROVE  Delivery!Next
  <2>1. PICK done : done = {lockers[t].msgs[i] : i \in Returned(lockers[t], "CONSUME_SUCCESS")}
    OBVIOUS
  <2>2. done \in SUBSET Delivery!Ids(Held[t]) /\ Delivery!Settle(t, done)
    BY <1>2, <2>1, SettleStep
  <2> QED
    BY <2>2 DEF Delivery!Next, Held
<1>3. ASSUME NEW a \in Ack, NEW m \in MsgId, NEW s \in AckStatus, AckProcess(a, m, s)
      PROVE  [Delivery!Next]_(Delivery!vars)
  BY <1>3, AcknowledgeStep DEF Delivery!Next
<1>4. ASSUME NEW c \in Call, SetMsgReconsume(c) \/ ConsumeCancel(c)
      PROVE  UNCHANGED Delivery!vars
  <2>1. \A t \in Thread : lockers'[t].msgs = lockers[t].msgs
    <3>1. SetMsgAckAll(unit[c].msgId, "RECONSUME_LATER") \/ UNCHANGED lockers
      BY <1>4 DEF SetMsgReconsume, ConsumeCancel
    <3> QED
      BY <3>1, SetMsgAckAllAccounted, ZenonT(40) DEF IInv, TypeOK, BatchesAccounted, ConsumeStatus
  <2>2. UNCHANGED <<broker, consumed, acked>>
    BY <1>4 DEF SetMsgReconsume, ConsumeCancel, brokerVars, historyVars
  <2> QED
    BY <2>1, <2>2, SameBatches
<1>5. ASSUME NEW c \in Call, NEW t \in Thread, Fetch(c, t)
      PROVE  UNCHANGED Delivery!vars
  <2>1. \A u \in Thread : lockers'[u].msgs = lockers[u].msgs
    BY <1>5 DEF Fetch, GetMsg, IInv, TypeOK, Locker
  <2> QED
    BY <1>5, <2>1, SameBatches DEF Fetch, brokerVars, historyVars
<1>6. ASSUME UNCHANGED <<lockers, broker, consumed, acked>>
      PROVE  UNCHANGED Delivery!vars
  BY <1>6, SameBatches
<1>7. ASSUME NEW c \in Call,
             \/ Register(c) \/ ResponseMsg(c) \/ WatchAck(c)
             \/ ResponseTimeOut(c) \/ FetchAgain(c)
             \/ AckAgain(c) \/ AckTimeout(c) \/ DropAcked(c)
      PROVE  UNCHANGED Delivery!vars
  BY <1>6, <1>7
  DEF Register, ResponseMsg, WatchAck, ResponseTimeOut,
      FetchAgain, AckAgain, AckTimeout, DropAcked, brokerVars, historyVars
<1>8. ASSUME TryPop \/ PoolEmpty \/ WaitNotify \/ NotifyTimeout \/ ConsumeNotify
             \/ Tick \/ UNCHANGED vars
      PROVE  UNCHANGED Delivery!vars
  BY <1>6, <1>8
  DEF TryPop, PoolEmpty, WaitNotify, NotifyTimeout, ConsumeNotify, Tick, vars,
      brokerVars, historyVars
<1>9. ASSUME NEW c \in Call, ConsumeProcess(c) \/ ConsumeDel(c) \/ CancelErase(c)
      PROVE  UNCHANGED Delivery!vars
  BY <1>6, <1>9 DEF ConsumeProcess, ConsumeDel, CancelErase, brokerVars, historyVars
<1>10. ASSUME NEW a \in Ack, AckReply(a) \/ AckDel(a)
       PROVE  UNCHANGED Delivery!vars
  BY <1>6, <1>10 DEF AckReply, AckDel, brokerVars, historyVars
<1>11. CASE LoopMatch
  BY <1>4, <1>5, <1>7, <1>8, <1>11 DEF LoopMatch
<1>12. CASE HandleRpcs
  BY <1>3, <1>4, <1>8, <1>9, <1>10, <1>12 DEF HandleRpcs, HandlerStep
<1> QED
  BY <1>1, <1>2, <1>8, <1>11, <1>12 DEF Next

\* The consume path implements at-least-once delivery: for any number of clients,
\* callback threads and messages, and any batches.
THEOREM Refinement == Spec => ImplementsAtLeastOnce
<1>1. Init => Delivery!Init
  BY NoLockerAccounted DEF Init, Delivery!Init
<1>2. IInv /\ [Next]_vars => [Delivery!Next]_(Delivery!vars)
  BY RefinementStep
<1> QED
  BY <1>1, <1>2, Invariance, PTL DEF Spec, Delivery!Spec, ImplementsAtLeastOnce

-----------------------------------------------------------------------------
(* Where the unit of a call is, and what the matcher may still do with it.  *)

ToMatch(c) == Pooled(c) \/ (matcher.unit = c /\ matcher.pc = "match")

\* A unit is in the pool once, or in the matcher's hand.
OnePlace ==
  /\ \A i, j \in DOMAIN pool : pool[i] = pool[j] => i = j
  /\ ~Pooled(matcher.unit)
  /\ matcher.unit = NoCall <=> matcher.pc \in {"pop", "sleep", "wait"}

\* A unit the matcher will look at is of a request that came in, as is one with a
\* message; it was not answered while it has none.  Once a delivery is over, which sets
\* the idle time to 0, the age of its unit is no less than what the consumer is idle.
Calls ==
  \A c \in Call :
    /\ Watched(c) => call[c] # "NEW"
    /\ ToMatch(c) /\ unit[c].status = "PROXY_CONSUME_INIT" => call[c] = "PROCESS"
    /\ unit[c].status = "CLIENT_RECEIVE" => call[c] # "NEW"
    /\ unit[c].status = "CLIENT_RECEIVE" /\ ~Delivering(c) => unit[c].age >= idle
    /\ matcher.unit = c /\ matcher.pc \in {"register", "respond"} => call[c] = "PROCESS"
    /\ matcher.unit = c /\ matcher.pc \in {"respond", "reset"} =>
         unit[c].status # "PROXY_CONSUME_INIT"
    /\ handler.pc = "erase" /\ handler.call = c => call[c] = "BROKEN"

CInv == IInv /\ OnePlace /\ Calls

UnitType == [status : UnitStatus, msgId : MsgId \cup {NoMsg}, age : 0..TimeCap]

\* The pool after a unit is taken from its front, and after one is put at its end.
LEMMA TailPool ==
  ASSUME IInv, OnePlace, pool # <<>>, pool' = Tail(pool)
  PROVE  /\ Head(pool) \in Call /\ Pooled(Head(pool))
         /\ \A i, j \in DOMAIN pool' : pool'[i] = pool'[j] => i = j
         /\ \A c : Pooled(c)' <=> Pooled(c) /\ c # Head(pool)
<1> DEFINE n == Len(pool)
<1>1. /\ n \in Nat /\ n # 0 /\ DOMAIN pool = 1..n /\ Head(pool) = pool[1] /\ Head(pool) \in Call
      /\ pool' \in Seq(Call) /\ Len(pool') = n - 1 /\ \A i \in 1..(n - 1) : pool'[i] = pool[i + 1]
  BY LenProperties, EmptySeq, HeadTailProperties DEF IInv, TypeOK
<1>2. DOMAIN pool' = 1..(n - 1)
  BY <1>1, LenProperties
<1> HIDE DEF n
<1>3. \A i, j \in DOMAIN pool' : pool'[i] = pool'[j] => i = j
  <2> SUFFICES ASSUME NEW i \in 1..(n - 1), NEW j \in 1..(n - 1), pool'[i] = pool'[j]
               PROVE  i = j
    BY <1>2
  <2>1. i + 1 \in DOMAIN pool /\ j + 1 \in DOMAIN pool /\ pool[i + 1] = pool[j + 1]
    BY <1>1
  <2> QED
    BY <1>1, <2>1 DEF OnePlace
<1>4. ASSUME NEW c
      PROVE  Pooled(c)' <=> Pooled(c) /\ c # Head(pool)
  <2>1. ASSUME NEW i \in DOMAIN pool', pool'[i] = c
        PROVE  Pooled(c) /\ c # Head(pool)
    <3>1. i + 1 \in DOMAIN pool /\ pool[i + 1] = c /\ 1 \in DOMAIN pool /\ i + 1 # 1
      BY <1>1, <1>2, <2>1
    <3> QED
      BY <1>1, <3>1 DEF OnePlace, Pooled
  <2>2. ASSUME NEW i \in DOMAIN pool, pool[i] = c, c # Head(pool)
        PROVE  Pooled(c)'
    <3>1. i - 1 \in 1..(n - 1) /\ (i - 1) + 1 = i
      BY <1>1, <2>2
    <3>2. pool'[i - 1] = c
      BY <1>1, <2>2, <3>1
    <3> QED
      BY <1>2, <3>1, <3>2 DEF Pooled
  <2> QED
    BY <2>1, <2>2 DEF Pooled
<1>5. Pooled(Head(pool))
  BY <1>1 DEF Pooled
<1> QED
  BY <1>1, <1>3, <1>4, <1>5

LEMMA AppendPool ==
  ASSUME IInv, OnePlace, NEW d \in Call, ~Pooled(d), pool' = Append(pool, d)
  PROVE  /\ \A i, j \in DOMAIN pool' : pool'[i] = pool'[j] => i = j
         /\ \A c : Pooled(c)' <=> Pooled(c) \/ c = d
<1> DEFINE n == Len(pool)
<1>1. /\ n \in Nat /\ DOMAIN pool = 1..n
      /\ pool' \in Seq(Call) /\ Len(pool') = n + 1 /\ pool'[n + 1] = d
      /\ \A i \in 1..n : pool'[i] = pool[i]
  BY LenProperties DEF IInv, TypeOK
<1>2. DOMAIN pool' = 1..(n + 1)
  BY <1>1, LenProperties
<1> HIDE DEF n
<1>3. \A i \in 1..(n + 1) : i \in 1..n \/ i = n + 1
  BY <1>1
<1>4. 1..n \subseteq 1..(n + 1) /\ n + 1 \in 1..(n + 1)
  BY <1>1
<1> QED
  BY <1>1, <1>2, <1>3, <1>4 DEF OnePlace, Pooled

LEMMA TakeUnit ==
  ASSUME CInv, TryPop
  PROVE  (OnePlace /\ Calls)'
<1>1. /\ matcher.pc = "pop" /\ pool # <<>> /\ pool' = Tail(pool)
      /\ matcher'.pc = "match" /\ matcher'.unit = Head(pool)
      /\ UNCHANGED <<unit, call, handler, idle>>
  BY DEF TryPop, MatcherAt, rpcVars
<1>2. /\ Head(pool) \in Call /\ Pooled(Head(pool))
      /\ \A i, j \in DOMAIN pool' : pool'[i] = pool'[j] => i = j
      /\ \A c : Pooled(c)' <=> Pooled(c) /\ c # Head(pool)
  BY <1>1, TailPool DEF CInv
<1>3. OnePlace'
  BY <1>1, <1>2, NoneAssumption DEF OnePlace
<1>4. Calls'
  BY <1>1, <1>2 DEF CInv, Calls, Watched, ToMatch, Delivering
<1> QED
  BY <1>3, <1>4

\* The unit in hand goes back to the pool, or is let go.
LEMMA PutUnit ==
  ASSUME CInv, NEW c \in Call, WatchAck(c) \/ FetchAgain(c) \/ AckAgain(c)
  PROVE  (OnePlace /\ Calls)'
<1>1. /\ matcher.unit = c /\ matcher.pc \in {"match", "reset"}
      /\ pool' = Append(pool, c) /\ matcher'.pc = "pop" /\ matcher'.unit = NoCall
      /\ UNCHANGED <<unit, call, handler>> /\ idle' \in {0, idle}
      /\ matcher.pc = "reset" => idle' = 0
  BY DEF WatchAck, FetchAgain, AckAgain, Requeue, Matching, NothingFetched, MatcherAt, rpcVars
<1>2. ~Pooled(c)
  BY <1>1 DEF CInv, OnePlace
<1>3. /\ \A i, j \in DOMAIN pool' : pool'[i] = pool'[j] => i = j
      /\ \A d : Pooled(d)' <=> Pooled(d) \/ d = c
  BY <1>1, <1>2, AppendPool DEF CInv
<1>4. ~Pooled(NoCall)'
  <2>1. ~Pooled(NoCall)
    BY NoneAssumption, ElementOfSeq, LenProperties DEF CInv, IInv, TypeOK, Pooled
  <2> QED
    BY <1>3, <2>1, NoneAssumption
<1>5. OnePlace'
  BY <1>1, <1>3, <1>4 DEF OnePlace
<1>6. \A d \in Call : unit[d].age \in 0..TimeCap /\ idle \in 0..TimeCap
  BY DEF CInv, IInv, TypeOK
<1>7. Calls'
  BY <1>1, <1>3, <1>6, NoneAssumption, TimeAssumption
  DEF CInv, Calls, Watched, ToMatch, Delivering
<1> QED
  BY <1>5, <1>7

LEMMA DropUnit ==
  ASSUME CInv, NEW c \in Call, ResponseTimeOut(c) \/ SetMsgReconsume(c) \/ DropAcked(c)
  PROVE  (OnePlace /\ Calls)'
<1>1. /\ matcher.unit = c /\ matcher.pc \in {"match", "reconsume"}
      /\ matcher'.pc = "pop" /\ matcher'.unit = NoCall
      /\ UNCHANGED <<pool, unit, handler>> /\ idle' \in {0, idle}
      /\ call' \in {call, [call EXCEPT ![c] = "SENT"], [call EXCEPT ![c] = "BROKEN"]}
      /\ call' # call => matcher.pc = "match" /\ unit[c].status = "PROXY_CONSUME_INIT"
  BY DEF ResponseTimeOut, SetMsgReconsume, DropAcked, Matching, NothingFetched, MatcherAt,
         rpcVars, unitVars
<1>2. ~Pooled(c) /\ ~Pooled(NoCall)
  BY <1>1, NoneAssumption, ElementOfSeq, LenProperties DEF CInv, IInv, TypeOK, Pooled, OnePlace
<1>3. \A d : Pooled(d)' <=> Pooled(d)
  BY <1>1 DEF Pooled
<1>4. OnePlace'
  BY <1>1, <1>2, <1>3 DEF CInv, OnePlace
<1>5. \A d \in Call : unit[d].age \in 0..TimeCap /\ idle \in 0..TimeCap
  BY DEF CInv, IInv, TypeOK
<1>6. \A d \in Call : d # c => call'[d] = call[d]
  BY <1>1 DEF CInv, IInv, TypeOK
<1>7. call'[c] # call[c] => call[c] = "PROCESS" /\ call'[c] \in {"SENT", "BROKEN"}
  BY <1>1 DEF CInv, IInv, TypeOK, Calls, ToMatch, Delivering
<1>8. Calls'
  BY <1>1, <1>2, <1>3, <1>5, <1>6, <1>7, NoneAssumption, TimeAssumption
  DEF CInv, Calls, Watched, ToMatch, Delivering
<1> QED
  BY <1>4, <1>8

\* The matcher goes on with the unit in hand, or waits for one.
LEMMA KeepUnit ==
  ASSUME CInv,
         \/ PoolEmpty \/ WaitNotify \/ NotifyTimeout
         \/ \E c \in Call : \/ AckTimeout(c) \/ Register(c) \/ ResponseMsg(c)
                           \/ \E t \in Thread : Fetch(c, t)
  PROVE  (OnePlace /\ Calls)'
<1> DEFINE Same == UNCHANGED <<pool, handler, idle>>
<1>1. CASE PoolEmpty \/ WaitNotify \/ NotifyTimeout
  <2>1. /\ matcher.pc \in {"pop", "sleep", "wait"} /\ matcher'.pc \in {"pop", "sleep", "wait"}
        /\ matcher'.unit = NoCall /\ Same /\ UNCHANGED <<unit, call>>
    BY <1>1 DEF PoolEmpty, WaitNotify, NotifyTimeout, MatcherAt, rpcVars, unitVars
  <2> QED
    BY <2>1, NoneAssumption DEF CInv, OnePlace, Calls, Pooled, Watched, ToMatch, Delivering
<1>2. ASSUME NEW c \in Call, AckTimeout(c) \/ \E t \in Thread : Fetch(c, t)
      PROVE  (OnePlace /\ Calls)'
  <2>1. /\ matcher.unit = c /\ matcher.pc = "match" /\ matcher'.unit = c
        /\ \/ matcher'.pc = "reconsume"
           \/ matcher'.pc = "register" /\ unit[c].status = "PROXY_CONSUME_INIT"
        /\ Same /\ UNCHANGED <<unit, call>>
    BY <1>2 DEF AckTimeout, Fetch, Matching, CInv, IInv, TypeOK, rpcVars, unitVars
  <2>2. OnePlace'
    BY <2>1, NoneAssumption DEF CInv, OnePlace, Pooled
  <2>3. Calls'
    BY <2>1 DEF CInv, Calls, Pooled, Watched, ToMatch, Delivering
  <2> QED
    BY <2>2, <2>3
<1>3. ASSUME NEW c \in Call, Register(c)
      PROVE  (OnePlace /\ Calls)'
  <2>1. /\ matcher.unit = c /\ matcher.pc = "register" /\ matcher'.unit = c
        /\ matcher'.pc = "respond" /\ Same /\ UNCHANGED call
        /\ unit'[c].status = "CLIENT_RECEIVE"
        /\ \A d \in Call : d # c => unit'[d] = unit[d]
    BY <1>3 DEF Register, CInv, IInv, TypeOK, rpcVars
  <2>2. OnePlace'
    BY <2>1, NoneAssumption DEF CInv, OnePlace, Pooled
  <2>3. ~Pooled(c)
    BY <2>1 DEF CInv, OnePlace
  <2>4. Calls'
    BY <2>1, <2>3 DEF CInv, Calls, Pooled, Watched, ToMatch, Delivering
  <2> QED
    BY <2>2, <2>4
<1>4. ASSUME NEW c \in Call, ResponseMsg(c)
      PROVE  (OnePlace /\ Calls)'
  <2>1. /\ matcher.unit = c /\ matcher.pc = "respond" /\ matcher'.unit = c
        /\ matcher'.pc = "reset" /\ Same /\ UNCHANGED unit
        /\ call'[c] \in {"SENT", "BROKEN"}
        /\ \A d \in Call : d # c => call'[d] = call[d]
    BY <1>4 DEF ResponseMsg, CInv, IInv, TypeOK, unitVars
  <2>2. OnePlace'
    BY <2>1, NoneAssumption DEF CInv, OnePlace, Pooled
  <2>3. ~Pooled(c) /\ call[c] = "PROCESS"
    BY <2>1 DEF CInv, OnePlace, Calls
  <2>4. Calls'
    BY <2>1, <2>3 DEF CInv, Calls, Pooled, Watched, ToMatch, Delivering
  <2> QED
    BY <2>2, <2>4
<1> QED
  BY <1>1, <1>2, <1>3, <1>4

\* A call comes in, or goes.
LEMMA ComeOrGo ==
  ASSUME CInv, NEW c \in Call,
         ConsumeProcess(c) \/ ConsumeDel(c) \/ ConsumeCancel(c) \/ CancelErase(c)
  PROVE  (OnePlace /\ Calls)'
<1>1. CASE ConsumeProcess(c)
  <2>1. /\ handler'.pc = "notify" /\ call[c] = "NEW" /\ call'[c] = "PROCESS"
        /\ unit'[c] = NewUnit /\ \A d \in Call : d # c => call'[d] = call[d] /\ unit'[d] = unit[d]
        /\ pool' = Append(pool, c) /\ UNCHANGED <<matcher, idle>>
    BY <1>1 DEF ConsumeProcess, CInv, IInv, TypeOK
  <2>2. ~Pooled(c) /\ matcher.unit # c
    BY <2>1 DEF CInv, Calls, Watched
  <2>3. /\ \A i, j \in DOMAIN pool' : pool'[i] = pool'[j] => i = j
        /\ \A d : Pooled(d)' <=> Pooled(d) \/ d = c
    BY <2>1, <2>2, AppendPool DEF CInv
  <2>4. OnePlace'
    BY <2>1, <2>2, <2>3 DEF CInv, OnePlace
  <2>5. Calls'
    BY <2>1, <2>2, <2>3 DEF CInv, Calls, Watched, ToMatch, Delivering, NewUnit
  <2> QED
    BY <2>4, <2>5
<1>2. CASE ConsumeDel(c) \/ ConsumeCancel(c) \/ CancelErase(c)
  <2>1. /\ UNCHANGED <<pool, unit, matcher, idle>>
        /\ \A d \in Call : d # c => call'[d] = call[d]
        /\ call[c] # "NEW" /\ call'[c] \in {call[c], "DELETED"} /\ call[c] # "PROCESS"
        /\ handler'.pc = "erase" => /\ handler'.call \in {c, handler.call}
                                    /\ handler'.call = c => call'[c] = "BROKEN"
                                    /\ handler'.call # c => handler.pc = "erase"
    <3>1. CASE ConsumeDel(c)
      BY <3>1 DEF ConsumeDel, CInv, IInv, TypeOK, unitVars
    <3>2. CASE ConsumeCancel(c)
      BY <3>2 DEF ConsumeCancel, CInv, IInv, TypeOK, unitVars
    <3>3. CASE CancelErase(c)
      BY <3>3 DEF CancelErase, CInv, IInv, TypeOK, HandlerIdle, Calls
    <3> QED
      BY <1>2, <3>1, <3>2, <3>3
  <2>2. OnePlace'
    BY <2>1 DEF CInv, OnePlace, Pooled
  <2>3. Calls'
    BY <2>1 DEF CInv, Calls, Pooled, Watched, ToMatch, Delivering
  <2> QED
    BY <2>2, <2>3
<1> QED
  BY <1>1, <1>2

\* Acks change no call, and a notification wakes the matcher up; the callback threads
\* touch neither.
LEMMA OtherSteps ==
  ASSUME CInv,
         \/ ConsumeNotify \/ UNCHANGED vars
         \/ \E a \in Ack : AckReply(a) \/ AckDel(a)
         \/ \E a \in Ack, m \in MsgId, s \in AckStatus : AckProcess(a, m, s)
         \/ \E t \in Thread : ReturnStatus(t) \/ \E b \in Batches : ConsumeMessage(t, b)
  PROVE  (OnePlace /\ Calls)'
<1>1. /\ UNCHANGED <<pool, call>> /\ idle' \in {0, idle}
      /\ handler'.pc = "erase" => handler' = handler
      /\ \/ UNCHANGED matcher
         \/ matcher.pc = "wait" /\ matcher' = MatcherAt("pop")
      /\ \A c \in Call : unit'[c] # unit[c] => unit'[c].status = "CONSUME_ACK"
  <2>1. CASE ConsumeNotify
    BY <2>1 DEF ConsumeNotify, HandlerIdle, unitVars
  <2>2. CASE UNCHANGED vars
    BY <2>2 DEF vars, unitVars, rpcVars
  <2>3. ASSUME NEW a \in Ack, AckReply(a) \/ AckDel(a)
        PROVE  <1>1!:
    BY <2>3 DEF AckReply, AckDel, HandlerIdle, CInv, IInv, TypeOK
  <2>4. ASSUME NEW a \in Ack, NEW m \in MsgId, NEW s \in AckStatus, AckProcess(a, m, s)
        PROVE  <1>1!:
    BY <2>4 DEF AckProcess, unitVars, CInv, IInv, TypeOK
  <2>5. ASSUME NEW t \in Thread, ReturnStatus(t) \/ \E b \in Batches : ConsumeMessage(t, b)
        PROVE  <1>1!:
    BY <2>5 DEF ReturnStatus, ConsumeMessage, unitVars, rpcVars
  <2> QED
    BY <2>1, <2>2, <2>3, <2>4, <2>5
<1>2. matcher'.unit = matcher.unit
  BY <1>1 DEF MatcherAt, CInv, OnePlace
<1>3. matcher'.pc = matcher.pc \/ (matcher.pc = "wait" /\ matcher'.pc = "pop")
  BY <1>1 DEF MatcherAt
<1>4. \A c \in Call : unit[c].age \in 0..TimeCap /\ idle \in 0..TimeCap
  BY DEF CInv, IInv, TypeOK
<1>5. OnePlace'
  BY <1>1, <1>2, <1>3 DEF CInv, OnePlace, Pooled
<1>6. Calls'
  BY <1>1, <1>2, <1>3, <1>4, TimeAssumption
  DEF CInv, Calls, Pooled, Watched, ToMatch, Delivering
<1> QED
  BY <1>5, <1>6

\* The ages of the units and of the consumer's idleness grow together.
LEMMA TickAges ==
  ASSUME CInv, Tick
  PROVE  (OnePlace /\ Calls)'
<1>1. /\ UNCHANGED <<pool, call, matcher, handler>> /\ idle' = Older(idle)
      /\ \A c \in Call : /\ unit'[c].status = unit[c].status
                         /\ call[c] # "NEW" => unit'[c].age = Older(unit[c].age)
  BY DEF Tick, CInv, IInv, TypeOK, rpcVars
<1>2. \A n, k \in 0..TimeCap : n >= k => Older(n) >= Older(k)
  BY TimeAssumption DEF Older
<1>3. \A c \in Call : unit[c].age \in 0..TimeCap /\ idle \in 0..TimeCap
  BY DEF CInv, IInv, TypeOK
<1>4. OnePlace'
  BY <1>1 DEF CInv, OnePlace, Pooled
<1>5. Calls'
  BY <1>1, <1>2, <1>3 DEF CInv, Calls, Pooled, Watched, ToMatch, Delivering
<1> QED
  BY <1>4, <1>5

LEMMA CallsStep ==
  ASSUME CInv, [Next]_vars
  PROVE  (OnePlace /\ Calls)'
<1>1. CASE LoopMatch \/ NotifyTimeout
  BY <1>1, TakeUnit, PutUnit, DropUnit, KeepUnit DEF LoopMatch
<1>2. CASE HandleRpcs
  BY <1>2, ComeOrGo, OtherSteps DEF HandleRpcs, HandlerStep
<1> QED
  BY <1>1, <1>2, TickAges, OtherSteps DEF Next

\* A unit is in one place, and answered at most once, in every execution.
THEOREM CallsInvariance == Spec => []CInv
<1>1. Init => OnePlace /\ Calls
  <2>1. Init => \A c : ~Pooled(c)
    BY DEF Init, Pooled
  <2> QED
    BY <2>1, NoneAssumption
    DEF Init, OnePlace, Calls, MatcherAt, HandlerIdle, NewUnit, Watched, ToMatch, Delivering
<1>2. CInv /\ [Next]_vars => (OnePlace /\ Calls)'
  BY CallsStep
<1> QED
  BY <1>1, <1>2, Invariance, PTL DEF Spec, CInv

\* When the consumer is inactive for so long that shutdownConsumer may take it down,
\* every client with a message is past its ack time, but for the one the matcher is
\* just giving a message to and has not reset the idle time for.
THEOREM OnlyDeliveryCutShort == Spec => []CutShortOnlyInDelivery
<1>1. CInv => CutShortOnlyInDelivery
  <2> SUFFICES ASSUME CInv, IsTooInactive, NEW c \in Call, unit[c].status = "CLIENT_RECEIVE",
                      ~Delivering(c)
               PROVE  IsAckTimeout(unit[c])
    BY DEF CutShortOnlyInDelivery
  <2>1. unit[c].age >= idle /\ unit[c].age \in 0..TimeCap /\ idle \in 0..TimeCap
    BY DEF CInv, IInv, TypeOK, Calls
  <2> QED
    BY <2>1, TimeAssumption DEF IsAckTimeout, IsTooInactive
<1> QED
  BY <1>1, CallsInvariance, PTL

\* Finish is called once for every request, by the matcher that holds its unit and
\* nobody else, and the call object is deleted once, after its Finish.
THEOREM Answered == Spec => AnsweredOnce
<1> DEFINE Life == \A c \in Call : call'[c] # call[c] =>
                     <<call[c], call'[c]>> \in
                       {<<"NEW", "PROCESS">>, <<"PROCESS", "SENT">>, <<"PROCESS", "BROKEN">>,
                        <<"SENT", "DELETED">>, <<"BROKEN", "DELETED">>}
<1>1. ASSUME CInv, [Next]_vars
      PROVE  Life
  <2> USE <1>1
  <2>1. ASSUME NEW c \in Call, ResponseMsg(c) \/ ResponseTimeOut(c)
        PROVE  Life
    <3>1. call[c] = "PROCESS"
      BY <2>1 DEF CInv, Calls, ToMatch, ResponseMsg, ResponseTimeOut, NothingFetched, Matching
    <3> QED
      BY <2>1, <3>1 DEF ResponseMsg, ResponseTimeOut, CInv, IInv, TypeOK
  <2>2. ASSUME NEW c \in Call,
               ConsumeProcess(c) \/ ConsumeDel(c) \/ ConsumeCancel(c) \/ CancelErase(c)
        PROVE  Life
    BY <2>2 DEF ConsumeProcess, ConsumeDel, ConsumeCancel, CancelErase, CInv, IInv, TypeOK, Calls
  <2>3. CASE UNCHANGED call
    BY <2>3
  <2>4. CASE LoopMatch
    <3>1. \/ \E c \in Call : ResponseMsg(c) \/ ResponseTimeOut(c)
          \/ UNCHANGED call
      BY <2>4, ZenonT(40) DEF LoopMatch, TryPop, PoolEmpty, WaitNotify, Fetch, Register, WatchAck,
                  FetchAgain, AckAgain, AckTimeout, SetMsgReconsume, DropAcked, rpcVars
    <3> QED
      BY <2>1, <2>3, <3>1
  <2>5. CASE HandleRpcs
    BY <2>2, <2>3, <2>5 DEF HandleRpcs, HandlerStep, ConsumeNotify, AckReply, AckDel, AckProcess
  <2>6. CASE \/ NotifyTimeout \/ Tick \/ UNCHANGED vars
             \/ \E t \in Thread : ReturnStatus(t) \/ \E b \in Batches : ConsumeMessage(t, b)
    BY <2>3, <2>6 DEF NotifyTimeout, Tick, vars, ReturnStatus, ConsumeMessage, rpcVars
  <2> QED
    BY <2>4, <2>5, <2>6 DEF Next
<1>2. CInv /\ [Next]_vars => [Life]_vars
  BY <1>1
<1> QED
  BY <1>2, CallsInvariance, PTL DEF Spec, AnsweredOnce

-----------------------------------------------------------------------------
(* Clients that are gone: no ack ever comes, Ack = {}.                      *)

\* Nobody sets a unit to CONSUME_ACK then.
NoAcks ==
  \A c \in Call :
    /\ unit[c].status # "CONSUME_ACK"
    /\ matcher.unit = c /\ matcher.pc = "register" => unit[c].status = "PROXY_CONSUME_INIT"

\* Message m was handed out and has no verdict.
Open(m) ==
  \E t \in Thread : \E i \in DOMAIN lockers[t].msgs :
    Unsettled(lockers[t], i) /\ lockers[t].msgs[i] = m

\* The matcher is about to register a unit for m, or will come back to one.
Watch(m) ==
  \/ matcher.pc = "register" /\ matcher.msg = m
  \/ \E c \in Call : Watched(c) /\ unit[c].status = "CLIENT_RECEIVE" /\ unit[c].msgId = m

WInv == CInv /\ NoAcks /\ \A m : Open(m) => Watch(m)

\* setMsgAck settles the units of its id, and opens none.
LEMMA SetMsgAckSettles ==
  ASSUME IInv, NEW id, NEW s \in ConsumeStatus, SetMsgAckAll(id, s), NEW m, Open(m)'
  PROVE  Open(m) /\ m # id
<1>0. PICK t \in Thread : \E i \in DOMAIN lockers'[t].msgs :
             Unsettled(lockers'[t], i) /\ lockers'[t].msgs[i] = m
  BY DEF Open
<1>1. PICK i \in DOMAIN lockers'[t].msgs : Unsettled(lockers'[t], i) /\ lockers'[t].msgs[i] = m
  BY <1>0
<1> DEFINE l == lockers[t]
           k == lockers'[t]
<1>2. l \in Locker /\ DOMAIN l.clientStatusMap = DOMAIN l.msgs
  BY DEF IInv, TypeOK, BatchesAccounted, Accounted
<1>3. k = l \/ k = SetMsgAck(l, id, s)
  BY DEF SetMsgAckAll
<1>4. CASE k = SetMsgAck(l, id, s)
  <2> HIDE DEF l, k
  <2>1. /\ k.msgs = l.msgs /\ k.fetchedArr = l.fetchedArr
        /\ \A j \in DOMAIN l.msgs : k.clientStatusMap[j] =
             IF j \in Units(l, id) THEN "MSG_CONSUME_ACK" ELSE l.clientStatusMap[j]
    BY <1>2, <1>4 DEF SetMsgAck, SetMsgStatus, TriggerCheck, Locker
  <2>2. Unsettled(l, i) /\ i \in DOMAIN l.msgs /\ l.msgs[i] = m /\ i \notin Units(l, id)
    BY <1>1, <2>1 DEF Unsettled, k
  <2> QED
    BY <2>2 DEF Open, Units, l
<1>5. CASE k = l /\ ~Holding(t)
  <2>1. DOMAIN l.msgs = {}
    BY <1>5 DEF Holding
  <2> QED
    BY <1>1, <1>5, <2>1
<1> QED
  BY <1>4, <1>5 DEF SetMsgAckAll

\* The callback threads, and a reply that did not get through, open none either.
LEMMA OpenStep ==
  ASSUME IInv, NEW m, Open(m)',
         \/ \E t \in Thread : ReturnStatus(t) \/ \E b \in Batches : ConsumeMessage(t, b)
         \/ \E c \in Call : ConsumeCancel(c)
  PROVE  Open(m)
<1>1. ASSUME NEW t \in Thread, NEW l, lockers' = [lockers EXCEPT ![t] = l],
             \A i \in DOMAIN l.msgs : ~Unsettled(l, i)
      PROVE  Open(m)
  BY <1>1 DEF Open, IInv, TypeOK
<1>2. ASSUME NEW t \in Thread, ReturnStatus(t)
      PROVE  Open(m)
  <2>1. DOMAIN NoLocker.msgs = {}
    BY NoLockerAccounted, EmptySeq
  <2> QED
    BY <1>1, <1>2, <2>1 DEF ReturnStatus
<1>3. ASSUME NEW t \in Thread, NEW b \in Batches, ConsumeMessage(t, b)
      PROVE  Open(m)
  <2>1. \A i \in DOMAIN NewLocker(b).msgs : ~Unsettled(NewLocker(b), i)
    BY DEF NewLocker, Unsettled
  <2> QED
    BY <1>1, <1>3, <2>1 DEF ConsumeMessage
<1>4. ASSUME NEW c \in Call, ConsumeCancel(c)
      PROVE  Open(m)
  <2>1. SetMsgAckAll(unit[c].msgId, "RECONSUME_LATER") \/ UNCHANGED lockers
    BY <1>4 DEF ConsumeCancel
  <2>2. CASE UNCHANGED lockers
    BY <2>2 DEF Open
  <2> QED
    BY <2>1, <2>2, SetMsgAckSettles DEF ConsumeStatus
<1> QED
  BY <1>2, <1>3, <1>4

\* getMsg opens the message it hands out.
LEMMA OpenFetch ==
  ASSUME IInv, NEW c \in Call, NEW t \in Thread, Fetch(c, t), NEW m, Open(m)'
  PROVE  Open(m) \/ m = matcher'.msg
<1> DEFINE l == lockers[t]
           k == GetMsg(l)
<1>1. /\ l \in Locker /\ l.fetchedArr \in Seq(Nat) /\ l.fetchedArr # <<>>
      /\ lockers' = [lockers EXCEPT ![t] = k]
      /\ matcher'.msg = l.msgs[Head(l.fetchedArr)]
  BY DEF Fetch, IInv, TypeOK, Locker, HasMsg, NextMsg
<1>2. /\ k.msgs = l.msgs /\ k.fetchedArr = Tail(l.fetchedArr)
      /\ k.clientStatusMap = l.clientStatusMap
  <2> HIDE DEF l
  <2> QED
    BY <1>1 DEF GetMsg, Locker
<1> HIDE DEF k
<1>3. ASSUME NEW i \in DOMAIN k.msgs, Unsettled(k, i), k.msgs[i] = m
      PROVE  Unsettled(l, i) \/ i = Head(l.fetchedArr)
  <2> DEFINE q == l.fetchedArr
  <2>1. /\ Len(q) \in Nat /\ DOMAIN q = 1..Len(q) /\ Head(q) = q[1]
        /\ Tail(q) \in Seq(Nat) /\ Len(Tail(q)) = Len(q) - 1 /\ DOMAIN Tail(q) = 1..(Len(q) - 1)
        /\ \A j \in 1..(Len(q) - 1) : Tail(q)[j] = q[j + 1]
    BY <1>1, LenProperties, HeadTailProperties
  <2>2. ASSUME NEW j \in DOMAIN q, q[j] = i, j # 1
        PROVE  FALSE
    <3>1. j - 1 \in DOMAIN Tail(q) /\ (j - 1) + 1 = j
      BY <2>1, <2>2
    <3>2. Tail(q)[j - 1] = i
      BY <2>1, <2>2, <3>1
    <3> QED
      BY <1>2, <1>3, <3>1, <3>2 DEF Unsettled
  <2> QED
    BY <1>2, <1>3, <2>1, <2>2 DEF Unsettled
<1>0. PICK u \in Thread : \E i \in DOMAIN lockers'[u].msgs :
             Unsettled(lockers'[u], i) /\ lockers'[u].msgs[i] = m
  BY DEF Open
<1>4. PICK i \in DOMAIN lockers'[u].msgs : Unsettled(lockers'[u], i) /\ lockers'[u].msgs[i] = m
  BY <1>0
<1>5. CASE u = t
  <2>1. lockers'[u] = k
    BY <1>1, <1>5 DEF IInv, TypeOK
  <2>2. Unsettled(l, i) \/ i = Head(l.fetchedArr)
    BY <1>3, <1>4, <2>1
  <2> QED
    BY <1>1, <1>2, <1>4, <2>1, <2>2 DEF Open
<1>6. CASE u # t
  BY <1>1, <1>4, <1>6 DEF Open, IInv, TypeOK
<1> QED
  BY <1>5, <1>6

\* No step sets a unit to CONSUME_ACK.
LEMMA NoAcksStep ==
  ASSUME Ack = {}, WInv, [Next]_vars
  PROVE  NoAcks'
<1> USE DEF WInv, CInv, IInv, TypeOK
<1>1. ASSUME NEW c \in Call, Register(c)
      PROVE  NoAcks'
  BY <1>1 DEF Register, NoAcks
<1>2. ASSUME NEW c \in Call, ConsumeProcess(c)
      PROVE  NoAcks'
  BY <1>2 DEF ConsumeProcess, NewUnit, NoAcks
<1>3. ASSUME NEW c \in Call, NEW t \in Thread, Fetch(c, t)
      PROVE  NoAcks'
  BY <1>3 DEF Fetch, Matching, NoAcks, unitVars
<1>4. CASE Tick
  BY <1>4 DEF Tick, NoAcks
<1>5. ASSUME \A c \in Call : unit'[c] = unit[c], matcher'.pc # "register" \/ UNCHANGED matcher
      PROVE  NoAcks'
  BY <1>5 DEF NoAcks
<1>6. CASE LoopMatch \/ NotifyTimeout
  <2>1. ASSUME TryPop \/ PoolEmpty \/ WaitNotify \/ NotifyTimeout
        PROVE  NoAcks'
    <3> HIDE DEF WInv, CInv, IInv, TypeOK
    <3>1. UNCHANGED unit /\ matcher'.pc # "register"
      BY <2>1 DEF TryPop, PoolEmpty, WaitNotify, NotifyTimeout, MatcherAt, unitVars
    <3> QED
      BY <1>5, <3>1
  <2>2. ASSUME NEW c \in Call, \/ ResponseMsg(c) \/ WatchAck(c) \/ ResponseTimeOut(c)
                              \/ FetchAgain(c) \/ AckAgain(c) \/ AckTimeout(c)
                              \/ SetMsgReconsume(c) \/ DropAcked(c)
        PROVE  NoAcks'
    BY <1>5, <2>2 DEF ResponseMsg, WatchAck, ResponseTimeOut, FetchAgain, AckAgain, AckTimeout,
                      SetMsgReconsume, DropAcked, MatcherAt, unitVars
  <2> QED
    BY <1>1, <1>3, <1>6, <2>1, <2>2 DEF LoopMatch
<1>7. CASE HandleRpcs
  <2>1. ASSUME ConsumeNotify \/ \E c \in Call : ConsumeDel(c) \/ ConsumeCancel(c) \/ CancelErase(c)
        PROVE  NoAcks'
    <3> HIDE DEF WInv, CInv, IInv, TypeOK
    <3>1. UNCHANGED unit /\ (matcher' = MatcherAt("pop") \/ UNCHANGED matcher)
      BY <2>1 DEF ConsumeNotify, ConsumeDel, ConsumeCancel, CancelErase, unitVars
    <3> QED
      BY <1>5, <3>1, SMTT(30) DEF MatcherAt
  <2> QED
    BY <1>2, <1>7, <2>1 DEF HandleRpcs, HandlerStep
<1>8. CASE \/ UNCHANGED vars
           \/ \E t \in Thread : ReturnStatus(t) \/ \E b \in Batches : ConsumeMessage(t, b)
  BY <1>5, <1>8 DEF vars, ReturnStatus, ConsumeMessage, unitVars
<1> QED
  BY <1>4, <1>6, <1>7, <1>8 DEF Next

\* What was watched is watched, unless the matcher let the unit go.
LEMMA WatchStep ==
  ASSUME Ack = {}, WInv, [Next]_vars, NEW m, Watch(m),
         \A c \in Call : SetMsgReconsume(c) => m # unit[c].msgId
  PROVE  Watch(m)'
<1> USE DEF Watch, Watched, Pooled
<1>1. CASE TryPop
  <2>1. \A c : Pooled(c)' <=> Pooled(c) /\ c # Head(pool)
    BY <1>1, TailPool DEF TryPop, WInv, CInv
  <2>2. /\ matcher.pc = "pop" /\ matcher.unit = NoCall
        /\ matcher'.unit = Head(pool) /\ UNCHANGED unit
    BY <1>1 DEF TryPop, MatcherAt, WInv, CInv, OnePlace
  <2>3. \A c \in Call : Watched(c) => Watched(c)'
    BY <2>1, <2>2, NoneAssumption
  <2> HIDE DEF Watched, Pooled
  <2> QED
    BY <2>2, <2>3
<1>2. ASSUME NEW c \in Call, WatchAck(c) \/ FetchAgain(c) \/ AckAgain(c)
      PROVE  Watch(m)'
  <2>1. /\ matcher.pc \in {"match", "reset"} /\ matcher.unit = c /\ pool' = Append(pool, c)
        /\ UNCHANGED unit
    BY <1>2 DEF WatchAck, FetchAgain, AckAgain, Requeue, Matching, NothingFetched
  <2>2. ~Pooled(c)
    BY <2>1 DEF WInv, CInv, OnePlace
  <2>3. \A d : Pooled(d)' <=> Pooled(d) \/ d = c
    BY <2>1, <2>2, AppendPool DEF WInv, CInv
  <2> HIDE DEF Pooled
  <2> QED
    BY <2>1, <2>3
<1>3. ASSUME NEW c \in Call, ResponseTimeOut(c) \/ SetMsgReconsume(c) \/ DropAcked(c)
      PROVE  Watch(m)'
  <2>1. /\ matcher.pc \in {"match", "reconsume"} /\ matcher.unit = c /\ UNCHANGED <<pool, unit>>
        /\ ~(unit[c].status = "CLIENT_RECEIVE" /\ unit[c].msgId = m)
    BY <1>3 DEF ResponseTimeOut, SetMsgReconsume, DropAcked, Matching, NothingFetched, unitVars,
                WInv, NoAcks
  <2> QED
    BY <2>1
<1>4. ASSUME NEW c \in Call, Register(c)
      PROVE  Watch(m)'
  <2>1. /\ matcher.pc = "register" /\ matcher.unit = c /\ UNCHANGED pool /\ matcher'.unit = c
        /\ unit'[c].status = "CLIENT_RECEIVE" /\ unit'[c].msgId = matcher.msg
        /\ \A d \in Call : d # c => unit'[d] = unit[d]
    BY <1>4 DEF Register, WInv, CInv, IInv, TypeOK
  <2>2. unit[c].status = "PROXY_CONSUME_INIT"
    BY <2>1 DEF WInv, NoAcks
  <2> QED
    BY <2>1, <2>2
<1>5. ASSUME NEW c \in Call, ConsumeProcess(c)
      PROVE  Watch(m)'
  <2>1. /\ call[c] = "NEW" /\ pool' = Append(pool, c) /\ UNCHANGED matcher
        /\ \A d \in Call : d # c => unit'[d] = unit[d]
    BY <1>5 DEF ConsumeProcess, WInv, CInv, IInv, TypeOK
  <2>2. ~Watched(c)
    BY <2>1 DEF WInv, CInv, Calls
  <2>3. \A d : Pooled(d)' <=> Pooled(d) \/ d = c
    BY <2>1, <2>2, AppendPool DEF WInv, CInv
  <2> HIDE DEF Pooled
  <2> QED
    BY <2>1, <2>2, <2>3
<1>6. ASSUME UNCHANGED pool, \A c \in Call : /\ unit'[c].status = unit[c].status
                                            /\ unit'[c].msgId = unit[c].msgId,
             \/ UNCHANGED matcher
             \/ matcher'.unit = matcher.unit /\ matcher.pc # "register"
      PROVE  Watch(m)'
  BY <1>6
<1>7. CASE LoopMatch \/ NotifyTimeout
  <2>1. ASSUME PoolEmpty \/ WaitNotify \/ NotifyTimeout
        PROVE  Watch(m)'
    <3>1. /\ UNCHANGED <<pool, unit>> /\ matcher'.unit = NoCall /\ matcher.unit = NoCall
          /\ matcher.pc # "register"
      BY <2>1 DEF PoolEmpty, WaitNotify, NotifyTimeout, MatcherAt, unitVars, WInv, CInv, OnePlace
    <3> QED
      BY <1>6, <3>1
  <2>2. ASSUME NEW c \in Call, \/ ResponseMsg(c) \/ AckTimeout(c)
                              \/ \E t \in Thread : Fetch(c, t)
        PROVE  Watch(m)'
    <3>1. /\ UNCHANGED <<pool, unit>> /\ matcher'.unit = matcher.unit /\ matcher.pc # "register"
      BY <2>2, ZenonT(40)
      DEF ResponseMsg, AckTimeout, Fetch, Matching, unitVars, WInv, CInv, IInv, TypeOK
    <3> QED
      BY <1>6, <3>1
  <2> QED
    BY <1>1, <1>2, <1>3, <1>4, <1>7, <2>1, <2>2 DEF LoopMatch
<1>8. CASE HandleRpcs
  <2>1. ASSUME NEW c \in Call, ConsumeDel(c) \/ ConsumeCancel(c) \/ CancelErase(c)
        PROVE  Watch(m)'
    <3>1. UNCHANGED <<pool, unit, matcher>>
      BY <2>1 DEF ConsumeDel, ConsumeCancel, CancelErase, unitVars
    <3> QED
      BY <1>6, <3>1
  <2>2. ASSUME ConsumeNotify
        PROVE  Watch(m)'
    <3>1. /\ UNCHANGED <<pool, unit>>
          /\ UNCHANGED matcher \/ (matcher.pc = "wait" /\ matcher' = MatcherAt("pop"))
      BY <2>2 DEF ConsumeNotify, unitVars
    <3>2. UNCHANGED matcher \/ (matcher'.unit = matcher.unit /\ matcher.pc # "register")
      BY <3>1 DEF MatcherAt, WInv, CInv, OnePlace
    <3> QED
      BY <1>6, <3>1, <3>2
  <2> QED
    BY <1>5, <1>8, <2>1, <2>2 DEF HandleRpcs, HandlerStep
<1>9. CASE Tick
  <2>1. UNCHANGED <<pool, matcher>> /\ \A c \in Call : /\ unit'[c].status = unit[c].status
                                                     /\ unit'[c].msgId = unit[c].msgId
    BY <1>9 DEF Tick, WInv, CInv, IInv, TypeOK
  <2> QED
    BY <1>6, <2>1
<1>10. CASE \/ UNCHANGED vars
            \/ \E t \in Thread : ReturnStatus(t) \/ \E b \in Batches : ConsumeMessage(t, b)
  <2>1. UNCHANGED <<pool, unit, matcher>>
    BY <1>10 DEF vars, ReturnStatus, ConsumeMessage, unitVars
  <2> QED
    BY <1>6, <2>1
<1> QED
  BY <1>7, <1>8, <1>9, <1>10 DEF Next

LEMMA WatchedStep ==
  ASSUME Ack = {}, WInv, [Next]_vars
  PROVE  (\A m : Open(m) => Watch(m))'
<1> SUFFICES ASSUME NEW m, Open(m)' PROVE Watch(m)'
  OBVIOUS
<1>1. ASSUME NEW c \in Call, SetMsgReconsume(c)
      PROVE  Open(m) /\ m # unit[c].msgId
  BY <1>1, SetMsgAckSettles DEF SetMsgReconsume, ConsumeStatus, WInv, CInv
<1>2. ASSUME NEW c \in Call, NEW t \in Thread, Fetch(c, t)
      PROVE  Open(m) \/ Watch(m)'
  <2>1. matcher'.pc = "register"
    BY <1>2 DEF Fetch, WInv, CInv, IInv, TypeOK
  <2> QED
    BY <1>2, <2>1, OpenFetch DEF Watch, WInv, CInv
<1>3. ASSUME UNCHANGED lockers
      PROVE  Open(m)
  BY <1>3 DEF Open
<1>4. Open(m) \/ Watch(m)'
  <2>1. CASE LoopMatch \/ NotifyTimeout
    <3>1. \/ UNCHANGED lockers
          \/ \E c \in Call : SetMsgReconsume(c) \/ \E t \in Thread : Fetch(c, t)
      BY <2>1 DEF LoopMatch, NotifyTimeout, TryPop, PoolEmpty, WaitNotify, Register,
                  ResponseMsg, WatchAck, ResponseTimeOut, FetchAgain, AckAgain, AckTimeout,
                  DropAcked
    <3> QED
      BY <1>1, <1>2, <1>3, <3>1
  <2>2. CASE HandleRpcs
    <3>1. UNCHANGED lockers \/ \E c \in Call : ConsumeCancel(c)
      BY <2>2 DEF HandleRpcs, HandlerStep, ConsumeNotify, ConsumeProcess, ConsumeDel, CancelErase
    <3> QED
      BY <1>3, <3>1, OpenStep DEF WInv, CInv
  <2>3. CASE Tick \/ UNCHANGED vars
    BY <1>3, <2>3 DEF Tick, vars
  <2>4. CASE \E t \in Thread : ReturnStatus(t) \/ \E b \in Batches : ConsumeMessage(t, b)
    BY <2>4, OpenStep DEF WInv, CInv
  <2> QED
    BY <2>1, <2>2, <2>3, <2>4 DEF Next
<1>5. CASE Open(m)
  <2>1. Watch(m) /\ \A c \in Call : SetMsgReconsume(c) => m # unit[c].msgId
    BY <1>1, <1>5 DEF WInv
  <2> QED
    BY <2>1, WatchStep
<1> QED
  BY <1>4, <1>5

\* When no client is left to acknowledge anything, a message that was handed out and
\* has no verdict is always watched, so that its callback thread is not left to wait
\* for ever.  With acks it is not so: an ack can settle the wrong unit.
THEOREM UnackedWatched == ASSUME Ack = {} PROVE Spec => []WatchedUntilAcked
<1>1. Init => NoAcks /\ \A m : Open(m) => Watch(m)
  <2>1. DOMAIN NoLocker.msgs = {}
    BY NoLockerAccounted, EmptySeq
  <2> QED
    BY <2>1, NoneAssumption DEF Init, NoAcks, Open, NewUnit, MatcherAt
<1>2. WInv /\ [Next]_vars => (NoAcks /\ \A m : Open(m) => Watch(m))'
  BY NoAcksStep, WatchedStep
<1>3. WInv => WatchedUntilAcked
  BY DEF WInv, WatchedUntilAcked, Open, Watch
<1> QED
  BY <1>1, <1>2, <1>3, CallsInvariance, PTL DEF Spec, WInv

-----------------------------------------------------------------------------
(* The copies of a message, at the broker and in the batches.               *)

At(b, m)        == {i \in DOMAIN b : b[i] = m}
CopiesOf(h, m)  == UNION {{t} \X At(h[t], m) : t \in Thread}

LEMMA CountAt ==
  ASSUME NEW b \in Seq(MsgId), NEW m, NEW t
  PROVE  /\ IsFiniteSet({t} \X At(b, m))
         /\ Cardinality({t} \X At(b, m)) = Count(b, m) /\ Count(b, m) \in Nat
<1>1. Len(b) \in Nat /\ DOMAIN b = 1 .. Len(b)
  BY LenProperties
<1>2. IsFiniteSet(DOMAIN b)
  BY <1>1, FS_Interval
<1>3. IsFiniteSet(At(b, m))
  BY <1>2, FS_Subset DEF At
<1>4. IsFiniteSet({t}) /\ Cardinality({t}) = 1
  BY FS_Singleton
<1>5. Cardinality(At(b, m)) = Count(b, m) /\ Count(b, m) \in Nat
  BY <1>3, FS_CardinalityType DEF At, Count
<1>6. /\ IsFiniteSet({t} \X At(b, m))
      /\ Cardinality({t} \X At(b, m)) = Cardinality({t}) * Cardinality(At(b, m))
  BY <1>3, <1>4, FS_Product
<1> QED
  BY <1>4, <1>5, <1>6

\* A batch more with a thread that had none.
LEMMA CopiesTaken ==
  ASSUME NEW h, NEW t \in Thread, h[t] = <<>>, NEW b \in Seq(MsgId), NEW g,
         g[t] = b, \A u \in Thread : u # t => g[u] = h[u], NEW m
  PROVE  /\ CopiesOf(g, m) = CopiesOf(h, m) \cup ({t} \X At(b, m))
         /\ CopiesOf(h, m) = CopiesOf(g, m) \ ({t} \X At(b, m))
         /\ IsFiniteSet(CopiesOf(h, m)) <=> IsFiniteSet(CopiesOf(g, m))
         /\ IsFiniteSet(CopiesOf(h, m)) =>
              /\ Cardinality(CopiesOf(h, m)) \in Nat
              /\ Cardinality(CopiesOf(g, m)) = Cardinality(CopiesOf(h, m)) + Count(b, m)
<1> DEFINE N == {t} \X At(b, m)
<1>1. At(<<>>, m) = {}
  BY EmptySeq DEF At
<1>2. CopiesOf(g, m) = CopiesOf(h, m) \cup N
  BY <1>1 DEF CopiesOf
<1>3. CopiesOf(h, m) = CopiesOf(g, m) \ N
  BY <1>1 DEF CopiesOf
<1>4. IsFiniteSet(N) /\ Cardinality(N) = Count(b, m) /\ Count(b, m) \in Nat
  BY CountAt
<1> HIDE DEF N
<1>5. CopiesOf(h, m) \cap N = {}
  BY <1>3
<1>6. ASSUME IsFiniteSet(CopiesOf(h, m))
      PROVE  /\ IsFiniteSet(CopiesOf(g, m)) /\ Cardinality(CopiesOf(h, m)) \in Nat
             /\ Cardinality(CopiesOf(g, m)) = Cardinality(CopiesOf(h, m)) + Count(b, m)
  <2>1. /\ IsFiniteSet(CopiesOf(h, m) \cup N)
        /\ Cardinality(CopiesOf(h, m) \cup N) =
             Cardinality(CopiesOf(h, m)) + Cardinality(N) - Cardinality(CopiesOf(h, m) \cap N)
    BY <1>4, <1>6, FS_Union
  <2>2. Cardinality(CopiesOf(h, m) \cap N) = 0 /\ Cardinality(CopiesOf(h, m)) \in Nat
    BY <1>5, <1>6, FS_EmptySet, FS_CardinalityType
  <2> QED
    BY <1>2, <1>4, <2>1, <2>2
<1>7. IsFiniteSet(CopiesOf(g, m)) => IsFiniteSet(CopiesOf(h, m))
  BY <1>3, FS_Subset
<1> QED
  BY <1>2, <1>3, <1>6, <1>7 DEF N

\* Conserved, in this module's terms; at first every copy is at the broker.
Copies(m) == CopiesOf(Held, m)

KInv ==
  /\ IInv
  /\ \A m \in MsgId : IsFiniteSet(Copies(m))
  /\ \A m \in MsgId \ acked : broker[m] + Cardinality(Copies(m)) = Stored[m]

LEMMA TakeConserves ==
  ASSUME KInv, NEW t \in Thread, NEW b \in Batches, ConsumeMessage(t, b), NEW m \in MsgId
  PROVE  /\ IsFiniteSet(Copies(m)')
         /\ m \notin acked' => broker'[m] + Cardinality(Copies(m)') = Stored[m]
<1>1. /\ Held[t] = <<>> /\ Held'[t] = b /\ \A u \in Thread : u # t => Held'[u] = Held[u]
      /\ b \in Seq(MsgId) /\ acked' = acked
  BY BatchAssumption
  DEF Held, ConsumeMessage, Holding, NewLocker, KInv, IInv, TypeOK, historyVars
<1>2. broker[m] \in Nat /\ broker'[m] = broker[m] - Count(b, m) /\ Count(b, m) \in Nat
  BY <1>1, CountType DEF ConsumeMessage, KInv, IInv, TypeOK
<1>3. /\ IsFiniteSet(Copies(m)) /\ IsFiniteSet(Copies(m)')
      /\ Cardinality(Copies(m)) \in Nat
      /\ Cardinality(Copies(m)') = Cardinality(Copies(m)) + Count(b, m)
  <2> DEFINE h == Held
             g == Held'
  <2>1. IsFiniteSet(CopiesOf(h, m)) /\ g[t] = b /\ h[t] = <<>>
        /\ \A u \in Thread : u # t => g[u] = h[u]
    BY <1>1 DEF KInv, Copies
  <2>2. Copies(m) = CopiesOf(h, m) /\ Copies(m)' = CopiesOf(g, m)
    BY DEF Copies, CopiesOf
  <2> HIDE DEF h, g
  <2> QED
    BY <1>1, <2>1, <2>2, CopiesTaken
<1> QED
  BY <1>1, <1>2, <1>3 DEF KInv

LEMMA ReturnConserves ==
  ASSUME KInv, NEW t \in Thread, ReturnStatus(t), NEW m \in MsgId
  PROVE  /\ IsFiniteSet(Copies(m)')
         /\ m \notin acked' => broker'[m] + Cardinality(Copies(m)') = Stored[m]
<1> DEFINE l == lockers[t]
           b == l.msgs
<1>1. /\ Held[t] = b /\ Held'[t] = <<>> /\ \A u \in Thread : u # t => Held'[u] = Held[u]
      /\ b \in Seq(MsgId) /\ acked' = acked /\ l \in Locker
  BY NoLockerAccounted
  DEF Held, ReturnStatus, KInv, IInv, TypeOK, Locker, historyVars
<1>2. /\ IsFiniteSet(Copies(m)) /\ IsFiniteSet(Copies(m)')
      /\ Cardinality(Copies(m)') \in Nat
      /\ Cardinality(Copies(m)) = Cardinality(Copies(m)') + Count(b, m)
  <2> DEFINE h == Held'
             g == Held
  <2>1. IsFiniteSet(CopiesOf(g, m)) /\ g[t] = b /\ h[t] = <<>>
        /\ \A u \in Thread : u # t => g[u] = h[u]
    BY <1>1 DEF KInv, Copies
  <2>2. Copies(m)' = CopiesOf(h, m) /\ Copies(m) = CopiesOf(g, m)
    BY DEF Copies, CopiesOf
  <2> HIDE DEF h, g, b
  <2> QED
    BY <1>1, <2>1, <2>2, CopiesTaken
<1>3. broker[m] \in Nat /\ Count(b, m) \in Nat
  BY <1>1, CountType DEF KInv, IInv, TypeOK
<1>4. ASSUME m \notin acked
      PROVE  broker'[m] = broker[m] + Count(b, m)
  <2>1. CASE \E i \in Returned(l, "RECONSUME_LATER") : l.msgs[i] = m
    BY <2>1 DEF ReturnStatus
  <2>2. CASE ~\E i \in Returned(l, "RECONSUME_LATER") : l.msgs[i] = m
    <3>1. \A i \in Returned(l, "CONSUME_SUCCESS") : l.msgs[i] \in acked
      BY <1>1, SuccessAcked DEF KInv, IInv, BatchesAccounted, ReturnStatus
    <3>2. \A i \in DOMAIN b : b[i] # m
      BY <1>4, <2>2, <3>1 DEF Returned, Verdict
    <3>3. Count(b, m) = 0
      BY <3>2, FS_EmptySet DEF Count
    <3>4. broker'[m] = broker[m]
      BY <2>2 DEF ReturnStatus
    <3> QED
      BY <1>3, <3>3, <3>4
  <2> QED
    BY <2>1, <2>2
<1> QED
  BY <1>1, <1>2, <1>3, <1>4 DEF KInv

\* Every other step leaves the batches and the broker, and acks take no copy.
LEMMA ConservedStep ==
  ASSUME KInv, [Next]_vars
  PROVE  KInv'
<1>1. IInv'
  BY StepInv DEF KInv
<1>2. ASSUME NEW t \in Thread, ReturnStatus(t) \/ \E b \in Batches : ConsumeMessage(t, b)
      PROVE  KInv'
  BY <1>1, <1>2, TakeConserves, ReturnConserves DEF KInv
<1>3. CASE ~\E t \in Thread : ReturnStatus(t) \/ \E b \in Batches : ConsumeMessage(t, b)
  <2>1. \A t \in Thread : lockers'[t].msgs = lockers[t].msgs
    <3>1. ASSUME NEW id, NEW s \in ConsumeStatus, SetMsgAckAll(id, s)
          PROVE  \A t \in Thread : lockers'[t].msgs = lockers[t].msgs
      <4>1. lockers \in [Thread -> Locker] /\ \A t \in Thread : Accounted(lockers[t], acked \cup {id})
        BY AccountedMonotonic DEF KInv, IInv, TypeOK, BatchesAccounted
      <4> QED
        BY <3>1, <4>1, SetMsgAckAllAccounted
    <3>2. ASSUME NEW c \in Call, NEW t \in Thread, Fetch(c, t)
          PROVE  \A u \in Thread : lockers'[u].msgs = lockers[u].msgs
      BY <3>2 DEF Fetch, GetMsg, KInv, IInv, TypeOK, Locker
    <3>3. \/ UNCHANGED lockers
          \/ \E c \in Call, t \in Thread : Fetch(c, t)
          \/ \E id : \E s \in ConsumeStatus : SetMsgAckAll(id, s)
      <4>1. CASE LoopMatch \/ NotifyTimeout
        BY <4>1 DEF LoopMatch, NotifyTimeout, TryPop, PoolEmpty, WaitNotify, Register,
                    ResponseMsg, WatchAck, ResponseTimeOut, FetchAgain, AckAgain, AckTimeout,
                    SetMsgReconsume, DropAcked, ConsumeStatus
      <4>2. CASE HandleRpcs
        BY <4>2, AckStatusAssumption
        DEF HandleRpcs, HandlerStep, ConsumeNotify, ConsumeProcess, ConsumeDel, ConsumeCancel,
            CancelErase, AckProcess, AckReply, AckDel, ConsumeStatus
      <4>3. CASE Tick \/ UNCHANGED vars
        BY <4>3 DEF Tick, vars
      <4> QED
        BY <1>3, <4>1, <4>2, <4>3 DEF Next
    <3> QED
      BY <3>1, <3>2, <3>3
  <2>2. UNCHANGED broker /\ acked \subseteq acked'
    <3>1. CASE LoopMatch \/ NotifyTimeout
      BY <3>1, ZenonT(40)
      DEF LoopMatch, NotifyTimeout, TryPop, PoolEmpty, WaitNotify, Fetch, Register,
                  ResponseMsg, WatchAck, ResponseTimeOut, FetchAgain, AckAgain, AckTimeout,
                  SetMsgReconsume, DropAcked, brokerVars, historyVars
    <3>2. CASE HandleRpcs
      BY <3>2
      DEF HandleRpcs, HandlerStep, ConsumeNotify, ConsumeProcess, ConsumeDel, ConsumeCancel,
          CancelErase, AckProcess, AckReply, AckDel, brokerVars, historyVars
    <3>3. CASE Tick \/ UNCHANGED vars
      BY <3>3 DEF Tick, vars, brokerVars, historyVars
    <3> QED
      BY <1>3, <3>1, <3>2, <3>3, SMTT(30) DEF Next
  <2>3. Held' = Held
    BY <2>1 DEF Held
  <2>4. \A m : Copies(m)' = Copies(m)
    BY <2>3 DEF Copies, CopiesOf
  <2> QED
    BY <1>1, <2>2, <2>4 DEF KInv
<1> QED
  BY <1>2, <1>3

\* As long as no client acknowledged a message, every copy of it that the broker had
\* is at the broker or in one batch a callback thread waits on: timeouts, replies that
\* fail and batches that are given back lose none and make none.
THEOREM CopiesKept == Spec => []CopiesConserved
<1>1. Init => KInv
  <2> SUFFICES ASSUME Init PROVE KInv
    OBVIOUS
  <2>1. \A t \in Thread : Held[t] = <<>>
    BY NoLockerAccounted DEF Init, Held
  <2>2. \A m : At(<<>>, m) = {}
    BY EmptySeq DEF At
  <2>3. \A m : Copies(m) = {}
    BY <2>1, <2>2 DEF Copies, CopiesOf
  <2>4. IsFiniteSet({}) /\ Cardinality({}) = 0
    BY FS_EmptySet
  <2>5. \A m \in MsgId : IsFiniteSet(Copies(m)) /\ Cardinality(Copies(m)) = 0
    BY <2>3, <2>4
  <2>6. \A m \in MsgId : broker[m] + 0 = Stored[m]
    <3>1. broker = Stored
      BY DEF Init
    <3>2. ASSUME NEW m \in MsgId PROVE Stored[m] \in Nat /\ Stored[m] + 0 = Stored[m]
      BY BatchAssumption
    <3> QED
      BY <3>1, <3>2, Zenon
  <2> QED
    BY <2>5, <2>6, InitInv DEF KInv
<1>2. KInv /\ [Next]_vars => KInv'
  BY ConservedStep
<1>3. KInv => CopiesConserved
  <2>1. \A S : Delivery!Cardinality(S) = Cardinality(S)
    BY Zenon DEF Delivery!Cardinality, Cardinality
  <2>2. \A m : Delivery!Copies(m) = Copies(m)
    BY DEF Delivery!Copies, Copies, CopiesOf, At, Held
  <2> QED
    BY <2>1, <2>2 DEF KInv, CopiesConserved, Delivery!Conserved
<1> QED
  BY <1>1, <1>2, <1>3, PTL DEF Spec
=============================================================================
