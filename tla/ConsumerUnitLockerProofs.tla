---------------------- MODULE ConsumerUnitLockerProofs ----------------------
(***************************************************************************)
(* What the methods of ConsumerUnitLocker preserve: the type of the record *)
(* and Accounted, whatever the batch, the message and the verdict.         *)
(***************************************************************************)
EXTENDS ConsumerUnitLocker, SequenceTheorems, TLAPS

\* A function on the positions of a sequence is a sequence.
LEMMA MapSeq ==
  ASSUME NEW S, NEW T, NEW s \in Seq(S), NEW f,
         f = [i \in DOMAIN s |-> f[i]], \A i \in DOMAIN s : f[i] \in T
  PROVE  f \in Seq(T)
<1>1. Len(s) \in Nat /\ DOMAIN s = 1 .. Len(s)
  BY LenProperties
<1>2. f \in [1 .. Len(s) -> T]
  BY <1>1
<1> QED
  BY <1>1, <1>2, SeqDef

\* The record the constructor makes is one of the type, and accounts for its
\* verdicts because it holds none.
LEMMA NewLockerAccounted ==
  ASSUME NEW b \in Seq(MsgId) \ {<<>>}, NEW A
  PROVE  NewLocker(b) \in Locker /\ Accounted(NewLocker(b), A)
<1> DEFINE l == NewLocker(b)
<1>1. DOMAIN b # {}
  <2>1. Len(b) \in Nat \ {0} /\ DOMAIN b = 1 .. Len(b)
    BY EmptySeq, LenProperties
  <2> QED
    BY <2>1
<1>2. l.clientStatusMap \in Seq(ClientMsgConsumeStatus) /\ DOMAIN l.clientStatusMap = DOMAIN b
  <2> DEFINE f == [i \in DOMAIN b |-> "MSG_FETCH_FROM_BROKER"]
  <2>1. f \in Seq(ClientMsgConsumeStatus)
    BY MapSeq DEF ClientMsgConsumeStatus
  <2> QED
    BY <2>1 DEF NewLocker
<1>3. l.statusMap \in Seq(ConsumeStatus) /\ DOMAIN l.statusMap = DOMAIN b
  <2> DEFINE f == [i \in DOMAIN b |-> "RECONSUME_LATER"]
  <2>1. f \in Seq(ConsumeStatus)
    BY MapSeq DEF ConsumeStatus
  <2> QED
    BY <2>1 DEF NewLocker
<1>4. l.fetchedArr \in Seq(DOMAIN b) /\ l.fetchedArr \in Seq(Nat)
  <2>1. \A i \in DOMAIN b : i \in Nat
    BY LenProperties
  <2> DEFINE f == [i \in DOMAIN b |-> i]
  <2>2. f \in Seq(DOMAIN b) /\ f \in Seq(Nat)
    BY <2>1, MapSeq
  <2> QED
    BY <2>2 DEF NewLocker
<1>5. l \in Locker
  BY <1>2, <1>3, <1>4 DEF NewLocker, Locker, ClientMsgConsumeStatus, ConsumeStatus
<1>6. Accounted(l, A)
  BY <1>2, <1>3, <1>4 DEF NewLocker, Accounted
<1> QED
  BY <1>5, <1>6

\* So is the record of a thread without a batch.
LEMMA NoLockerAccounted ==
  ASSUME NEW A
  PROVE  NoLocker \in Locker /\ Accounted(NoLocker, A) /\ NoLocker.msgs = <<>>
<1>1. <<>> \in Seq(MsgId) /\ DOMAIN <<>> = {}
  BY EmptySeq
<1>2. [i \in DOMAIN <<>> |-> "MSG_FETCH_FROM_BROKER"] = <<>>
  BY <1>1
<1>3. [i \in DOMAIN <<>> |-> "RECONSUME_LATER"] = <<>> /\ [i \in DOMAIN <<>> |-> i] = <<>>
  BY <1>1
<1>4. \A S : <<>> \in Seq(S)
  BY EmptySeq
<1> QED
  BY <1>1, <1>2, <1>3, <1>4
  DEF NoLocker, NewLocker, Locker, Accounted, ClientMsgConsumeStatus, ConsumeStatus

\* getMsg hands out a message of the batch and keeps the accounts.
LEMMA GetMsgAccounted ==
  ASSUME NEW l \in Locker, NEW A, Accounted(l, A), HasMsg(l)
  PROVE  GetMsg(l) \in Locker /\ Accounted(GetMsg(l), A) /\ NextMsg(l) \in MsgId
<1>1. /\ Head(l.fetchedArr) \in DOMAIN l.msgs
      /\ Tail(l.fetchedArr) \in Seq(DOMAIN l.msgs)
  BY HeadTailProperties DEF Accounted, HasMsg
<1>2. Tail(l.fetchedArr) \in Seq(Nat)
  BY HeadTailProperties DEF Locker, HasMsg
<1>3. GetMsg(l) \in Locker
  BY <1>2 DEF GetMsg, Locker
<1>4. Accounted(GetMsg(l), A)
  BY <1>1 DEF GetMsg, Accounted, Locker, AllAcked
<1>5. NextMsg(l) \in MsgId
  BY <1>1, LenProperties, ElementOfSeq DEF NextMsg, Locker
<1> QED
  BY <1>3, <1>4, <1>5

\* setMsgStatus keeps the accounts, provided a success is a client's.
LEMMA SetMsgStatusAccounted ==
  ASSUME NEW l \in Locker, NEW A, Accounted(l, A), NEW id, NEW s \in ConsumeStatus,
         s = "CONSUME_SUCCESS" /\ Units(l, id) # {} => id \in A
  PROVE  /\ SetMsgStatus(l, id, s) \in Locker
         /\ Accounted(SetMsgStatus(l, id, s), A)
         /\ SetMsgStatus(l, id, s).msgs = l.msgs
<1> DEFINE k == SetMsgStatus(l, id, s)
<1>1. /\ k.statusMap = [i \in DOMAIN l.statusMap |->
                          IF i \in Units(l, id) THEN s ELSE l.statusMap[i]]
      /\ k.clientStatusMap = [i \in DOMAIN l.clientStatusMap |->
                          IF i \in Units(l, id) THEN "MSG_CONSUME_ACK" ELSE l.clientStatusMap[i]]
      /\ k.reconsumeMap = IF s = "RECONSUME_LATER" /\ Units(l, id) # {}
                          THEN l.reconsumeMap \cup {id} ELSE l.reconsumeMap
      /\ k.msgs = l.msgs /\ k.fetchedArr = l.fetchedArr
      /\ k.status = l.status /\ k.clientStatus = l.clientStatus
  BY DEF SetMsgStatus, Locker
<1>2. k.statusMap \in Seq(ConsumeStatus)
  <2> DEFINE f == [i \in DOMAIN l.statusMap |-> IF i \in Units(l, id) THEN s ELSE l.statusMap[i]]
  <2>1. \A i \in DOMAIN l.statusMap :
          (IF i \in Units(l, id) THEN s ELSE l.statusMap[i]) \in ConsumeStatus
    BY LenProperties, ElementOfSeq DEF Locker
  <2>2. l.statusMap \in Seq(ConsumeStatus)
    BY DEF Locker
  <2>3. f \in Seq(ConsumeStatus)
    BY <2>1, <2>2, MapSeq
  <2> QED
    BY <1>1, <2>3
<1>3. k.clientStatusMap \in Seq(ClientMsgConsumeStatus)
  <2> DEFINE f == [i \in DOMAIN l.clientStatusMap |->
                     IF i \in Units(l, id) THEN "MSG_CONSUME_ACK" ELSE l.clientStatusMap[i]]
  <2>1. \A i \in DOMAIN l.clientStatusMap :
          (IF i \in Units(l, id) THEN "MSG_CONSUME_ACK" ELSE l.clientStatusMap[i])
            \in ClientMsgConsumeStatus
    BY LenProperties, ElementOfSeq DEF Locker, ClientMsgConsumeStatus
  <2>2. l.clientStatusMap \in Seq(ClientMsgConsumeStatus)
    BY DEF Locker
  <2>3. f \in Seq(ClientMsgConsumeStatus)
    BY <2>1, <2>2, MapSeq
  <2> QED
    BY <1>1, <2>3
<1>4. k.reconsumeMap \in SUBSET MsgId
  BY <1>1, LenProperties, ElementOfSeq DEF Locker, Units
<1>5. k \in Locker
  <2>1. \A x \in Seq(ConsumeStatus), y \in Seq(ClientMsgConsumeStatus), z \in SUBSET MsgId :
          [l EXCEPT !.statusMap = x, !.clientStatusMap = y, !.reconsumeMap = z] \in Locker
    BY DEF Locker
  <2>2. k = [l EXCEPT !.statusMap = k.statusMap, !.clientStatusMap = k.clientStatusMap,
                      !.reconsumeMap = k.reconsumeMap]
    BY <1>1 DEF SetMsgStatus
  <2> DEFINE x == k.statusMap
             y == k.clientStatusMap
             z == k.reconsumeMap
  <2>3. x \in Seq(ConsumeStatus) /\ y \in Seq(ClientMsgConsumeStatus) /\ z \in SUBSET MsgId
    BY <1>2, <1>3, <1>4
  <2>4. k = [l EXCEPT !.statusMap = x, !.clientStatusMap = y, !.reconsumeMap = z]
    BY <2>2
  <2> HIDE DEF k, x, y, z
  <2>5. [l EXCEPT !.statusMap = x, !.clientStatusMap = y, !.reconsumeMap = z] \in Locker
    BY <2>1, <2>3
  <2> QED
    BY <2>4, <2>5
<1>6. \A i \in DOMAIN k.msgs : k.clientStatusMap[i] = "MSG_CONSUME_ACK" =>
        /\ k.msgs[i] \in A \cup k.reconsumeMap
        /\ k.statusMap[i] = "CONSUME_SUCCESS" => k.msgs[i] \in A
  BY <1>1 DEF Accounted, Units, ConsumeStatus
<1>7. k.clientStatus = "MSG_CONSUME_ACK" =>
        /\ AllAcked(k)
        /\ k.status = "CONSUME_SUCCESS" => \A i \in DOMAIN k.msgs : k.msgs[i] \in A
  BY <1>1 DEF Accounted, AllAcked
<1>8. Accounted(k, A)
  BY <1>1, <1>6, <1>7 DEF Accounted
<1> QED
  BY <1>1, <1>5, <1>8

\* triggerCheck keeps the accounts: it publishes CONSUME_SUCCESS only when every
\* unit has it, forced or not.
LEMMA TriggerCheckAccounted ==
  ASSUME NEW l \in Locker, NEW A, Accounted(l, A), NEW forced \in BOOLEAN
  PROVE  /\ TriggerCheck(l, forced) \in Locker
         /\ Accounted(TriggerCheck(l, forced), A)
         /\ TriggerCheck(l, forced).msgs = l.msgs
<1> DEFINE k == TriggerCheck(l, forced)
<1>1. CASE (forced \/ ~HasMsg(l)) /\ AllAcked(l)
  <2>1. /\ k.status = IF \E i \in DOMAIN l.statusMap : l.statusMap[i] = "RECONSUME_LATER"
                      THEN "RECONSUME_LATER" ELSE "CONSUME_SUCCESS"
        /\ k.clientStatus = "MSG_CONSUME_ACK"
        /\ k.msgs = l.msgs /\ k.clientStatusMap = l.clientStatusMap
        /\ k.statusMap = l.statusMap /\ k.fetchedArr = l.fetchedArr
        /\ k.reconsumeMap = l.reconsumeMap
    BY <1>1 DEF TriggerCheck, Locker
  <2>2. k \in Locker
    BY <1>1 DEF TriggerCheck, Locker, ConsumeStatus, ClientMsgConsumeStatus
  <2>3. \A i \in DOMAIN l.statusMap : l.statusMap[i] \in ConsumeStatus
    BY LenProperties, ElementOfSeq DEF Locker
  <2>4. k.status = "CONSUME_SUCCESS" => \A i \in DOMAIN k.msgs : k.msgs[i] \in A
    BY <1>1, <2>1, <2>3 DEF Accounted, AllAcked, ConsumeStatus
  <2>5. AllAcked(k)
    BY <1>1, <2>1 DEF AllAcked
  <2>6. Accounted(k, A)
    BY <2>1, <2>4, <2>5 DEF Accounted
  <2> QED
    BY <2>1, <2>2, <2>6
<1>2. CASE ~((forced \/ ~HasMsg(l)) /\ AllAcked(l))
  BY <1>2 DEF TriggerCheck
<1> QED
  BY <1>1, <1>2

\* One record of ConsumerUnit::setMsgAck.
LEMMA SetMsgAckAccounted ==
  ASSUME NEW l \in Locker, NEW A, Accounted(l, A), NEW id, NEW s \in ConsumeStatus,
         s = "CONSUME_SUCCESS" /\ Units(l, id) # {} => id \in A
  PROVE  /\ SetMsgAck(l, id, s) \in Locker
         /\ Accounted(SetMsgAck(l, id, s), A)
         /\ SetMsgAck(l, id, s).msgs = l.msgs
<1> DEFINE k == SetMsgStatus(l, id, s)
<1>1. k \in Locker /\ Accounted(k, A) /\ k.msgs = l.msgs
  BY SetMsgStatusAccounted
<1>2. /\ TriggerCheck(k, FALSE) \in Locker
      /\ Accounted(TriggerCheck(k, FALSE), A)
      /\ TriggerCheck(k, FALSE).msgs = k.msgs
  <2> HIDE DEF k
  <2> QED
    BY <1>1, TriggerCheckAccounted
<1> QED
  BY <1>1, <1>2 DEF SetMsgAck

\* The accounts stay right when clients acknowledge more.
LEMMA AccountedMonotonic ==
  ASSUME NEW l, NEW A, NEW B, A \subseteq B, Accounted(l, A)
  PROVE  Accounted(l, B)
  BY DEF Accounted

\* What the callback reports as consumed, once it is released, was acknowledged.
LEMMA SuccessAcked ==
  ASSUME NEW l \in Locker, NEW A, Accounted(l, A), l.clientStatus = "MSG_CONSUME_ACK",
         NEW i \in Returned(l, "CONSUME_SUCCESS")
  PROVE  l.msgs[i] \in A
<1>1. i \in DOMAIN l.msgs /\ Verdict(l, i) = "CONSUME_SUCCESS"
  BY DEF Returned
<1>2. l.clientStatusMap[i] = "MSG_CONSUME_ACK"
  BY <1>1 DEF Accounted, AllAcked
<1>3. CASE l.status = "CONSUME_SUCCESS"
  BY <1>1, <1>3 DEF Accounted
<1>4. CASE l.status = "RECONSUME_LATER"
  BY <1>1, <1>2, <1>4 DEF Accounted, Verdict
<1> QED
  BY <1>3, <1>4 DEF Locker, ConsumeStatus
=============================================================================
