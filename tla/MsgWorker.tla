------------------------------ MODULE MsgWorker ------------------------------
(***************************************************************************)
(* The consume path of the proxy, for one consumer (one topic and group)   *)
(* that stays registered: Consume and ConsumeAck calls, the matcher that   *)
(* pairs waiting calls with messages, and the callback threads of the      *)
(* RocketMQ push consumer that wait for the clients' verdicts.             *)
(*                                                                         *)
(* Three kinds of thread share the state:                                  *)
(*   handler   ServerImpl::HandleRpcs, the only thread of the completion   *)
(*             queue: process, del and cancel of every call;               *)
(*   matcher   MsgWorker::loopMatch;                                       *)
(*   Thread    the consume threads, each blocked in the message callback.  *)
(* MsgWorker::notifyTimeout and the clock are actions without state.       *)
(*                                                                         *)
(* A step ends where another thread can see the difference: at a lock, at  *)
(* a write to a shared unit, at Finish.  ConsumerUnit's critical sections  *)
(* (setMsgAck, getMsg, eraseLock) are single steps here.                   *)
(*                                                                         *)
(* Time is kept as ages, in seconds, that stop at TimeCap: the code only   *)
(* compares time(0) - lastActiveAt with its three limits.                  *)
(***************************************************************************)
EXTENDS ConsumerUnitLocker, FiniteSets

CONSTANTS
  Call,          \* ConsumeCallData objects, one per Consume request
  Ack,           \* ConsumeAckCallData objects that may be alive at a time
  Thread,        \* consume threads of the push consumer
  Batches,       \* the message vectors the push consumer may hand over
  AckStatus,     \* the verdicts clients send
  Stored,        \* how many copies of a message the broker has at first
  NoCall, NoMsg, NoAck,
  WaitTime,      \* MAX_MSG_WAIT_CONSUME_TIME
  AckTime,       \* MAX_MSG_WAIT_CONSUME_ACK_TIME
  InactiveTime,  \* MAX_MSG_CONSUME_MAX_INACTIVE_TIME
  TimeCap        \* bound: ages stop growing here

ASSUME NoneAssumption == NoCall \notin Call /\ NoMsg \notin MsgId /\ NoAck \notin Ack

ASSUME TimeAssumption ==
  /\ WaitTime \in Nat /\ AckTime \in Nat /\ InactiveTime \in Nat /\ TimeCap \in Nat
  /\ AckTime <= InactiveTime
  /\ WaitTime <= TimeCap /\ InactiveTime <= TimeCap

ASSUME BatchAssumption ==
  /\ Batches \subseteq Seq(MsgId) \ {<<>>}
  /\ Stored \in [MsgId -> Nat]

ASSUME AckStatusAssumption == AckStatus \subseteq ConsumeStatus

VARIABLES
  broker,       \* copies of each message the broker may still hand over
  consumed,     \* messages the push consumer was told are consumed
  lockers,      \* ConsumerUnit::lockers, by the thread that waits on each
  pool,         \* consumeMsgPool, a queue of ConsumeMsgUnits (named by call)
  unit,         \* the ConsumeMsgUnit of each call: status, msgId, age
  idUnitMap,    \* the ConsumeMsgUnit registered for each message id
  call,         \* life cycle of each ConsumeCallData and of its reply
  ack,          \* the message id each ConsumeAckCallData is about
  matcher,      \* loopMatch: program counter, unit and message in hand
  handler,      \* HandleRpcs: program counter and object in hand
  idle,         \* time(0) - ConsumerUnit::lastActiveAt
  received,     \* history: message ids some client was given
  acked         \* history: ids whose success ack was answered "msg ack succ!"

brokerVars  == <<broker, consumed>>
unitVars    == <<pool, unit, idUnitMap>>
rpcVars     == <<call, ack, handler>>
historyVars == <<received, acked>>
vars == <<brokerVars, lockers, unitVars, rpcVars, matcher, idle, historyVars>>

UnitStatus == {"PROXY_CONSUME_INIT", "CLIENT_RECEIVE", "CONSUME_ACK"}

(* NEW: no request yet.  PROCESS: the request waits for a reply.  SENT and  *)
(* BROKEN: Finish was called and its completion event, ok or not ok, is in  *)
(* the completion queue.  DELETED: delete this.                             *)
CallStatus == {"NEW", "PROCESS", "SENT", "BROKEN", "DELETED"}

MatcherPC == {"pop", "match", "register", "respond", "reset", "reconsume",
              "sleep", "wait"}

HandlerPC == {"next", "notify", "ack", "erase"}

TypeOK ==
  /\ broker \in [MsgId -> Nat]
  /\ consumed \subseteq MsgId
  /\ lockers \in [Thread -> Locker]
  /\ pool \in Seq(Call)
  /\ unit \in [Call -> [status : UnitStatus, msgId : MsgId \cup {NoMsg}, age : 0..TimeCap]]
  /\ idUnitMap \in [MsgId -> Call \cup {NoCall}]
  /\ call \in [Call -> CallStatus]
  /\ ack \in [Ack -> MsgId \cup {NoMsg}]
  /\ matcher \in [pc : MatcherPC, unit : Call \cup {NoCall}, msg : MsgId \cup {NoMsg}]
  /\ handler \in [pc : HandlerPC, call : Call \cup {NoCall}, ack : Ack \cup {NoAck}]
  /\ idle \in 0..TimeCap
  /\ received \subseteq MsgId
  /\ acked \subseteq MsgId

-----------------------------------------------------------------------------
NewUnit == [status |-> "PROXY_CONSUME_INIT", msgId |-> NoMsg, age |-> 0]

\* getIsFetchMsgTimeout, getIsAckTimeout and getIsTooInactive.  lastActiveAt of
\* a unit is set when the request arrives and never again.
IsFetchMsgTimeout(u) == u.status = "PROXY_CONSUME_INIT" /\ u.age >= WaitTime
IsAckTimeout(u)      == u.status = "CLIENT_RECEIVE" /\ u.age >= AckTime
IsTooInactive        == idle >= InactiveTime

Holding(t) == lockers[t].msgs # <<>>

MatcherAt(pc) == [pc |-> pc, unit |-> NoCall, msg |-> NoMsg]
HandlerIdle   == [pc |-> "next", call |-> NoCall, ack |-> NoAck]

\* ConsumerUnit::setMsgAck over every locker; it answers whether one had id.
SetMsgAckAll(id, s) ==
  lockers' = [t \in Thread |-> IF Holding(t) THEN SetMsgAck(lockers[t], id, s)
                               ELSE lockers[t]]
Known(id) == \E t \in Thread : Units(lockers[t], id) # {}

Init ==
  /\ broker = Stored
  /\ consumed = {}
  /\ lockers = [t \in Thread |-> NoLocker]
  /\ pool = <<>>
  /\ unit = [c \in Call |-> NewUnit]
  /\ idUnitMap = [m \in MsgId |-> NoCall]
  /\ call = [c \in Call |-> "NEW"]
  /\ ack = [a \in Ack |-> NoMsg]
  /\ matcher = MatcherAt("pop")
  /\ handler = HandlerIdle
  /\ idle = 0
  /\ received = {}
  /\ acked = {}

-----------------------------------------------------------------------------
(* Callback threads: the lambda of MsgWorker::getConsumer.                  *)

Count(b, m) == Cardinality({i \in DOMAIN b : b[i] = m})

\* The push consumer hands a batch to a free thread, which registers a locker
\* and waits (waitLock).
ConsumeMessage(t, b) ==
  /\ ~Holding(t)
  /\ \A m \in MsgId : Count(b, m) <= broker[m]
  /\ broker' = [m \in MsgId |-> broker[m] - Count(b, m)]
  /\ lockers' = [lockers EXCEPT ![t] = NewLocker(b)]
  /\ UNCHANGED <<consumed, unitVars, rpcVars, matcher, idle, historyVars>>

\* The wait is over: eraseLock, then the verdicts.  The push consumer forgets
\* what is consumed and sends the rest back to the broker.
ReturnStatus(t) ==
  LET l == lockers[t]
      back == Returned(l, "RECONSUME_LATER")
  IN /\ Holding(t)
     /\ l.clientStatus = "MSG_CONSUME_ACK"
     /\ lockers' = [lockers EXCEPT ![t] = NoLocker]
     /\ broker' = [m \in MsgId |-> IF \E i \in back : l.msgs[i] = m
                                   THEN broker[m] + Count(l.msgs, m) ELSE broker[m]]
     /\ consumed' = consumed \cup {l.msgs[i] : i \in Returned(l, "CONSUME_SUCCESS")}
     /\ UNCHANGED <<unitVars, rpcVars, matcher, idle, historyVars>>

-----------------------------------------------------------------------------
(* MsgWorker::loopMatch.  Its queue tmp never outlives the iteration that  *)
(* fills it, so pushing a unit to tmp is pushing it back to the pool.      *)

\* Mutant: the pointer was moved from before it was pushed.
RequeueMoved(c) == pool' = Append(pool, NoCall)
Requeue(c) == pool' = Append(pool, c)

TryPop ==
  /\ matcher.pc = "pop" /\ pool # <<>>
  /\ matcher' = [MatcherAt("match") EXCEPT !.unit = Head(pool)]
  /\ pool' = Tail(pool)
  /\ UNCHANGED <<brokerVars, lockers, unit, idUnitMap, rpcVars, idle, historyVars>>

\* The pool was empty: the wait on notifyCV begins a step later, so that a
\* notify_all in between is lost.
PoolEmpty ==
  /\ matcher.pc = "pop" /\ pool = <<>>
  /\ matcher' = MatcherAt("sleep")
  /\ UNCHANGED <<brokerVars, lockers, unitVars, rpcVars, idle, historyVars>>

WaitNotify ==
  /\ matcher.pc = "sleep"
  /\ matcher' = MatcherAt("wait")
  /\ UNCHANGED <<brokerVars, lockers, unitVars, rpcVars, idle, historyVars>>

Matching(c, status) == matcher.pc = "match" /\ matcher.unit = c /\ unit[c].status = status

\* fetchAndConsume: the first locker, in the order of the pointers, that has a
\* message not handed out yet.
Fetch(c, t) ==
  /\ Matching(c, "PROXY_CONSUME_INIT")
  /\ HasMsg(lockers[t])
  /\ lockers' = [lockers EXCEPT ![t] = GetMsg(@)]
  /\ matcher' = [matcher EXCEPT !.pc = "register", !.msg = NextMsg(lockers[t])]
  /\ UNCHANGED <<brokerVars, unitVars, rpcVars, idle, historyVars>>

\* The callback of fetchAndConsume, up to idUnitMap.insert_or_update.
Register(c) ==
  /\ matcher.pc = "register" /\ matcher.unit = c
  /\ unit' = [unit EXCEPT ![c].status = "CLIENT_RECEIVE", ![c].msgId = matcher.msg]
  /\ idUnitMap' = [idUnitMap EXCEPT ![matcher.msg] = c]
  /\ matcher' = [matcher EXCEPT !.pc = "respond"]
  /\ UNCHANGED <<brokerVars, lockers, pool, rpcVars, idle, historyVars>>

\* ConsumeCallData::responseMsg.  The reply reaches the client (SENT) or does
\* not (BROKEN); the completion event of Finish tells the handler which.
ResponseMsg(c) ==
  /\ matcher.pc = "respond" /\ matcher.unit = c
  /\ \/ /\ call' = [call EXCEPT ![c] = "SENT"]
        /\ received' = received \cup {matcher.msg}
     \/ /\ call' = [call EXCEPT ![c] = "BROKEN"]
        /\ UNCHANGED received
  /\ matcher' = [matcher EXCEPT !.pc = "reset"]
  /\ UNCHANGED <<brokerVars, lockers, unitVars, ack, handler, idle, acked>>

\* Mutant: no resetConsumerActive after a delivery.
WatchAckNoReset(c) ==
  /\ matcher.pc = "reset" /\ matcher.unit = c
  /\ Requeue(c)
  /\ matcher' = MatcherAt("pop")
  /\ UNCHANGED <<brokerVars, lockers, unit, idUnitMap, idle, rpcVars, historyVars>>

\* resetConsumerActive after the reply, then the unit goes back to the pool to
\* have its ack watched.
WatchAck(c) ==
  /\ matcher.pc = "reset" /\ matcher.unit = c
  /\ idle' = 0
  /\ Requeue(c)
  /\ matcher' = MatcherAt("pop")
  /\ UNCHANGED <<brokerVars, lockers, unit, idUnitMap, rpcVars, historyVars>>

\* No locker has a message: answer "get msg timeout", or try again later.
NothingFetched(c) ==
  Matching(c, "PROXY_CONSUME_INIT") /\ \A t \in Thread : ~HasMsg(lockers[t])

\* Mutant: no "continue" after the timeout reply.
ResponseTimeOutRequeued(c) ==
  /\ NothingFetched(c) /\ IsFetchMsgTimeout(unit[c])
  /\ idle' = 0
  /\ \E s \in {"SENT", "BROKEN"} : call' = [call EXCEPT ![c] = s]
  /\ Requeue(c)
  /\ matcher' = MatcherAt("pop")
  /\ UNCHANGED <<brokerVars, lockers, unit, idUnitMap, ack, handler, historyVars>>

ResponseTimeOut(c) ==
  /\ NothingFetched(c) /\ IsFetchMsgTimeout(unit[c])
  /\ idle' = 0
  /\ \E s \in {"SENT", "BROKEN"} : call' = [call EXCEPT ![c] = s]
  /\ matcher' = MatcherAt("pop")
  /\ UNCHANGED <<brokerVars, lockers, unitVars, ack, handler, historyVars>>

\* Mutant: a request that found no message is not pushed to tmp.
FetchAgainDropped(c) ==
  /\ NothingFetched(c) /\ ~IsFetchMsgTimeout(unit[c])
  /\ matcher' = MatcherAt("pop")
  /\ UNCHANGED <<brokerVars, lockers, unitVars, rpcVars, idle, historyVars>>

FetchAgain(c) ==
  /\ NothingFetched(c) /\ ~IsFetchMsgTimeout(unit[c])
  /\ Requeue(c)
  /\ matcher' = MatcherAt("pop")
  /\ UNCHANGED <<brokerVars, lockers, unit, idUnitMap, rpcVars, idle, historyVars>>

\* Mutant: a delivered unit is not pushed to tmp.
AckAgainDropped(c) ==
  /\ Matching(c, "CLIENT_RECEIVE") /\ ~IsAckTimeout(unit[c])
  /\ matcher' = MatcherAt("pop")
  /\ UNCHANGED <<brokerVars, lockers, unitVars, rpcVars, idle, historyVars>>

\* Mutant: the unit is dropped without setMsgReconsume.
AckTimeoutDropped(c) ==
  /\ Matching(c, "CLIENT_RECEIVE") /\ IsAckTimeout(unit[c])
  /\ matcher' = MatcherAt("pop")
  /\ UNCHANGED <<brokerVars, lockers, unitVars, rpcVars, idle, historyVars>>

\* A delivered unit: still inside its ack time, or past it.  Between the test
\* and setMsgReconsume the handler may accept an ack for the same message.
AckAgain(c) ==
  /\ Matching(c, "CLIENT_RECEIVE") /\ ~IsAckTimeout(unit[c])
  /\ Requeue(c)
  /\ matcher' = MatcherAt("pop")
  /\ UNCHANGED <<brokerVars, lockers, unit, idUnitMap, rpcVars, idle, historyVars>>

AckTimeout(c) ==
  /\ Matching(c, "CLIENT_RECEIVE") /\ IsAckTimeout(unit[c])
  /\ matcher' = [matcher EXCEPT !.pc = "reconsume"]
  /\ UNCHANGED <<brokerVars, lockers, unitVars, rpcVars, idle, historyVars>>

SetMsgReconsume(c) ==
  /\ matcher.pc = "reconsume" /\ matcher.unit = c
  /\ SetMsgAckAll(unit[c].msgId, "RECONSUME_LATER")
  /\ matcher' = MatcherAt("pop")
  /\ UNCHANGED <<brokerVars, unitVars, rpcVars, idle, historyVars>>

\* An acknowledged unit leaves the pool.
DropAcked(c) ==
  /\ Matching(c, "CONSUME_ACK")
  /\ matcher' = MatcherAt("pop")
  /\ UNCHANGED <<brokerVars, lockers, unitVars, rpcVars, idle, historyVars>>

\* notifyTimeout: notify_all every 100 ms, which matters to a waiting matcher.
NotifyTimeout ==
  /\ matcher.pc = "wait"
  /\ matcher' = MatcherAt("pop")
  /\ UNCHANGED <<brokerVars, lockers, unitVars, rpcVars, idle, historyVars>>

LoopMatch ==
  \/ TryPop \/ PoolEmpty \/ WaitNotify
  \/ \E c \in Call :
       \/ \E t \in Thread : Fetch(c, t)
       \/ Register(c) \/ ResponseMsg(c) \/ WatchAck(c)
       \/ ResponseTimeOut(c) \/ FetchAgain(c)
       \/ AckAgain(c) \/ AckTimeout(c) \/ SetMsgReconsume(c) \/ DropAcked(c)

-----------------------------------------------------------------------------
(* ServerImpl::HandleRpcs: one event of the completion queue at a time.     *)

\* ConsumeCallData::process.
ConsumeProcess(c) ==
  /\ handler.pc = "next" /\ call[c] = "NEW"
  /\ call' = [call EXCEPT ![c] = "PROCESS"]
  /\ unit' = [unit EXCEPT ![c] = NewUnit]
  /\ pool' = Append(pool, c)
  /\ handler' = [handler EXCEPT !.pc = "notify", !.call = c]
  /\ UNCHANGED <<brokerVars, lockers, idUnitMap, ack, matcher, idle, historyVars>>

ConsumeNotify ==
  /\ handler.pc = "notify"
  /\ matcher' = IF matcher.pc = "wait" THEN MatcherAt("pop") ELSE matcher
  /\ handler' = HandlerIdle
  /\ UNCHANGED <<brokerVars, lockers, unitVars, call, ack, idle, historyVars>>

\* ConsumeCallData::del, after a Finish that went well.
ConsumeDel(c) ==
  /\ handler.pc = "next" /\ call[c] = "SENT"
  /\ call' = [call EXCEPT ![c] = "DELETED"]
  /\ UNCHANGED <<brokerVars, lockers, unitVars, ack, handler, matcher, idle, historyVars>>

\* ConsumeCallData::cancel, after a Finish that did not: a message that was in
\* the reply is to be consumed again.
ConsumeCancel(c) ==
  /\ handler.pc = "next" /\ call[c] = "BROKEN"
  /\ IF unit[c].msgId = NoMsg
     THEN /\ call' = [call EXCEPT ![c] = "DELETED"]
          /\ UNCHANGED <<lockers, handler>>
     ELSE /\ SetMsgAckAll(unit[c].msgId, "RECONSUME_LATER")
          /\ handler' = [handler EXCEPT !.pc = "erase", !.call = c]
          /\ UNCHANGED call
  /\ UNCHANGED <<brokerVars, unitVars, ack, matcher, idle, historyVars>>

CancelErase(c) ==
  /\ handler.pc = "erase" /\ handler.call = c
  /\ idUnitMap' = [idUnitMap EXCEPT ![unit[c].msgId] = NoCall]
  /\ call' = [call EXCEPT ![c] = "DELETED"]
  /\ handler' = HandlerIdle
  /\ UNCHANGED <<brokerVars, lockers, pool, unit, ack, matcher, idle, historyVars>>

\* ConsumeAckCallData::process, up to setMsgAck: a client acknowledges an id it
\* was given, as often and as late as it likes.
AckProcess(a, m, s) ==
  /\ handler.pc = "next" /\ ack[a] = NoMsg
  /\ m \in received
  /\ ack' = [ack EXCEPT ![a] = m]
  /\ idle' = 0
  /\ SetMsgAckAll(m, s)
  /\ handler' = IF Known(m) THEN [handler EXCEPT !.pc = "ack", !.ack = a] ELSE handler
  /\ acked' = IF Known(m) /\ s = "CONSUME_SUCCESS" THEN acked \cup {m} ELSE acked
  /\ UNCHANGED <<brokerVars, unitVars, call, matcher, received>>

\* The rest of it: the unit registered for the id is acknowledged, and the
\* client is answered.
AckReply(a) ==
  /\ handler.pc = "ack" /\ handler.ack = a
  /\ LET c == idUnitMap[ack[a]]
     IN unit' = IF c # NoCall THEN [unit EXCEPT ![c].status = "CONSUME_ACK"] ELSE unit
  /\ handler' = HandlerIdle
  /\ UNCHANGED <<brokerVars, lockers, pool, idUnitMap, call, ack, matcher, idle, historyVars>>

\* ConsumeAckCallData::del, which cancel calls as well.
AckDel(a) ==
  /\ handler.pc = "next" /\ ack[a] # NoMsg
  /\ idUnitMap' = [idUnitMap EXCEPT ![ack[a]] = NoCall]
  /\ ack' = [ack EXCEPT ![a] = NoMsg]
  /\ UNCHANGED <<brokerVars, lockers, pool, unit, call, handler, matcher, idle, historyVars>>

HandlerStep ==
  \/ ConsumeNotify
  \/ \E c \in Call : CancelErase(c)
  \/ \E a \in Ack : AckReply(a)

HandleRpcs ==
  \/ HandlerStep
  \/ \E c \in Call : ConsumeProcess(c) \/ ConsumeDel(c) \/ ConsumeCancel(c)
  \/ \E a \in Ack : AckDel(a) \/ \E m \in MsgId, s \in AckStatus : AckProcess(a, m, s)

-----------------------------------------------------------------------------
\* time(0) goes on by a second.
Older(n) == IF n < TimeCap THEN n + 1 ELSE n

Tick ==
  /\ unit' = [c \in Call |-> IF call[c] = "NEW" THEN unit[c]
                             ELSE [unit[c] EXCEPT !.age = Older(@)]]
  /\ idle' = Older(idle)
  /\ UNCHANGED <<brokerVars, lockers, pool, idUnitMap, rpcVars, matcher, historyVars>>

Next ==
  \/ LoopMatch \/ HandleRpcs \/ NotifyTimeout \/ Tick
  \/ \E t \in Thread : ReturnStatus(t) \/ \E b \in Batches : ConsumeMessage(t, b)

Fairness ==
  /\ WF_vars(LoopMatch) /\ WF_vars(HandlerStep)
  /\ WF_vars(NotifyTimeout) /\ WF_vars(Tick)
  /\ \A t \in Thread : WF_vars(ReturnStatus(t))

Spec == Init /\ [][Next]_vars

FairSpec == Spec /\ Fairness

-----------------------------------------------------------------------------
\* A message the push consumer was told is consumed (and therefore forgets) is
\* a message some client acknowledged with success and was told so: neither a
\* timeout, nor a reply that did not get through, nor the message's neighbours
\* in the batch can make the callback report it as consumed.
NoSilentLoss == consumed \subseteq acked

\* Why: the records account for every verdict they hold, see Accounted, and the
\* matcher answers with a message it took from one of them.
BatchesAccounted ==
  /\ \A t \in Thread : Accounted(lockers[t], acked)
  /\ matcher.pc \in {"register", "respond"} => matcher.msg \in MsgId

\* Finish is called once per request, by the matcher, on a call object that the
\* completion queue's thread has not deleted, and the object is deleted once,
\* after its Finish.  The matcher holds a raw pointer to the object.
AnsweredOnce ==
  [][\A c \in Call : call'[c] # call[c] =>
       <<call[c], call'[c]>> \in
         {<<"NEW", "PROCESS">>, <<"PROCESS", "SENT">>, <<"PROCESS", "BROKEN">>,
          <<"SENT", "DELETED">>, <<"BROKEN", "DELETED">>}]_vars

\* Units the matcher will look at again: those of the pool and the one in hand.
Pooled(c)  == \E i \in DOMAIN pool : pool[i] = c
Watched(c) == Pooled(c) \/ matcher.unit = c

\* Between idUnitMap.insert_or_update and resetConsumerActive, with Finish in
\* between: the matcher is giving the message of unit c to its client.
Delivering(c) == matcher.unit = c /\ matcher.pc \in {"respond", "reset"}

\* shutdownConsumer tests getIsTooInactive only, not whether clients still have
\* time to acknowledge.  When its test holds, every client that was given a
\* message is past that time, but for one at most: the client the matcher is
\* just giving a message to, before resetConsumerActive.  That one may be cut
\* short; resetting the idle time on delivery is what saves all the others.
CutShortOnlyInDelivery ==
  IsTooInactive =>
    \A c \in Call : unit[c].status = "CLIENT_RECEIVE" /\ ~Delivering(c)
                     => IsAckTimeout(unit[c])

\* A message of batch l that was handed out and has no verdict yet.
Unsettled(l, i) ==
  /\ i \in DOMAIN l.msgs
  /\ \A k \in DOMAIN l.fetchedArr : l.fetchedArr[k] # i
  /\ l.clientStatusMap[i] = "MSG_FETCH_FROM_BROKER"

\* A message that was handed out and has no verdict yet is watched: the matcher
\* is about to register its unit, or a unit for it waits for its ack timeout.
\* Nothing else would ever release the callback thread if the client is gone.
WatchedUntilAcked ==
  \A t \in Thread : \A i \in DOMAIN lockers[t].msgs :
    Unsettled(lockers[t], i) =>
      \/ matcher.pc = "register" /\ matcher.msg = lockers[t].msgs[i]
      \/ \E c \in Call : /\ Watched(c)
                          /\ unit[c].status = "CLIENT_RECEIVE"
                          /\ unit[c].msgId = lockers[t].msgs[i]

\* A message a client acknowledged with success ("msg ack succ!") is cleared
\* from the broker's memory, not put back to be delivered again.
AckedNotRedelivered == \A m \in acked : broker[m] = 0

\* Every Consume request is answered, with a message or with a timeout, though
\* notifications may be lost and the matcher serves all requests in turn.
EveryRequestAnswered ==
  \A c \in Call : call[c] = "PROCESS" ~> call[c] # "PROCESS"

\* A callback thread whose batch was handed out completely is released, whether
\* the clients got the messages or not.
BatchReleased ==
  \A t \in Thread :
    (Holding(t) /\ ~HasMsg(lockers[t])) ~> ~Holding(t)

\* The consume path implements at-least-once delivery.
Delivery == INSTANCE AtLeastOnce WITH held <- [t \in Thread |-> lockers[t].msgs]
ImplementsAtLeastOnce == Delivery!Spec

\* As long as no client acknowledged a message, each of its copies is at the
\* broker or in a batch a callback thread waits on.
CopiesConserved == Delivery!Conserved
=============================================================================
