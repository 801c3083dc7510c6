------------------------- MODULE ConsumerUnitLocker -------------------------
(***************************************************************************)
(* ConsumerUnitLocker (MsgWorker.h, MsgWorker.cpp): the record one         *)
(* callback thread of the RocketMQ push consumer leaves in the proxy while *)
(* it is blocked on a batch of messages.  The operators below are its      *)
(* methods, as functions from the record before the call to the record     *)
(* after it.                                                               *)
(*                                                                         *)
(* The code allocates a MsgUnit per message of the batch and keys its maps *)
(* by the pointer; here a MsgUnit is its position in the batch, so that    *)
(* clientStatusMap and statusMap are functions on DOMAIN msgs, fetchedArr  *)
(* is a queue of positions and idMsgMap[id] is the set Units(l, id).       *)
(*                                                                         *)
(* The ack request carries the status as an int32 that is cast to          *)
(* ConsumeStatus; the code only ever compares it with RECONSUME_LATER, so  *)
(* CONSUME_SUCCESS stands for every other value.                           *)
(***************************************************************************)
EXTENDS Naturals, Sequences

CONSTANT MsgId     \* message ids, as MQMessageExt::getMsgId() returns them

ClientMsgConsumeStatus == {"MSG_FETCH_FROM_BROKER", "MSG_CONSUME_ACK"}

ConsumeStatus == {"CONSUME_SUCCESS", "RECONSUME_LATER"}

Locker ==
  [ msgs            : Seq(MsgId),                 \* the batch of the callback
    clientStatusMap : Seq(ClientMsgConsumeStatus),
    statusMap       : Seq(ConsumeStatus),
    fetchedArr      : Seq(Nat),                   \* not handed out yet
    reconsumeMap    : SUBSET MsgId,               \* ever set RECONSUME_LATER
    status          : ConsumeStatus,              \* what the callback returns
    clientStatus    : ClientMsgConsumeStatus ]    \* what the callback waits for

-----------------------------------------------------------------------------
\* The constructor: every message fetched from the broker, none handed out.
NewLocker(msgs) ==
  [ msgs            |-> msgs,
    clientStatusMap |-> [i \in DOMAIN msgs |-> "MSG_FETCH_FROM_BROKER"],
    statusMap       |-> [i \in DOMAIN msgs |-> "RECONSUME_LATER"],
    fetchedArr      |-> [i \in DOMAIN msgs |-> i],
    reconsumeMap    |-> {},
    status          |-> "RECONSUME_LATER",
    clientStatus    |-> "MSG_FETCH_FROM_BROKER" ]

\* A callback thread that holds no batch has no locker in ConsumerUnit::lockers.
NoLocker == NewLocker(<<>>)

\* idMsgMap[id]: the message units of the batch with that id.
Units(l, id) == {i \in DOMAIN l.msgs : l.msgs[i] = id}

\* getMsg: the unit at the front of fetchedArr, and the record without it.
HasMsg(l)  == l.fetchedArr # <<>>
NextMsg(l) == l.msgs[Head(l.fetchedArr)]
GetMsg(l)  == [l EXCEPT !.fetchedArr = Tail(@)]

\* Mutant: setMsgStatus does not keep reconsumeMap.
SetMsgStatusNoMap(l, id, s) ==
  [l EXCEPT
     !.statusMap       = [i \in DOMAIN l.statusMap |->
                            IF i \in Units(l, id) THEN s ELSE @[i]],
     !.clientStatusMap = [i \in DOMAIN l.clientStatusMap |->
                            IF i \in Units(l, id) THEN "MSG_CONSUME_ACK" ELSE @[i]]]

\* setMsgStatus with cs = MSG_CONSUME_ACK, the only value it is called with.
\* It does not look at fetchedArr: a unit nobody was given yet is set as well.
SetMsgStatus(l, id, s) ==
  [l EXCEPT
     !.statusMap       = [i \in DOMAIN l.statusMap |->
                            IF i \in Units(l, id) THEN s ELSE @[i]],
     !.clientStatusMap = [i \in DOMAIN l.clientStatusMap |->
                            IF i \in Units(l, id) THEN "MSG_CONSUME_ACK" ELSE @[i]],
     !.reconsumeMap    = IF s = "RECONSUME_LATER" /\ Units(l, id) # {}
                         THEN @ \cup {id} ELSE @]

AllAcked(l) == \A i \in DOMAIN l.clientStatusMap :
                  l.clientStatusMap[i] = "MSG_CONSUME_ACK"

\* Mutant: no break at a unit that is not acknowledged.
TriggerCheckNoBreak(l, forced) ==
  IF forced \/ ~HasMsg(l)
  THEN [l EXCEPT !.status = IF \E i \in DOMAIN l.statusMap :
                                  l.statusMap[i] = "RECONSUME_LATER"
                            THEN "RECONSUME_LATER" ELSE "CONSUME_SUCCESS",
                 !.clientStatus = "MSG_CONSUME_ACK"]
  ELSE l

\* triggerCheck: once every unit is acknowledged, publish the verdict on the
\* batch and release the callback.  The early return looks at fetchedArr.
TriggerCheck(l, forced) ==
  IF (forced \/ ~HasMsg(l)) /\ AllAcked(l)
  THEN [l EXCEPT !.status = IF \E i \in DOMAIN l.statusMap :
                                  l.statusMap[i] = "RECONSUME_LATER"
                            THEN "RECONSUME_LATER" ELSE "CONSUME_SUCCESS",
                 !.clientStatus = "MSG_CONSUME_ACK"]
  ELSE l

\* One iteration of ConsumerUnit::setMsgAck over the lockers.
SetMsgAck(l, id, s) == TriggerCheck(SetMsgStatus(l, id, s), FALSE)

\* One iteration of ConsumerUnit::unlockAll over the lockers.
Unlock(l) ==
  TriggerCheck(
    [l EXCEPT
       !.statusMap       = [i \in DOMAIN l.statusMap |->
                              IF l.clientStatusMap[i] # "MSG_CONSUME_ACK"
                              THEN "RECONSUME_LATER" ELSE @[i]],
       !.clientStatusMap = [i \in DOMAIN l.clientStatusMap |-> "MSG_CONSUME_ACK"]],
    TRUE)

\* The per-message verdict the callback hands back to the RocketMQ client:
\* statusVector when the batch as a whole is to be consumed again, and the
\* status of the whole batch otherwise.
Verdict(l, i) ==
  IF l.status = "RECONSUME_LATER" /\ l.msgs[i] \in l.reconsumeMap
  THEN "RECONSUME_LATER" ELSE "CONSUME_SUCCESS"

Returned(l, s) == {i \in DOMAIN l.msgs : Verdict(l, i) = s}

-----------------------------------------------------------------------------
\* Which verdicts the record may hold when A is the set of messages clients have
\* acknowledged with success: a unit is acknowledged because it is in A or is to
\* be consumed again, its status is CONSUME_SUCCESS only if it is in A, and the
\* verdict on the batch is published after all of its units' and agrees with
\* them.  What is still to be handed out are units of the batch.
Accounted(l, A) ==
  /\ DOMAIN l.clientStatusMap = DOMAIN l.msgs
  /\ DOMAIN l.statusMap = DOMAIN l.msgs
  /\ l.fetchedArr \in Seq(DOMAIN l.msgs)
  /\ \A i \in DOMAIN l.msgs : l.clientStatusMap[i] = "MSG_CONSUME_ACK" =>
       /\ l.msgs[i] \in A \cup l.reconsumeMap
       /\ l.statusMap[i] = "CONSUME_SUCCESS" => l.msgs[i] \in A
  /\ l.clientStatus = "MSG_CONSUME_ACK" =>
       /\ AllAcked(l)
       /\ l.status = "CONSUME_SUCCESS" => \A i \in DOMAIN l.msgs : l.msgs[i] \in A
=============================================================================
