-------------------------- MODULE ShutdownConsumer --------------------------
(***************************************************************************)
(* The life of a ConsumerUnit, and of the requests that need one: the       *)
(* matcher and the handler find or create it in MsgWorker::getConsumer and *)
(* then use it, its callback thread waits in waitLock on a batch, and      *)
(* MsgWorker::shutdownConsumer stops it when it is inactive, which needs   *)
(* the callback to return; MsgWorker::clearMsgForConsumer is told through  *)
(* clearConsumerKey to release it (unlockAll).                             *)
(*                                                                         *)
(* ConsumerUnit::waitLock is split where its mutexes are: the locker's     *)
(* mutex is held from the insertion to the wait, but triggerCheck does not *)
(* take it, so that its notify_all can fall between the predicate and the  *)
(* wait.  The matcher's and the handler's use of a unit, MsgWorker.tla's   *)
(* and ConsumerUnit.tla's subject, is one step here, on the unit that      *)
(* getConsumer returned, which may have been shut down since.              *)
(*                                                                         *)
(* Each consumer has one callback thread here; a batch has one message; a  *)
(* key has one Consume call at a time.                                     *)
(***************************************************************************)
EXTENDS ConsumerUnitLocker

CONSTANTS
  Key,       \* topic + group
  Unit,      \* ConsumerUnit objects, created when needed (bound)
  HandlerJob, \* what the handler uses units for
  Consuming, \* keys that clients send Consume for
  Matcher,   \* the two threads that call getConsumer: loopMatch
  Handler,   \* and HandleRpcs
  NoKey,     \* clearConsumerKey = ""
  NoUnit, NoMsg

ASSUME NoneAssumption ==
  NoKey \notin Key /\ NoUnit \notin Unit /\ NoMsg \notin MsgId /\ Matcher # Handler

VARIABLES
  consumers,          \* MapTS: the unit registered for each key
  state,              \* the DefaultMQPushConsumer of each unit
  inactive,           \* ConsumerUnit::getIsTooInactive
  locker,             \* the batch in each unit's lockers, NoLocker for none
  waiter,             \* where each unit's callback thread is in waitLock
  getter,             \* getConsumer and what it is called for, by thread
  request,            \* the ConsumeMsgUnit of each key's Consume call
  clearConsumerKey,
  shutter,            \* shutdownConsumer: program counter, keys left, key, unit
  clearer             \* clearMsgForConsumer: program counter, key, unit

unitVars == <<state, inactive, locker, waiter>>
vars == <<consumers, unitVars, getter, request, clearConsumerKey, shutter, clearer>>

(* NEW: not created.  STARTED: callbacks come.  STOPPING: shutdown() waits  *)
(* for the callback thread and starts no callback.                          *)
UnitState == {"NEW", "STARTED", "STOPPING", "STOPPED"}

WaiterPC  == {"none", "predicate", "wait", "blocked", "return"}
GetterPC  == {"idle", "start", "insert", "use", "nullptr"}
Getter    == {Matcher, Handler}

(* What the handler uses a unit for; the matcher does what the request's    *)
(* state asks for.                                                          *)
Job == {"none", "match", "cancel"} \cup ConsumeStatus

ASSUME JobAssumption ==
  HandlerJob \subseteq {"cancel"} \cup ConsumeStatus /\ Consuming \subseteq Key

(* pool, expired: PROXY_CONSUME_INIT, before and after its timeout.         *)
(* received, late: CLIENT_RECEIVE, likewise.  ack: CONSUME_ACK.             *)
RequestPC == {"none", "pool", "expired", "received", "late", "ack"}
ShutterPC == {"sleep", "visit", "notify", "shutdown", "join", "erase"}
ClearerPC == {"read", "try_get", "unlock", "clear"}

TypeOK ==
  /\ consumers \in [Key -> Unit \cup {NoUnit}]
  /\ state \in [Unit -> UnitState]
  /\ inactive \in [Unit -> BOOLEAN]
  /\ locker \in [Unit -> Locker]
  /\ waiter \in [Unit -> WaiterPC]
  /\ getter \in [Getter -> [pc : GetterPC, key : Key \cup {NoKey},
                            unit : Unit \cup {NoUnit}, job : Job,
                            msg : MsgId \cup {NoMsg}]]
  /\ \A p \in Getter : getter[p].pc = "use" => getter[p].unit # NoUnit
  /\ request \in [Key -> [pc : RequestPC, msg : MsgId \cup {NoMsg}]]
  /\ clearConsumerKey \in Key \cup {NoKey}
  /\ shutter \in [pc : ShutterPC, keys : SUBSET Key, seen : SUBSET Key,
                  key : Key \cup {NoKey}, unit : Unit \cup {NoUnit}]
  /\ clearer \in [pc : ClearerPC, key : Key \cup {NoKey}, unit : Unit \cup {NoUnit}]
  /\ clearer.pc \in {"unlock", "clear"} => clearer.unit # NoUnit

Registered(k) == consumers[k] # NoUnit

IdleGetter ==
  [pc |-> "idle", key |-> NoKey, unit |-> NoUnit, job |-> "none", msg |-> NoMsg]
NoRequest  == [pc |-> "none", msg |-> NoMsg]

\* resetConsumerActive: of the unit that is registered, if there is one.
ResetConsumerActive(k) ==
  inactive' = IF Registered(k) THEN [inactive EXCEPT ![consumers[k]] = FALSE] ELSE inactive

\* A unit that nobody refers to any more is as good as a new one.
Fresh(u) ==
  \/ state[u] = "NEW"
  \/ /\ state[u] = "STOPPED" /\ shutter.unit # u /\ clearer.unit # u
     /\ \A k \in Key : consumers[k] # u
     /\ \A p \in Getter : getter[p].unit # u

Init ==
  /\ consumers = [k \in Key |-> NoUnit]
  /\ state = [u \in Unit |-> "NEW"]
  /\ inactive = [u \in Unit |-> FALSE]
  /\ locker = [u \in Unit |-> NoLocker]
  /\ waiter = [u \in Unit |-> "none"]
  /\ getter = [p \in Getter |-> IdleGetter]
  /\ request = [k \in Key |-> NoRequest]
  /\ clearConsumerKey = NoKey
  /\ shutter = [pc |-> "sleep", keys |-> {}, seen |-> {}, key |-> NoKey, unit |-> NoUnit]
  /\ clearer = [pc |-> "read", key |-> NoKey, unit |-> NoUnit]

-----------------------------------------------------------------------------
(* MsgWorker::getConsumer: nothing is locked from the miss in the map to    *)
(* the insertion.                                                           *)

\* Thread p calls it for key k and some job.
TryGet(p, k, job) ==
  /\ getter[p].pc = "idle"
  /\ getter' = [getter EXCEPT ![p] =
                  [pc |-> IF Registered(k) THEN "use" ELSE "start", key |-> k,
                   unit |-> consumers[k], job |-> job, msg |-> request[k].msg]]

\* Mutant: a request whose key has no consumer is not looked at.
MatchRegistered(k) ==
  /\ request[k].pc # "none" /\ Registered(k)
  /\ TryGet(Matcher, k, "match")
  /\ UNCHANGED <<consumers, unitVars, request, clearConsumerKey, shutter, clearer>>

\* loopMatch pops a request, in whatever state it is.
Match(k) ==
  /\ request[k].pc # "none"
  /\ TryGet(Matcher, k, "match")
  /\ UNCHANGED <<consumers, unitVars, request, clearConsumerKey, shutter, clearer>>

\* ConsumeAckCallData::process, of the message that was the reply to the request.
Ack(k, s) ==
  /\ s \in ConsumeStatus /\ request[k].msg # NoMsg
  /\ TryGet(Handler, k, s)
  /\ ResetConsumerActive(k)
  /\ UNCHANGED <<consumers, state, locker, waiter, request, clearConsumerKey, shutter, clearer>>

\* ConsumeCallData::cancel, for a reply with a message that did not get through.
Cancel(k) ==
  /\ "cancel" \in HandlerJob /\ request[k].pc \in {"received", "late"}
  /\ TryGet(Handler, k, "cancel")
  /\ UNCHANGED <<consumers, unitVars, request, clearConsumerKey, shutter, clearer>>

\* new ConsumerUnit, and consumer.start().
Start(p, u) ==
  /\ getter[p].pc = "start" /\ Fresh(u)
  /\ state' = [state EXCEPT ![u] = "STARTED"]
  /\ inactive' = [inactive EXCEPT ![u] = FALSE]
  /\ getter' = [getter EXCEPT ![p].pc = "insert", ![p].unit = u]
  /\ UNCHANGED <<consumers, locker, waiter, request, clearConsumerKey, shutter, clearer>>

\* start() throws: getConsumer returns nullptr, which the caller dereferences;
\* nothing is modelled of the thread after that.
StartFails(p) ==
  /\ getter[p].pc = "start"
  /\ getter' = [getter EXCEPT ![p].pc = "nullptr"]
  /\ UNCHANGED <<consumers, unitVars, request, clearConsumerKey, shutter, clearer>>

\* Mutant: insert_or_update in place of insert.
InsertOrUpdate(p) ==
  /\ getter[p].pc = "insert"
  /\ consumers' = [consumers EXCEPT ![getter[p].key] = getter[p].unit]
  /\ getter' = [getter EXCEPT ![p].pc = "use"]
  /\ UNCHANGED <<unitVars, request, clearConsumerKey, shutter, clearer>>

\* MapTS::insert keeps the entry that is there; the caller uses its own unit.
Insert(p) ==
  /\ getter[p].pc = "insert"
  /\ consumers' = [consumers EXCEPT ![getter[p].key] =
                     IF @ = NoUnit THEN getter[p].unit ELSE @]
  /\ getter' = [getter EXCEPT ![p].pc = "use"]
  /\ UNCHANGED <<unitVars, request, clearConsumerKey, shutter, clearer>>

GetConsumer(p) == (\E u \in Unit : Start(p, u)) \/ StartFails(p) \/ Insert(p)

-----------------------------------------------------------------------------
(* The callback thread of a unit: waitLock, eraseLock, the verdict.         *)

\* The locker is inserted and its mutex taken.
WaitLock(u, m) ==
  /\ state[u] = "STARTED" /\ waiter[u] = "none"
  /\ locker' = [locker EXCEPT ![u] = NewLocker(<<m>>)]
  /\ waiter' = [waiter EXCEPT ![u] = "predicate"]
  /\ UNCHANGED <<consumers, state, inactive, getter, request, clearConsumerKey, shutter, clearer>>

\* cv.wait evaluates the predicate, and blocks a step later.
Predicate(u) ==
  /\ waiter[u] = "predicate"
  /\ waiter' = [waiter EXCEPT ![u] =
                  IF locker[u].clientStatus = "MSG_CONSUME_ACK" THEN "return" ELSE "wait"]
  /\ UNCHANGED <<consumers, state, inactive, locker, getter, request, clearConsumerKey, shutter,
                 clearer>>

Block(u) ==
  /\ waiter[u] = "wait"
  /\ waiter' = [waiter EXCEPT ![u] = "blocked"]
  /\ UNCHANGED <<consumers, state, inactive, locker, getter, request, clearConsumerKey, shutter,
                 clearer>>

ReturnStatus(u) ==
  /\ waiter[u] = "return"
  /\ locker' = [locker EXCEPT ![u] = NoLocker]
  /\ waiter' = [waiter EXCEPT ![u] = "none"]
  /\ UNCHANGED <<consumers, state, inactive, getter, request, clearConsumerKey, shutter, clearer>>

Callback(u) == Predicate(u) \/ Block(u) \/ ReturnStatus(u)

\* A method of the locker wakes the callback thread if it published a verdict
\* on the batch and the thread is blocked.
Update(u, l) ==
  /\ locker' = [locker EXCEPT ![u] = l]
  /\ waiter' = [waiter EXCEPT ![u] =
                  IF @ = "blocked" /\ l.clientStatus = "MSG_CONSUME_ACK"
                  THEN "predicate" ELSE @]

-----------------------------------------------------------------------------
(* The use of the unit that getConsumer returned.                           *)

\* A request of key k in state pc, with the matcher.
Matching(k, pc) ==
  /\ getter[Matcher].pc = "use" /\ getter[Matcher].key = k
  /\ request[k].pc = pc

Done(p) == getter' = [getter EXCEPT ![p] = IdleGetter]

\* fetchAndConsume: getMsg needs the locker's mutex, which the callback thread
\* holds until it blocks.
Deliver(k, pc) ==
  LET u == getter[Matcher].unit
  IN /\ Matching(k, pc) /\ waiter[u] = "blocked" /\ HasMsg(locker[u])
     /\ request' = [request EXCEPT ![k] = [pc |-> "received", msg |-> NextMsg(locker[u])]]
     /\ locker' = [locker EXCEPT ![u] = GetMsg(@)]
     /\ ResetConsumerActive(k)
     /\ Done(Matcher)
     /\ UNCHANGED <<consumers, state, waiter, clearConsumerKey, shutter, clearer>>

\* No message: push the request back, or answer it if its time is over.
NotFound(k, pc) ==
  LET u == getter[Matcher].unit
  IN Matching(k, pc) /\ waiter[u] \notin {"predicate", "wait"} /\ ~HasMsg(locker[u])

FetchAgain(k) ==
  /\ NotFound(k, "pool")
  /\ Done(Matcher)
  /\ UNCHANGED <<consumers, unitVars, request, clearConsumerKey, shutter, clearer>>

ResponseTimeOut(k) ==
  /\ NotFound(k, "expired")
  /\ request' = [request EXCEPT ![k] = NoRequest]
  /\ ResetConsumerActive(k)
  /\ Done(Matcher)
  /\ UNCHANGED <<consumers, state, locker, waiter, clearConsumerKey, shutter, clearer>>

\* A message with a client, and one with a verdict.
WatchAck(k) ==
  /\ Matching(k, "received")
  /\ Done(Matcher)
  /\ UNCHANGED <<consumers, unitVars, request, clearConsumerKey, shutter, clearer>>

DropAcked(k) ==
  /\ Matching(k, "ack")
  /\ request' = [request EXCEPT ![k] = NoRequest]
  /\ Done(Matcher)
  /\ UNCHANGED <<consumers, unitVars, clearConsumerKey, shutter, clearer>>

\* Past its ack time: setMsgReconsume, which finds the message only if the unit is
\* the one it came from and still waits.
SetMsgReconsume(k) ==
  LET u == getter[Matcher].unit
  IN /\ Matching(k, "late")
     /\ Update(u, SetMsgAck(locker[u], request[k].msg, "RECONSUME_LATER"))
     /\ request' = [request EXCEPT ![k] = NoRequest]
     /\ Done(Matcher)
     /\ UNCHANGED <<consumers, state, inactive, clearConsumerKey, shutter, clearer>>

MatcherUse(k) ==
  \/ Deliver(k, "pool") \/ Deliver(k, "expired") \/ FetchAgain(k) \/ ResponseTimeOut(k)
  \/ WatchAck(k) \/ DropAcked(k) \/ SetMsgReconsume(k)

\* The handler acknowledges the client's message: "cannot be found!" if the unit has
\* it not.
HandlerAck ==
  LET k == getter[Handler].key
      u == getter[Handler].unit
      m == getter[Handler].msg
  IN /\ getter[Handler].pc = "use" /\ getter[Handler].job \in ConsumeStatus
     /\ Update(u, SetMsgAck(locker[u], m, getter[Handler].job))
     /\ request' = IF Units(locker[u], m) # {} /\ request[k].msg = m
                   THEN [request EXCEPT ![k].pc = "ack"] ELSE request
     /\ Done(Handler)
     /\ UNCHANGED <<consumers, state, inactive, clearConsumerKey, shutter, clearer>>

HandlerCancel ==
  LET u == getter[Handler].unit
  IN /\ getter[Handler].pc = "use" /\ getter[Handler].job = "cancel"
     /\ Update(u, SetMsgAck(locker[u], getter[Handler].msg, "RECONSUME_LATER"))
     /\ Done(Handler)
     /\ UNCHANGED <<consumers, state, inactive, request, clearConsumerKey, shutter, clearer>>

HandlerUse == HandlerAck \/ HandlerCancel

-----------------------------------------------------------------------------
(* Clients and the clock.                                                   *)

\* ConsumeCallData::process.
Consume(k) ==
  /\ request[k].pc = "none"
  /\ request' = [request EXCEPT ![k].pc = "pool"]
  /\ UNCHANGED <<consumers, unitVars, getter, clearConsumerKey, shutter, clearer>>

\* MAX_MSG_WAIT_CONSUME_TIME and MAX_MSG_WAIT_CONSUME_ACK_TIME are over.
Expire(k) ==
  /\ request[k].pc \in {"pool", "received"}
  /\ request' = [request EXCEPT ![k].pc = IF @ = "pool" THEN "expired" ELSE "late"]
  /\ UNCHANGED <<consumers, unitVars, getter, clearConsumerKey, shutter, clearer>>

\* Nobody used the unit for MAX_MSG_CONSUME_MAX_INACTIVE_TIME.  In that time start()
\* has returned and the unit is registered, or never will be, and the clear thread,
\* which looks every second, has done what is left to do for a shutdown that is over.
NothingToClear ==
  clearer.pc = "read" /\ (clearConsumerKey # NoKey => ~Registered(clearConsumerKey))

Inactivity(u) ==
  /\ state[u] = "STARTED" /\ ~inactive[u] /\ \E k \in Key : consumers[k] = u
  /\ shutter.unit = NoUnit => NothingToClear
  /\ inactive' = [inactive EXCEPT ![u] = TRUE]
  /\ UNCHANGED <<consumers, state, locker, waiter, getter, request, clearConsumerKey, shutter, clearer>>

-----------------------------------------------------------------------------
(* MsgWorker::shutdownConsumer.  keys is never emptied (getAllKeys calls    *)
(* keys.empty(), which clears nothing), so that each round visits every key *)
(* that was ever registered; that it visits a key more than once a round is *)
(* left out, and so is the order of the keys.                               *)

GetAllKeys ==
  /\ shutter.pc = "sleep"
  /\ LET seen == shutter.seen \cup {k \in Key : Registered(k)}
     IN shutter' = [shutter EXCEPT !.pc = "visit", !.seen = seen, !.keys = seen]
  /\ UNCHANGED <<consumers, unitVars, getter, request, clearConsumerKey, clearer>>

\* The next key: its unit is gone or active, or it is to be shut down.
Visit(k) ==
  /\ shutter.pc = "visit" /\ k \in shutter.keys
  /\ shutter' = IF Registered(k) /\ inactive[consumers[k]]
                THEN [shutter EXCEPT !.keys = @ \ {k}, !.pc = "notify",
                                     !.key = k, !.unit = consumers[k]]
                ELSE [shutter EXCEPT !.keys = @ \ {k}]
  /\ UNCHANGED <<consumers, unitVars, getter, request, clearConsumerKey, clearer>>

LastKey ==
  /\ shutter.pc = "visit" /\ shutter.keys = {}
  /\ shutter' = [shutter EXCEPT !.pc = "sleep"]
  /\ UNCHANGED <<consumers, unitVars, getter, request, clearConsumerKey, clearer>>

Notify ==
  /\ shutter.pc = "notify"
  /\ clearConsumerKey' = shutter.key
  /\ shutter' = [shutter EXCEPT !.pc = "shutdown"]
  /\ UNCHANGED <<consumers, unitVars, getter, request, clearer>>

\* consumer.shutdown() starts no callback any more, and joins the callback thread.
Shutdown ==
  /\ shutter.pc = "shutdown"
  /\ state' = [state EXCEPT ![shutter.unit] = "STOPPING"]
  /\ shutter' = [shutter EXCEPT !.pc = "join"]
  /\ UNCHANGED <<consumers, inactive, locker, waiter, getter, request, clearConsumerKey, clearer>>

Join ==
  /\ shutter.pc = "join" /\ waiter[shutter.unit] = "none"
  /\ state' = [state EXCEPT ![shutter.unit] = "STOPPED"]
  /\ shutter' = [shutter EXCEPT !.pc = "erase"]
  /\ UNCHANGED <<consumers, inactive, locker, waiter, getter, request, clearConsumerKey, clearer>>

\* Mutant: the entry stays in the map.
EraseForgotten ==
  /\ shutter.pc = "erase"
  /\ shutter' = [shutter EXCEPT !.pc = "visit", !.key = NoKey, !.unit = NoUnit]
  /\ UNCHANGED <<consumers, unitVars, getter, request, clearConsumerKey, clearer>>

Erase ==
  /\ shutter.pc = "erase"
  /\ consumers' = [consumers EXCEPT ![shutter.key] = NoUnit]
  /\ shutter' = [shutter EXCEPT !.pc = "visit", !.key = NoKey, !.unit = NoUnit]
  /\ UNCHANGED <<unitVars, getter, request, clearConsumerKey, clearer>>

ShutdownConsumer ==
  \/ GetAllKeys \/ (\E k \in Key : Visit(k)) \/ LastKey
  \/ Notify \/ Shutdown \/ Join \/ Erase

-----------------------------------------------------------------------------
(* MsgWorker::clearMsgForConsumer.                                          *)

Reading == [pc |-> "read", key |-> NoKey, unit |-> NoUnit]

ReadKey ==
  /\ clearer.pc = "read" /\ clearConsumerKey # NoKey
  /\ clearer' = [clearer EXCEPT !.pc = "try_get", !.key = clearConsumerKey]
  /\ UNCHANGED <<consumers, unitVars, getter, request, clearConsumerKey, shutter>>

\* Mutant: the result of try_get is not tested.
TryGetKeyUnchecked ==
  /\ clearer.pc = "try_get"
  /\ clearer' = IF clearConsumerKey # NoKey
                THEN [clearer EXCEPT !.pc = "unlock", !.unit = consumers[clearConsumerKey]]
                ELSE Reading
  /\ UNCHANGED <<consumers, unitVars, getter, request, clearConsumerKey, shutter>>

\* The test is on the copy, the lookup on clearConsumerKey as it is now.
TryGetKey ==
  /\ clearer.pc = "try_get"
  /\ clearer' = IF clearConsumerKey # NoKey /\ Registered(clearConsumerKey)
                THEN [clearer EXCEPT !.pc = "unlock", !.unit = consumers[clearConsumerKey]]
                ELSE Reading
  /\ UNCHANGED <<consumers, unitVars, getter, request, clearConsumerKey, shutter>>

\* unlockAll, after a sleep of a second.  The sleep is taken to be as long as the
\* code means it to be: shutdown() was called meanwhile, if shutdownConsumer is at
\* this unit, and a callback that had begun to wait is blocked.
Slept(u) ==
  (shutter.unit = u) => /\ shutter.pc \notin {"notify", "shutdown"}
                        /\ waiter[u] \notin {"predicate", "wait"}

\* Mutant: unlockAll calls triggerCheck(false).
UnlockAllUnforced ==
  /\ clearer.pc = "unlock" /\ Slept(clearer.unit)
  /\ LET u == clearer.unit
     IN IF locker[u].msgs = <<>> \/ HasMsg(locker[u]) THEN UNCHANGED <<locker, waiter>>
        ELSE Update(u, Unlock(locker[u]))
  /\ clearer' = [clearer EXCEPT !.pc = "clear"]
  /\ UNCHANGED <<consumers, state, inactive, getter, request, clearConsumerKey, shutter>>

UnlockAll ==
  /\ clearer.pc = "unlock" /\ Slept(clearer.unit)
  /\ LET u == clearer.unit
     IN IF locker[u].msgs = <<>> THEN UNCHANGED <<locker, waiter>>
        ELSE Update(u, Unlock(locker[u]))
  /\ clearer' = [clearer EXCEPT !.pc = "clear"]
  /\ UNCHANGED <<consumers, state, inactive, getter, request, clearConsumerKey, shutter>>

ClearKey ==
  /\ clearer.pc = "clear"
  /\ clearConsumerKey' = NoKey
  /\ clearer' = Reading
  /\ UNCHANGED <<consumers, unitVars, getter, request, shutter>>

ClearMsgForConsumer == ReadKey \/ TryGetKey \/ UnlockAll \/ ClearKey

-----------------------------------------------------------------------------
MatcherStep == GetConsumer(Matcher) \/ \E k \in Key : MatcherUse(k)
HandlerStep == GetConsumer(Handler) \/ HandlerUse

Next ==
  \/ MatcherStep \/ HandlerStep
  \/ \E k \in Key : Match(k) \/ Expire(k) \/ Cancel(k) \/ \E s \in HandlerJob : Ack(k, s)
  \/ \E k \in Consuming : Consume(k)
  \/ \E u \in Unit : Callback(u) \/ Inactivity(u) \/ \E m \in MsgId : WaitLock(u, m)
  \/ ShutdownConsumer \/ ClearMsgForConsumer

\* The threads and the clock go on, and the matcher, whose pool is a queue, comes to
\* each request.  Nothing makes clients come, and the push consumer may have nothing.
Fairness ==
  /\ WF_vars(MatcherStep) /\ WF_vars(HandlerStep)
  /\ \A k \in Key : SF_vars(Match(k)) /\ WF_vars(Expire(k))
  /\ WF_vars(ShutdownConsumer) /\ WF_vars(ClearMsgForConsumer)
  /\ \A u \in Unit : WF_vars(Callback(u))

Spec == Init /\ [][Next]_vars

FairSpec == Spec /\ Fairness

-----------------------------------------------------------------------------
\* While shutdownConsumer is at a unit, the unit stays the one that is registered
\* for the key: what it erases at the end is the unit it has shut down.
ErasesOwnUnit ==
  shutter.pc \in {"notify", "shutdown", "join", "erase"} =>
    consumers[shutter.key] = shutter.unit

\* A callback that shutdownConsumer waits for, and that nobody else has released, is
\* known to clearMsgForConsumer: the key that was stored for it is there to be read,
\* or has been read.
NotificationKept ==
  shutter.pc = "join" /\ waiter[shutter.unit] = "blocked" =>
    \/ clearConsumerKey = shutter.key /\ clearer.pc # "clear"
    \/ clearer.unit = shutter.unit /\ clearer.pc = "unlock"

\* A message whose status is RECONSUME_LATER when its callback returns, because
\* unlockAll set it so, is not reported as consumed.
UnlockedNotConsumed ==
  \A u \in Unit : waiter[u] = "return" =>
    \A i \in Returned(locker[u], "CONSUME_SUCCESS") :
      locker[u].statusMap[i] = "CONSUME_SUCCESS"

\* What is registered runs, or is about to be erased: once a shutdown is over, the
\* next request finds no entry and starts another consumer.
RegisteredRuns ==
  \A k \in Key : Registered(k) =>
    \/ state[consumers[k]] = "STARTED"
    \/ shutter.unit = consumers[k] /\ shutter.pc \in {"join", "erase"}

\* shutdownConsumer does not wait forever for a callback: clearMsgForConsumer
\* is told of the consumer and releases it.
ShutdownCompletes == shutter.pc = "join" ~> shutter.pc # "join"

\* A request that waits while its consumer is shut down is answered all the same,
\* by the next consumer or with a timeout; but for a consumer that does not start,
\* and for the bound on the units.
Waiting(k) == request[k].pc \in {"pool", "expired"}
Stuck      == \E p \in Getter : \/ getter[p].pc = "nullptr"
                                \/ getter[p].pc = "start" /\ \A u \in Unit : ~Fresh(u)

RequestAnswered == \A k \in Key : Waiting(k) ~> ~Waiting(k) \/ Stuck
=============================================================================
