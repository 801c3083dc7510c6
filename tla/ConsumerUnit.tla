---------------------------- MODULE ConsumerUnit ----------------------------
(***************************************************************************)
(* ConsumerUnit (MsgWorker.h, MsgWorker.cpp) lock by lock: what MsgWorker  *)
(* takes as one step, setMsgAck and fetchAndConsume over all lockers, here *)
(* is as many steps as other threads can see.                              *)
(*                                                                         *)
(*   lockersMtx   shared: a Caller that is not idle.  exclusive: waitLock  *)
(*                and eraseLock, which do nothing that lasts while they    *)
(*                hold it and are single steps.                            *)
(*   locker->mtx  held by the callback thread in "predicate" and "wait",   *)
(*                and by getMsg for the length of its step.                *)
(*                                                                         *)
(* The matcher fetches and sets messages to be consumed again, the handler *)
(* acknowledges; both change the lockers' maps under the shared lock only, *)
(* at the same time.  That is a data race: of two insertions into          *)
(* reconsumeMap that overlap the later link wins, so that an entry with    *)
(* another key may be lost; other accesses are to existing entries and     *)
(* read the value before or after a write.                                 *)
(*                                                                         *)
(* unlockAll, which takes the exclusive lock, is ShutdownConsumer's.       *)
(***************************************************************************)
EXTENDS ConsumerUnitLocker

CONSTANTS
  Thread,       \* consume threads of the push consumer
  Batches,      \* the message vectors the push consumer may hand over
  Matcher, Handler,
  NoThread, NoMsg

ASSUME CallerAssumption ==
  Matcher # Handler /\ NoThread \notin Thread /\ NoMsg \notin MsgId

ASSUME BatchAssumption == Batches \subseteq Seq(MsgId) \ {<<>>}

VARIABLES
  lockers,      \* ConsumerUnit::lockers: the threads whose locker is in the map
  locker,       \* the locker of each thread
  waiter,       \* where each callback thread is in waitLock and after it
  caller,       \* where the matcher and the handler are in the unit's methods
  woken,        \* history: threads that woke up for nothing in this wait
  raced,        \* history: ids whose entry in reconsumeMap was lost
  acked,        \* history: ids a client acknowledged with success
  consumed      \* history: ids a callback reported as consumed

historyVars == <<woken, raced, acked, consumed>>
vars == <<lockers, locker, waiter, caller, historyVars>>

Caller == {Matcher, Handler}

WaiterPC == {"none", "predicate", "wait", "blocked", "erase", "return"}

CallerPC == {"idle", "getMsg", "visit", "status", "clientStatus", "lookup", "link",
             "size", "scan", "publish", "notify"}

(* todo: lockers not visited yet.  at: the locker in hand.  id, s: the      *)
(* arguments.  units: message units with that id not visited yet.  pos,     *)
(* verdict: triggerCheck's loop.  map: reconsumeMap, as operator[] found it. *)
IdleCaller ==
  [pc |-> "idle", todo |-> {}, at |-> NoThread, id |-> NoMsg, s |-> "RECONSUME_LATER",
   units |-> {}, pos |-> 0, verdict |-> "CONSUME_SUCCESS", map |-> {}]

TypeOK ==
  /\ lockers \subseteq Thread
  /\ locker \in [Thread -> Locker]
  /\ waiter \in [Thread -> WaiterPC]
  /\ \A c \in Caller : /\ caller[c].pc \in CallerPC
                       /\ caller[c].todo \subseteq lockers
                       /\ caller[c].at \in lockers \cup {NoThread}
                       /\ caller[c].id \in MsgId \cup {NoMsg}
                       /\ caller[c].s \in ConsumeStatus
                       /\ caller[c].verdict \in ConsumeStatus
                       /\ caller[c].map \subseteq MsgId
  /\ raced \subseteq MsgId /\ acked \subseteq MsgId /\ consumed \subseteq MsgId
  /\ woken \subseteq Thread

Init ==
  /\ lockers = {}
  /\ locker = [t \in Thread |-> NoLocker]
  /\ waiter = [t \in Thread |-> "none"]
  /\ caller = [c \in Caller |-> IdleCaller]
  /\ woken = {} /\ raced = {} /\ acked = {} /\ consumed = {}

\* lockersMtx can be taken exclusively; its shared holders go on until they are idle.
Unshared == \A c \in Caller : caller[c].pc = "idle"

LockShared(c, state) ==
  /\ caller[c].pc = "idle"
  /\ caller' = [caller EXCEPT ![c] = state]

UnlockShared(c) == caller' = [caller EXCEPT ![c] = IdleCaller]

\* locker->mtx is free.
MtxFree(t) == waiter[t] \notin {"predicate", "wait"}

-----------------------------------------------------------------------------
(* The callback threads.                                                    *)

Move(t, from, to) ==
  /\ waiter[t] = from
  /\ waiter' = [waiter EXCEPT ![t] = to]

\* waitLock up to cv.wait: the locker is inserted, its mutex taken, and only then
\* the exclusive lock released.  A message is at one place at a time.
WaitLock(t, b) ==
  /\ \A i \in DOMAIN b : /\ b[i] \notin consumed
                         /\ \A u \in Thread : Units(locker[u], b[i]) = {}
  /\ Unshared
  /\ Move(t, "none", "predicate")
  /\ locker' = [locker EXCEPT ![t] = NewLocker(b)]
  /\ lockers' = lockers \cup {t}
  /\ UNCHANGED <<caller, historyVars>>

\* cv.wait evaluates its predicate, and then returns or blocks; to block releases
\* the mutex.
Predicate(t) ==
  /\ Move(t, "predicate",
          IF locker[t].clientStatus = "MSG_CONSUME_ACK" THEN "erase" ELSE "wait")
  /\ UNCHANGED <<lockers, locker, caller, historyVars>>

Block(t) ==
  /\ Move(t, "wait", "blocked")
  /\ UNCHANGED <<lockers, locker, caller, historyVars>>

\* A condition variable may wake up for nothing, once per wait (bound).
SpuriousWakeup(t) ==
  /\ t \notin woken
  /\ Move(t, "blocked", "predicate")
  /\ woken' = woken \cup {t}
  /\ UNCHANGED <<lockers, locker, caller, raced, acked, consumed>>

\* Mutant: the map is changed under a shared lock.
EraseLockShared(t) ==
  /\ Move(t, "erase", "return")
  /\ lockers' = lockers \ {t}
  /\ UNCHANGED <<locker, caller, historyVars>>

EraseLock(t) ==
  /\ Unshared
  /\ Move(t, "erase", "return")
  /\ lockers' = lockers \ {t}
  /\ UNCHANGED <<locker, caller, historyVars>>

ReturnStatus(t) ==
  /\ Move(t, "return", "none")
  /\ consumed' = consumed \cup
       {locker[t].msgs[i] : i \in Returned(locker[t], "CONSUME_SUCCESS")}
  /\ locker' = [locker EXCEPT ![t] = NoLocker]
  /\ woken' = woken \ {t}
  /\ UNCHANGED <<lockers, caller, raced, acked>>

Callback(t) == Predicate(t) \/ Block(t) \/ EraseLock(t) \/ ReturnStatus(t)

-----------------------------------------------------------------------------
(* fetchAndConsume, of the matcher.                                         *)

FetchAndConsume ==
  /\ LockShared(Matcher, [IdleCaller EXCEPT !.pc = "getMsg", !.todo = lockers])
  /\ UNCHANGED <<lockers, locker, waiter, historyVars>>

\* Mutant: getMsg does not take the mutex.
GetMsgNoMtx(t) ==
  /\ caller[Matcher].pc = "getMsg" /\ t \in caller[Matcher].todo
  /\ IF HasMsg(locker[t])
     THEN /\ UnlockShared(Matcher)
          /\ locker' = [locker EXCEPT ![t] = GetMsg(@)]
     ELSE /\ caller' = [caller EXCEPT ![Matcher].todo = @ \ {t}]
          /\ UNCHANGED locker
  /\ UNCHANGED <<lockers, waiter, historyVars>>

\* getMsg of one locker, in the order of the map, which is that of the pointers.
GetMsgAt(t) ==
  /\ caller[Matcher].pc = "getMsg" /\ t \in caller[Matcher].todo
  /\ MtxFree(t)
  /\ IF HasMsg(locker[t])
     THEN /\ UnlockShared(Matcher)
          /\ locker' = [locker EXCEPT ![t] = GetMsg(@)]
     ELSE /\ caller' = [caller EXCEPT ![Matcher].todo = @ \ {t}]
          /\ UNCHANGED locker
  /\ UNCHANGED <<lockers, waiter, historyVars>>

NothingFound ==
  /\ caller[Matcher].pc = "getMsg" /\ caller[Matcher].todo = {}
  /\ UnlockShared(Matcher)
  /\ UNCHANGED <<lockers, locker, waiter, historyVars>>

-----------------------------------------------------------------------------
(* setMsgAck: for each locker setMsgStatus, then triggerCheck(false).       *)

SetMsgAckOf(c, m, s) ==
  /\ LockShared(c, [IdleCaller EXCEPT !.pc = "visit", !.todo = lockers, !.id = m, !.s = s])
  /\ UNCHANGED <<lockers, locker, waiter, historyVars>>

\* A step of caller c in its locker: to pc, with no change but what is said.
At(c, pc) == caller[c].pc = pc
Go(c, pc) == caller' = [caller EXCEPT ![c].pc = pc]

\* It is done with that locker.
Leave(c) == caller' = [caller EXCEPT ![c] = [IdleCaller EXCEPT
                         !.pc = "visit", !.todo = caller[c].todo,
                         !.id = caller[c].id, !.s = caller[c].s]]

VisitLocker(c, t) ==
  /\ At(c, "visit") /\ t \in caller[c].todo
  /\ LET units == Units(locker[t], caller[c].id)
     IN caller' = [caller EXCEPT ![c].todo = @ \ {t}, ![c].at = t, ![c].units = units,
                                 ![c].pc = IF units = {} THEN "size" ELSE "status"]
  /\ UNCHANGED <<lockers, locker, waiter, historyVars>>

LastLocker(c) ==
  /\ At(c, "visit") /\ caller[c].todo = {}
  /\ UnlockShared(c)
  /\ UNCHANGED <<lockers, locker, waiter, historyVars>>

\* The units of an id, in the order of the map, which is that of the pointers.
Unit(c) == CHOOSE i \in caller[c].units : TRUE

SetStatus(c) ==
  /\ At(c, "status") /\ Go(c, "clientStatus")
  /\ locker' = [locker EXCEPT ![caller[c].at].statusMap[Unit(c)] = caller[c].s]
  /\ acked' = IF caller[c].s = "CONSUME_SUCCESS" THEN acked \cup {caller[c].id} ELSE acked
  /\ UNCHANGED <<lockers, waiter, woken, raced, consumed>>

\* The next unit of that id, or the check of the locker.
NextUnit(c) ==
  LET rest == caller[c].units \ {Unit(c)}
  IN caller' = [caller EXCEPT ![c].units = rest,
                              ![c].pc = IF rest = {} THEN "size" ELSE "status",
                              ![c].map = {}]

SetClientStatus(c) ==
  /\ At(c, "clientStatus")
  /\ locker' = [locker EXCEPT ![caller[c].at].clientStatusMap[Unit(c)] = "MSG_CONSUME_ACK"]
  /\ IF caller[c].s = "RECONSUME_LATER" THEN Go(c, "lookup") ELSE NextUnit(c)
  /\ UNCHANGED <<lockers, waiter, historyVars>>

\* reconsumeMap[msgId] = 1: operator[] looks the key up, and links a new node.
Lookup(c) ==
  /\ At(c, "lookup")
  /\ caller' = [caller EXCEPT ![c].pc = "link",
                              ![c].map = locker[caller[c].at].reconsumeMap]
  /\ UNCHANGED <<lockers, locker, waiter, historyVars>>

Link(c) ==
  /\ At(c, "link")
  /\ LET t == caller[c].at
         found == caller[c].id \in caller[c].map
         map == IF found THEN locker[t].reconsumeMap ELSE caller[c].map \cup {caller[c].id}
     IN /\ locker' = [locker EXCEPT ![t].reconsumeMap = map]
        /\ raced' = raced \cup (locker[t].reconsumeMap \ map)
  /\ NextUnit(c)
  /\ UNCHANGED <<lockers, waiter, woken, acked, consumed>>

\* triggerCheck(false): nothing to do while the batch has messages to hand out.
Size(c) ==
  /\ At(c, "size")
  /\ IF HasMsg(locker[caller[c].at])
     THEN Leave(c)
     ELSE caller' = [caller EXCEPT ![c].pc = "scan", ![c].pos = 1,
                                   ![c].verdict = "CONSUME_SUCCESS"]
  /\ UNCHANGED <<lockers, locker, waiter, historyVars>>

\* Mutant: a unit that is not acknowledged does not end the loop.
ScanNoBreak(c) ==
  /\ At(c, "scan")
  /\ LET l == locker[caller[c].at]
         i == caller[c].pos
     IN caller' = [caller EXCEPT ![c].pos = i + 1,
                                 ![c].pc = IF i = Len(l.msgs) THEN "publish" ELSE "scan"]
  /\ UNCHANGED <<lockers, locker, waiter, historyVars>>

\* Its loop, one unit at a time: break at one that is not acknowledged.
Scan(c) ==
  /\ At(c, "scan")
  /\ LET l == locker[caller[c].at]
         i == caller[c].pos
     IN IF l.clientStatusMap[i] # "MSG_CONSUME_ACK"
        THEN Leave(c)
        ELSE caller' = [caller EXCEPT
                          ![c].verdict = IF l.statusMap[i] = "RECONSUME_LATER"
                                         THEN "RECONSUME_LATER" ELSE @,
                          ![c].pos = i + 1,
                          ![c].pc = IF i = Len(l.msgs) THEN "publish" ELSE "scan"]
  /\ UNCHANGED <<lockers, locker, waiter, historyVars>>

\* status and clientStatus; nobody reads status before eraseLock.
Publish(c) ==
  /\ At(c, "publish") /\ Go(c, "notify")
  /\ locker' = [locker EXCEPT ![caller[c].at].status = caller[c].verdict,
                              ![caller[c].at].clientStatus = "MSG_CONSUME_ACK"]
  /\ UNCHANGED <<lockers, waiter, historyVars>>

\* notify_all, without the mutex.
NotifyAll(c) ==
  /\ At(c, "notify") /\ Leave(c)
  /\ waiter' = [waiter EXCEPT ![caller[c].at] = IF @ = "blocked" THEN "predicate" ELSE @]
  /\ UNCHANGED <<lockers, locker, historyVars>>

SetMsgAckStep(c) ==
  \/ \E t \in Thread : VisitLocker(c, t)
  \/ LastLocker(c) \/ SetStatus(c) \/ SetClientStatus(c) \/ Lookup(c) \/ Link(c)
  \/ Size(c) \/ Scan(c) \/ Publish(c) \/ NotifyAll(c)

CallerStep(c) ==
  \/ SetMsgAckStep(c)
  \/ c = Matcher /\ (NothingFound \/ \E t \in Thread : GetMsgAt(t))

\* What the matcher and the handler ask of the unit, at any time: the matcher of
\* ids at their timeout, the handler of whatever ids clients send.
Request ==
  \/ FetchAndConsume
  \/ \E m \in MsgId : \/ SetMsgAckOf(Matcher, m, "RECONSUME_LATER")
                      \/ \E s \in ConsumeStatus : SetMsgAckOf(Handler, m, s)

Next ==
  \/ \E t \in Thread : Callback(t) \/ SpuriousWakeup(t) \/ \E b \in Batches : WaitLock(t, b)
  \/ \E c \in Caller : CallerStep(c)
  \/ Request

Spec == Init /\ [][Next]_vars

-----------------------------------------------------------------------------
\* What a callback reports as consumed was acknowledged with success by a client,
\* whatever the matcher's and the handler's setMsgAck do to its batch at the same
\* time, unless the data race on reconsumeMap lost its entry.
NoSilentLoss == consumed \subseteq acked \cup raced

\* The exclusive lock of eraseLock: when a callback reads the verdict on its batch,
\* nobody is at work on the batch any more, and each of its messages has a verdict.
SettledBeforeReturn ==
  \A t \in Thread : waiter[t] = "return" =>
    /\ AllAcked(locker[t]) /\ ~HasMsg(locker[t])
    /\ \A c \in Caller : caller[c].at # t /\ t \notin caller[c].todo

\* The comment in getMsg: the mutex makes a message wait for its callback thread's
\* wait.  A verdict that is published therefore finds the thread blocked, though it
\* is published without the mutex, and its notification is lost only on a thread
\* that had woken up for nothing.
NoLostNotify ==
  \A t \in Thread :
    waiter[t] \in {"wait", "blocked"} /\ locker[t].clientStatus = "MSG_CONSUME_ACK" =>
      t \in woken \/ \E c \in Caller : caller[c].pc = "notify" /\ caller[c].at = t

=============================================================================
