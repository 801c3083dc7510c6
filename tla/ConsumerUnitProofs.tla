------------------------- MODULE ConsumerUnitProofs -------------------------
(***************************************************************************)
(* Proofs about ConsumerUnit.tla, for any number of callback threads and   *)
(* messages and any batches: what the matcher and the handler do to the    *)
(* lockers under the shared lock keeps every verdict backed, and nobody is *)
(* at work on a batch whose verdict is read.                               *)
(***************************************************************************)
EXTENDS ConsumerUnit, ConsumerUnitLockerProofs

CallerState ==
  [pc : CallerPC, todo : SUBSET Thread, at : Thread \cup {NoThread},
   id : MsgId \cup {NoMsg}, s : ConsumeStatus, units : SUBSET Nat, pos : Nat,
   verdict : ConsumeStatus, map : SUBSET MsgId]

Types == TypeOK /\ caller \in [Caller -> CallerState]

\* A locker is in the map while its thread waits, it has a batch then, and the wait
\* ends with a verdict.
Waits ==
  \A t \in Thread :
    /\ t \in lockers <=> waiter[t] \in {"predicate", "wait", "blocked", "erase"}
    /\ waiter[t] # "none" => locker[t].msgs # <<>>
    /\ waiter[t] \in {"erase", "return"} => locker[t].clientStatus = "MSG_CONSUME_ACK"

\* What a locker may say when A are acknowledged, the entries of R were lost and
\* those of P are about to be linked.
Recorded(l, A, R, P) ==
  /\ DOMAIN l.clientStatusMap = DOMAIN l.msgs /\ DOMAIN l.statusMap = DOMAIN l.msgs
  /\ \A i \in DOMAIN l.msgs :
       /\ l.statusMap[i] = "CONSUME_SUCCESS" => l.msgs[i] \in A
       /\ l.clientStatusMap[i] = "MSG_CONSUME_ACK" =>
            l.msgs[i] \in A \cup R \cup P \cup l.reconsumeMap
  /\ l.clientStatus = "MSG_CONSUME_ACK" =>
       /\ AllAcked(l) /\ ~HasMsg(l)
       /\ l.status = "CONSUME_SUCCESS" => \A i \in DOMAIN l.msgs : l.msgs[i] \in A

Links(x, t) == x.at = t /\ x.pc \in {"lookup", "link"}
Pending(t)  == {m \in MsgId : \E c \in Caller : Links(caller[c], t) /\ caller[c].id = m}

Records == \A t \in Thread : Recorded(locker[t], acked, raced, Pending(t))

\* triggerCheck's loop came past the units I.
Seen(l, verdict, I, A) ==
  \A i \in I : /\ l.clientStatusMap[i] = "MSG_CONSUME_ACK"
               /\ verdict = "CONSUME_SUCCESS" => l.msgs[i] \in A

\* What a caller in state x knows of its locker l, which is one of L.
Working(x, l, L, A, R) ==
  /\ x.todo \subseteq L
  /\ x.pc = "idle" => x.todo = {}
  /\ x.pc \in {"idle", "getMsg", "visit"} => x.at = NoThread
  /\ x.pc \notin {"idle", "getMsg", "visit"} => x.at \in L
  /\ x.pc \notin {"idle", "getMsg"} => x.id \in MsgId
  /\ x.pc \in {"status", "clientStatus", "lookup", "link"} =>
       x.units # {} /\ x.units \subseteq Units(l, x.id)
  /\ x.pc = "clientStatus" /\ x.s = "CONSUME_SUCCESS" => x.id \in A
  /\ x.pc = "link" => x.map \subseteq l.reconsumeMap \cup R
  /\ x.pc \in {"scan", "publish", "notify"} => ~HasMsg(l)
  /\ x.pc = "scan" => x.pos \in DOMAIN l.msgs /\ Seen(l, x.verdict, 1..(x.pos - 1), A)
  /\ x.pc = "publish" => Seen(l, x.verdict, DOMAIN l.msgs, A)
  /\ x.pc = "notify" => l.clientStatus = "MSG_CONSUME_ACK"

Works == \A c \in Caller :
           Working(caller[c], locker[caller[c].at], lockers, acked, raced)

\* Nothing is handed out of a batch before its callback thread has blocked: it
\* begins a wait with a message left, unless it woke up for nothing.
Begins ==
  \A t \in Thread \ woken :
    /\ waiter[t] = "wait" => HasMsg(locker[t])
    /\ waiter[t] = "predicate" =>
         HasMsg(locker[t]) \/ locker[t].clientStatus = "MSG_CONSUME_ACK"

IInv == Types /\ Waits /\ Records /\ Works /\ Begins /\ NoLostNotify /\ NoSilentLoss

-----------------------------------------------------------------------------
(* What one thread's step leaves to the others.                             *)

\* What a step may do to a locker that others work on: its batch and its verdicts
\* stay, it gets no messages, and entries it loses are of S.
Later(l, k, S) ==
  /\ k.msgs = l.msgs
  /\ l.reconsumeMap \subseteq k.reconsumeMap \cup S
  /\ \A i \in DOMAIN l.msgs : l.clientStatusMap[i] = "MSG_CONSUME_ACK" =>
                                k.clientStatusMap[i] = "MSG_CONSUME_ACK"
  /\ ~HasMsg(l) => ~HasMsg(k)
  /\ l.clientStatus = "MSG_CONSUME_ACK" => k.clientStatus = "MSG_CONSUME_ACK"

LEMMA WorkingLater ==
  ASSUME NEW x \in CallerState, NEW l, NEW k, NEW L, NEW A, NEW B, NEW R, NEW S,
         Working(x, l, L, A, R), A \subseteq B, R \subseteq S,
         x.at \in L => l \in Locker /\ Later(l, k, S)
  PROVE  Working(x, k, L, B, S)
<1>1. CASE x.pc \in {"idle", "getMsg", "visit"}
  BY <1>1 DEF Working
<1>2. CASE x.pc \notin {"idle", "getMsg", "visit"}
  <2>1. l \in Locker /\ Later(l, k, S)
    BY <1>2 DEF Working
  <2>2. Units(k, x.id) = Units(l, x.id)
    BY <2>1 DEF Later, Units
  <2>3. ASSUME NEW I \in SUBSET DOMAIN l.msgs, Seen(l, x.verdict, I, A)
        PROVE  Seen(k, x.verdict, I, B)
    BY <2>1, <2>3 DEF Later, Seen
  <2>4. x.pc = "scan" => x.pos \in DOMAIN k.msgs /\ Seen(k, x.verdict, 1..(x.pos - 1), B)
    <3>1. SUFFICES ASSUME x.pc = "scan"
                   PROVE  x.pos \in DOMAIN k.msgs /\ Seen(k, x.verdict, 1..(x.pos - 1), B)
      OBVIOUS
    <3>2. x.pos \in DOMAIN l.msgs /\ Seen(l, x.verdict, 1..(x.pos - 1), A)
      BY <3>1 DEF Working
    <3>3. 1..(x.pos - 1) \subseteq DOMAIN l.msgs
      BY <2>1, <3>2, LenProperties DEF Locker
    <3> QED
      BY <2>1, <2>3, <3>2, <3>3 DEF Later
  <2>5. x.pc = "publish" => Seen(k, x.verdict, DOMAIN k.msgs, B)
    BY <2>1, <2>3 DEF Later, Working
  <2> QED
    BY <1>2, <2>1, <2>2, <2>4, <2>5 DEF Working, Later
<1> QED
  BY <1>1, <1>2

LEMMA RecordedMore ==
  ASSUME NEW l, NEW A, NEW B, NEW R, NEW S, NEW P, NEW Q, Recorded(l, A, R, P),
         A \subseteq B, R \subseteq S, P \subseteq Q
  PROVE  Recorded(l, B, S, Q)
BY DEF Recorded

\* A step of caller c, to y, that is not NotifyAll.
LEMMA CallerKeeps ==
  ASSUME IInv, NEW c \in Caller, NEW y \in CallerState,
         caller[c].pc # "notify", caller' = [caller EXCEPT ![c] = y],
         locker' \in [Thread -> Locker], UNCHANGED <<lockers, waiter, woken, consumed>>,
         acked \subseteq acked', acked' \subseteq MsgId,
         raced \subseteq raced', raced' \subseteq MsgId,
         Working(y, locker'[y.at], lockers, acked', raced'),
         \A u \in Thread :
           /\ Later(locker[u], locker'[u], raced')
           /\ Recorded(locker'[u], acked', raced', Pending(u)')
           /\ HasMsg(locker[u]) /\ ~MtxFree(u) => HasMsg(locker'[u])
           /\ locker'[u].clientStatus # locker[u].clientStatus =>
                y.pc = "notify" /\ y.at = u
  PROVE  IInv'
<1>1. /\ \A d \in Caller : caller'[d] = IF d = c THEN y ELSE caller[d]
      /\ caller' \in [Caller -> CallerState]
  BY DEF IInv, Types
<1>2. Works'
  <2> SUFFICES ASSUME NEW d \in Caller
               PROVE  Working(caller'[d], locker'[caller'[d].at], lockers, acked', raced')
    BY DEF Works
  <2>1. CASE d = c
    BY <1>1, <2>1
  <2>2. CASE d # c
    <3> DEFINE x == caller[d]
    <3>1. x \in CallerState /\ Working(x, locker[x.at], lockers, acked, raced)
      BY DEF IInv, Types, Works
    <3>2. x.at \in lockers => locker[x.at] \in Locker /\ Later(locker[x.at], locker'[x.at], raced')
      BY DEF IInv, Types, TypeOK
    <3>3. caller'[d] = x
      BY <1>1, <2>2
    <3> HIDE DEF x
    <3>4. Working(x, locker'[x.at], lockers, acked', raced')
      BY <3>1, <3>2, WorkingLater
    <3> QED
      BY <3>3, <3>4
  <2> QED
    BY <2>1, <2>2
<1>3. Types'
  <2>1. \A d \in Caller : caller'[d].todo \subseteq lockers /\ caller'[d].at \in lockers \cup {NoThread}
    BY <1>2 DEF Works, Working
  <2> QED
    BY <1>1, <2>1 DEF IInv, Types, TypeOK, CallerState
<1>4. Waits'
  BY DEF IInv, Waits, Later
<1>5. Records'
  BY DEF Records
<1>6. Begins'
  BY DEF IInv, Begins, MtxFree, Later
<1>7. NoLostNotify'
  <2> SUFFICES ASSUME NEW t \in Thread, waiter[t] \in {"wait", "blocked"},
                      locker'[t].clientStatus = "MSG_CONSUME_ACK", t \notin woken
               PROVE  \E d \in Caller : caller'[d].pc = "notify" /\ caller'[d].at = t
    BY DEF NoLostNotify
  <2>1. CASE locker[t].clientStatus = "MSG_CONSUME_ACK"
    BY <1>1, <2>1 DEF IInv, NoLostNotify
  <2>2. CASE locker[t].clientStatus # "MSG_CONSUME_ACK"
    BY <1>1, <2>2
  <2> QED
    BY <2>1, <2>2
<1>8. NoSilentLoss'
  BY DEF IInv, NoSilentLoss
<1> QED
  BY <1>2, <1>3, <1>4, <1>5, <1>6, <1>7, <1>8 DEF IInv

\* A step of caller c that changes nothing else.
LEMMA CallerMoves ==
  ASSUME IInv, NEW c \in Caller, NEW y \in CallerState,
         caller[c].pc # "notify", caller' = [caller EXCEPT ![c] = y],
         UNCHANGED <<lockers, locker, waiter, historyVars>>,
         \A t \in Thread : Links(caller[c], t) => Links(y, t) /\ y.id = caller[c].id,
         Working(y, locker[y.at], lockers, acked, raced)
  PROVE  IInv'
<1>1. \A d \in Caller : caller'[d] = IF d = c THEN y ELSE caller[d]
  BY DEF IInv, Types
<1>2. UNCHANGED <<woken, raced, acked, consumed>>
  BY DEF historyVars
<1>3. ASSUME NEW u \in Thread
      PROVE  /\ Later(locker[u], locker'[u], raced')
             /\ Recorded(locker'[u], acked', raced', Pending(u)')
  <2>1. Pending(u) \subseteq Pending(u)'
    BY <1>1 DEF Pending
  <2>2. Recorded(locker[u], acked, raced, Pending(u))
    BY DEF IInv, Records
  <2>3. Recorded(locker[u], acked, raced, Pending(u)')
    BY <2>1, <2>2, RecordedMore
  <2> QED
    BY <1>2, <2>3 DEF Later
<1>4. locker' \in [Thread -> Locker] /\ acked' \subseteq MsgId /\ raced' \subseteq MsgId
  BY <1>2 DEF IInv, Types, TypeOK
<1>5. Working(y, locker'[y.at], lockers, acked', raced')
  BY <1>2
<1> QED
  BY <1>2, <1>3, <1>4, <1>5, CallerKeeps

-----------------------------------------------------------------------------
(* The matcher and the handler.                                             *)

\* What the state of a caller is made of.
LEMMA CallerType ==
  ASSUME IInv, NEW c \in Caller
  PROVE  /\ caller[c] \in CallerState /\ IdleCaller \in CallerState
         /\ Working(caller[c], locker[caller[c].at], lockers, acked, raced)
         /\ \A t \in lockers : t \in Thread /\ t # NoThread
<1>1. IdleCaller \in CallerState
  BY DEF IdleCaller, CallerState, CallerPC, ConsumeStatus
<1> QED
  BY <1>1, CallerAssumption DEF IInv, Types, TypeOK, Works

\* A caller comes to the unit, or leaves it.
LEMMA EnterInv ==
  ASSUME IInv, NEW c \in Caller,
         \/ c = Matcher /\ (FetchAndConsume \/ NothingFound)
         \/ LastLocker(c)
         \/ \E m \in MsgId, s \in ConsumeStatus : SetMsgAckOf(c, m, s)
  PROVE  IInv'
<1>1. CASE c = Matcher /\ FetchAndConsume
  <2> DEFINE y == [IdleCaller EXCEPT !.pc = "getMsg", !.todo = lockers]
  <2>1. /\ y \in CallerState /\ Working(y, locker[y.at], lockers, acked, raced)
        /\ y.pc = "getMsg"
    BY DEF CallerState, IdleCaller, CallerPC, ConsumeStatus, Working, IInv, Types, TypeOK
  <2>2. /\ caller[c].pc = "idle" /\ caller' = [caller EXCEPT ![c] = y]
        /\ UNCHANGED <<lockers, locker, waiter, historyVars>>
    BY <1>1 DEF FetchAndConsume, LockShared
  <2> HIDE DEF y
  <2> QED
    BY <2>1, <2>2, CallerMoves DEF Links
<1>2. CASE (c = Matcher /\ NothingFound) \/ LastLocker(c)
  <2> DEFINE y == IdleCaller
  <2>1. y \in CallerState /\ Working(y, locker[y.at], lockers, acked, raced)
    BY CallerType DEF IdleCaller, Working
  <2>2. /\ caller[c].pc \in {"getMsg", "visit"} /\ caller' = [caller EXCEPT ![c] = y]
        /\ UNCHANGED <<lockers, locker, waiter, historyVars>>
    BY <1>2 DEF NothingFound, LastLocker, UnlockShared, At
  <2> HIDE DEF y
  <2> QED
    BY <2>1, <2>2, CallerMoves DEF Links
<1>3. ASSUME NEW m \in MsgId, NEW s \in ConsumeStatus, SetMsgAckOf(c, m, s)
      PROVE  IInv'
  <2> DEFINE y == [IdleCaller EXCEPT !.pc = "visit", !.todo = lockers, !.id = m, !.s = s]
  <2>1. y \in CallerState /\ Working(y, locker[y.at], lockers, acked, raced)
    BY <1>3 DEF CallerState, IdleCaller, CallerPC, ConsumeStatus, Working, IInv, Types, TypeOK
  <2>2. /\ caller[c].pc = "idle" /\ caller' = [caller EXCEPT ![c] = y]
        /\ UNCHANGED <<lockers, locker, waiter, historyVars>>
    BY <1>3 DEF SetMsgAckOf, LockShared
  <2> HIDE DEF y
  <2> QED
    BY <2>1, <2>2, CallerMoves DEF Links
<1> QED
  BY <1>1, <1>2, <1>3

\* triggerCheck is done, or not due: the next locker.
Left(x) == [IdleCaller EXCEPT !.pc = "visit", !.todo = x.todo, !.id = x.id, !.s = x.s]

LEMMA LeftWorks ==
  ASSUME NEW x \in CallerState, NEW l, NEW L, NEW A, NEW R, Working(x, l, L, A, R),
         x.pc \notin {"idle", "getMsg"}
  PROVE  Left(x) \in CallerState /\ \A k : Working(Left(x), k, L, A, R)
<1>1. x.id \in MsgId /\ x.todo \in SUBSET Thread /\ x.s \in ConsumeStatus /\ x.todo \subseteq L
  BY DEF Working, CallerState
<1>2. Left(x) \in CallerState
  BY <1>1 DEF Left, CallerState, IdleCaller, CallerPC, ConsumeStatus
<1>3. Left(x).pc = "visit" /\ Left(x).todo = x.todo /\ Left(x).at = NoThread /\ Left(x).id = x.id
  BY DEF Left, IdleCaller
<1> QED
  BY <1>1, <1>2, <1>3 DEF Working

LEMMA VisitInv ==
  ASSUME IInv, NEW c \in Caller, NEW t \in Thread, VisitLocker(c, t)
  PROVE  IInv'
<1> DEFINE x == caller[c]
           l == locker[t]
           units == Units(l, x.id)
           pc == IF units = {} THEN "size" ELSE "status"
           y == [x EXCEPT !.todo = @ \ {t}, !.at = t, !.units = units, !.pc = pc]
<1>1. /\ x \in CallerState /\ Working(x, locker[x.at], lockers, acked, raced)
      /\ x.pc = "visit" /\ t \in x.todo /\ caller' = [caller EXCEPT ![c] = y]
      /\ UNCHANGED <<lockers, locker, waiter, historyVars>>
  BY CallerType DEF VisitLocker, At, IInv, Types
<1>2. units \in SUBSET Nat
  BY LenProperties DEF Units, IInv, Types, TypeOK, Locker
<1>3. /\ y.todo = x.todo \ {t} /\ y.at = t /\ y.units = units /\ y.pc = pc /\ y.id = x.id
      /\ y \in CallerState
  <2> HIDE DEF x, units
  <2> QED
    BY <1>1, <1>2 DEF CallerState, CallerPC
<1> HIDE DEF y
<1>4. Working(y, l, lockers, acked, raced)
  BY <1>1, <1>3 DEF Working
<1> QED
  BY <1>1, <1>3, <1>4, CallerMoves DEF Links

LEMMA LookupInv ==
  ASSUME IInv, NEW c \in Caller, Lookup(c)
  PROVE  IInv'
<1> DEFINE x == caller[c]
           map == locker[x.at].reconsumeMap
           y == [x EXCEPT !.pc = "link", !.map = map]
<1>1. /\ x \in CallerState /\ Working(x, locker[x.at], lockers, acked, raced)
      /\ x.pc = "lookup" /\ caller' = [caller EXCEPT ![c] = y]
      /\ UNCHANGED <<lockers, locker, waiter, historyVars>>
  BY CallerType DEF Lookup, At, IInv, Types
<1>2. map \in SUBSET MsgId
  BY <1>1 DEF Working, IInv, Types, TypeOK, Locker
<1>3. /\ y.todo = x.todo /\ y.at = x.at /\ y.units = x.units /\ y.pc = "link" /\ y.id = x.id
      /\ y.map = map /\ y \in CallerState
  <2> HIDE DEF x, map
  <2> QED
    BY <1>1, <1>2 DEF CallerState, CallerPC
<1> HIDE DEF y
<1>4. Working(y, locker[y.at], lockers, acked, raced)
  BY <1>1, <1>3 DEF Working
<1>5. caller[c].pc # "notify"
  BY <1>1
<1>6. \A u \in Thread : Links(caller[c], u) => Links(y, u) /\ y.id = caller[c].id
  BY <1>1, <1>3 DEF Links
<1> QED
  BY <1>1, <1>3, <1>4, <1>5, <1>6, CallerMoves

LEMMA SizeInv ==
  ASSUME IInv, NEW c \in Caller, Size(c)
  PROVE  IInv'
<1> DEFINE x == caller[c]
           l == locker[x.at]
           y == [x EXCEPT !.pc = "scan", !.pos = 1, !.verdict = "CONSUME_SUCCESS"]
<1>1. /\ x \in CallerState /\ Working(x, l, lockers, acked, raced)
      /\ x.pc = "size" /\ x.at \in lockers
      /\ UNCHANGED <<lockers, locker, waiter, historyVars>>
  BY CallerType DEF Size, At, Working
<1>2. CASE HasMsg(l)
  <2>1. caller' = [caller EXCEPT ![c] = Left(x)]
    BY <1>2 DEF Size, Leave, Left
  <2>2. Left(x) \in CallerState /\ Working(Left(x), locker[Left(x).at], lockers, acked, raced)
    BY <1>1, LeftWorks
  <2> QED
    BY <1>1, <2>1, <2>2, CallerMoves DEF Links
<1>3. CASE ~HasMsg(l)
  <2>1. caller' = [caller EXCEPT ![c] = y]
    BY <1>3 DEF Size, IInv, Types
  <2>2. /\ y.todo = x.todo /\ y.at = x.at /\ y.pc = "scan" /\ y.pos = 1 /\ y.id = x.id
        /\ y \in CallerState
    <3> HIDE DEF x
    <3> QED
      BY <1>1 DEF CallerState, CallerPC, ConsumeStatus
  <2>3. l.msgs \in Seq(MsgId) /\ l.msgs # <<>>
    BY <1>1 DEF IInv, Types, TypeOK, Locker, Waits
  <2>4. 1 \in DOMAIN l.msgs
    BY <2>3, LenProperties, EmptySeq
  <2> HIDE DEF y
  <2>5. Working(y, l, lockers, acked, raced)
    BY <1>1, <1>3, <2>2, <2>4 DEF Working, Seen
  <2> QED
    BY <1>1, <2>1, <2>2, <2>5, CallerMoves DEF Links
<1> QED
  BY <1>2, <1>3

LEMMA ScanInv ==
  ASSUME IInv, NEW c \in Caller, Scan(c)
  PROVE  IInv'
<1> DEFINE x == caller[c]
           l == locker[x.at]
           i == x.pos
           verdict == IF l.statusMap[i] = "RECONSUME_LATER" THEN "RECONSUME_LATER" ELSE x.verdict
           pc == IF i = Len(l.msgs) THEN "publish" ELSE "scan"
           y == [x EXCEPT !.verdict = verdict, !.pos = i + 1, !.pc = pc]
<1>1. /\ x \in CallerState /\ Working(x, l, lockers, acked, raced)
      /\ x.pc = "scan" /\ x.at \in lockers /\ x.at \in Thread
      /\ UNCHANGED <<lockers, locker, waiter, historyVars>>
  BY CallerType DEF Scan, At, Working
<1>2. CASE l.clientStatusMap[i] # "MSG_CONSUME_ACK"
  <2>1. caller' = [caller EXCEPT ![c] = Left(x)]
    BY <1>2 DEF Scan, Leave, Left
  <2>2. Left(x) \in CallerState /\ Working(Left(x), locker[Left(x).at], lockers, acked, raced)
    BY <1>1, LeftWorks
  <2> QED
    BY <1>1, <2>1, <2>2, CallerMoves DEF Links
<1>3. CASE l.clientStatusMap[i] = "MSG_CONSUME_ACK"
  <2>1. caller' = [caller EXCEPT ![c] = y]
    BY <1>3 DEF Scan, IInv, Types
  <2>2. /\ i \in DOMAIN l.msgs /\ DOMAIN l.msgs = 1..Len(l.msgs) /\ Len(l.msgs) \in Nat
        /\ verdict \in ConsumeStatus /\ ~HasMsg(l)
        /\ Seen(l, x.verdict, 1..(i - 1), acked)
    BY <1>1, LenProperties DEF Working, IInv, Types, TypeOK, Locker, CallerState, ConsumeStatus
  <2>3. /\ y.todo = x.todo /\ y.at = x.at /\ y.pc = pc /\ y.pos = i + 1 /\ y.id = x.id
        /\ y.verdict = verdict /\ y \in CallerState
    <3>1. x.pos + 1 \in Nat /\ pc \in CallerPC
      BY <1>1 DEF CallerState, CallerPC
    <3> DEFINE next == x.pos + 1
    <3>2. y = [x EXCEPT !.verdict = verdict, !.pos = next, !.pc = pc]
      OBVIOUS
    <3> HIDE DEF x, verdict, pc, next, y
    <3>3. /\ y.todo = x.todo /\ y.at = x.at /\ y.pc = pc /\ y.pos = next /\ y.id = x.id
          /\ y.verdict = verdict /\ y \in CallerState
      BY <1>1, <2>2, <3>1, <3>2 DEF CallerState, next
    <3> QED
      BY <3>3 DEF next, x
  <2>4. Seen(l, verdict, 1..i, acked)
    <3>1. /\ l.statusMap[i] \in ConsumeStatus
          /\ l.statusMap[i] = "CONSUME_SUCCESS" => l.msgs[i] \in acked
      BY <1>1, <2>2, ElementOfSeq, LenProperties
      DEF IInv, Types, TypeOK, Locker, Records, Recorded
    <3>2. verdict = "CONSUME_SUCCESS" => l.msgs[i] \in acked /\ x.verdict = "CONSUME_SUCCESS"
      BY <3>1 DEF ConsumeStatus
    <3> HIDE DEF verdict
    <3>3. \A j \in 1..i : j = i \/ j \in 1..(i - 1)
      BY <2>2
    <3> QED
      BY <1>3, <2>2, <3>2, <3>3 DEF Seen
  <2> HIDE DEF y, verdict
  <2>5. Working(y, l, lockers, acked, raced)
    <3>1. CASE i = Len(l.msgs)
      BY <1>1, <2>2, <2>3, <2>4, <3>1 DEF Working
    <3>2. CASE i # Len(l.msgs)
      <4>1. i + 1 \in DOMAIN l.msgs /\ (i + 1) - 1 = i
        BY <2>2, <3>2
      <4> QED
        BY <1>1, <2>2, <2>3, <2>4, <3>2, <4>1 DEF Working
    <3> QED
      BY <3>1, <3>2
  <2> QED
    BY <1>1, <2>1, <2>3, <2>5, CallerMoves DEF Links
<1> QED
  BY <1>2, <1>3

LEMMA GetMsgInv ==
  ASSUME IInv, NEW t \in Thread, GetMsgAt(t)
  PROVE  IInv'
<1> DEFINE x == caller[Matcher]
           l == locker[t]
<1>1. /\ Matcher \in Caller /\ x \in CallerState /\ Working(x, locker[x.at], lockers, acked, raced)
      /\ x.pc = "getMsg" /\ t \in x.todo /\ MtxFree(t) /\ l \in Locker
      /\ UNCHANGED <<lockers, waiter, woken, raced, acked, consumed>>
  BY CallerType DEF GetMsgAt, historyVars, Caller, IInv, Types, TypeOK
<1>2. CASE HasMsg(l)
  <2> DEFINE k == GetMsg(l)
             y == IdleCaller
  <2>1. /\ caller' = [caller EXCEPT ![Matcher] = y]
        /\ locker' = [locker EXCEPT ![t] = k]
    BY <1>2 DEF GetMsgAt, UnlockShared
  <2>2. k \in Locker /\ k = [l EXCEPT !.fetchedArr = Tail(@)]
    <3>1. l.fetchedArr \in Seq(Nat) /\ l.fetchedArr # <<>>
      BY <1>1, <1>2 DEF Locker, HasMsg
    <3>2. Tail(l.fetchedArr) \in Seq(Nat)
      BY <3>1, HeadTailProperties
    <3> HIDE DEF l
    <3> QED
      BY <1>1, <3>2 DEF Locker, GetMsg
  <2>3. /\ k.msgs = l.msgs /\ k.clientStatusMap = l.clientStatusMap
        /\ k.statusMap = l.statusMap /\ k.reconsumeMap = l.reconsumeMap
        /\ k.status = l.status /\ k.clientStatus = l.clientStatus
    <3> HIDE DEF l
    <3> QED
      BY <1>1 DEF GetMsg, Locker
  <2>4. y \in CallerState /\ y.pc = "idle" /\ \A m : Working(y, m, lockers, acked, raced)
    BY <1>1, CallerType DEF IdleCaller, Working
  <2> HIDE DEF k, y
  <2>5. /\ locker' \in [Thread -> Locker]
        /\ \A u \in Thread : locker'[u] = IF u = t THEN k ELSE locker[u]
    BY <2>1, <2>2 DEF IInv, Types, TypeOK
  <2>6. ASSUME NEW u \in Thread
        PROVE  Pending(u) \subseteq Pending(u)'
    BY <1>1, <2>1 DEF Pending, Links, IInv, Types
  <2>7. ASSUME NEW u \in Thread
        PROVE  /\ Later(locker[u], locker'[u], raced')
               /\ Recorded(locker'[u], acked', raced', Pending(u)')
    <3>1. Recorded(locker[u], acked, raced, Pending(u)')
      BY <2>6, RecordedMore DEF IInv, Records
    <3>2. CASE u = t
      <4>1. l.clientStatus # "MSG_CONSUME_ACK"
        BY <1>2, <3>1, <3>2 DEF Recorded
      <4> QED
        BY <1>1, <1>2, <2>3, <2>5, <3>1, <3>2, <4>1 DEF Recorded, Later
    <3>3. CASE u # t
      BY <1>1, <2>5, <3>1, <3>3 DEF Later
    <3> QED
      BY <3>2, <3>3
  <2>8. ASSUME NEW u \in Thread
        PROVE  /\ HasMsg(locker[u]) /\ ~MtxFree(u) => HasMsg(locker'[u])
               /\ locker'[u].clientStatus = locker[u].clientStatus
    BY <1>1, <2>3, <2>5
  <2>9. /\ acked \subseteq acked' /\ acked' \subseteq MsgId
        /\ raced \subseteq raced' /\ raced' \subseteq MsgId
        /\ Working(y, locker'[y.at], lockers, acked', raced')
    BY <1>1, <2>4 DEF IInv, Types, TypeOK
  <2>10. x.pc # "notify"
    BY <1>1
  <2> HIDE DEF l
  <2> QED
    BY <1>1, <2>1, <2>4, <2>5, <2>7, <2>8, <2>9, <2>10, CallerKeeps
<1>3. CASE ~HasMsg(l)
  <2> DEFINE rest == x.todo \ {t}
             y == [x EXCEPT !.todo = rest]
  <2>1. /\ caller' = [caller EXCEPT ![Matcher] = y]
        /\ UNCHANGED <<lockers, locker, waiter, historyVars>>
    BY <1>1, <1>3 DEF GetMsgAt, IInv, Types
  <2>2. y.pc = "getMsg" /\ y.at = x.at /\ y.todo = rest /\ y \in CallerState
    <3>1. rest \in SUBSET Thread
      BY <1>1 DEF CallerState
    <3> HIDE DEF x, rest
    <3> QED
      BY <1>1, <3>1 DEF CallerState
  <2> HIDE DEF y
  <2>3. Working(y, locker[y.at], lockers, acked, raced)
    BY <1>1, <2>2 DEF Working
  <2> QED
    BY <1>1, <2>1, <2>2, <2>3, CallerMoves DEF Links
<1> QED
  BY <1>2, <1>3

\* A step of caller c, to y, that makes its locker k.
LEMMA CallerWorks ==
  ASSUME IInv, NEW c \in Caller, NEW y \in CallerState, NEW k \in Locker, NEW t \in Thread,
         caller[c].pc \notin {"idle", "getMsg", "visit", "notify"},
         t = caller[c].at, t = y.at,
         caller' = [caller EXCEPT ![c] = y], locker' = [locker EXCEPT ![t] = k],
         UNCHANGED <<lockers, waiter, woken, consumed>>,
         acked \subseteq acked', acked' \subseteq MsgId,
         raced \subseteq raced', raced' \subseteq MsgId,
         Later(locker[t], k, raced'), k.fetchedArr = locker[t].fetchedArr,
         k.clientStatus # locker[t].clientStatus => y.pc = "notify",
         Recorded(k, acked', raced', Pending(t)'),
         Working(y, k, lockers, acked', raced')
  PROVE  IInv'
<1>1. \A d \in Caller : caller'[d] = IF d = c THEN y ELSE caller[d]
  BY DEF IInv, Types
<1>2. /\ locker' \in [Thread -> Locker]
      /\ \A u \in Thread : locker'[u] = IF u = t THEN k ELSE locker[u]
  BY DEF IInv, Types, TypeOK
<1>3. ASSUME NEW u \in Thread
      PROVE  /\ Later(locker[u], locker'[u], raced')
             /\ Recorded(locker'[u], acked', raced', Pending(u)')
  <2>1. CASE u = t
    BY <1>2, <2>1
  <2>2. CASE u # t
    <3>1. Pending(u) \subseteq Pending(u)'
      BY <1>1, <2>2 DEF Pending, Links
    <3>2. Recorded(locker[u], acked, raced, Pending(u))
      BY DEF IInv, Records
    <3>3. Recorded(locker[u], acked', raced', Pending(u)')
      BY <3>1, <3>2, RecordedMore
    <3> QED
      BY <1>2, <2>2, <3>3 DEF Later
  <2> QED
    BY <2>1, <2>2
<1>4. ASSUME NEW u \in Thread
      PROVE  /\ HasMsg(locker[u]) /\ ~MtxFree(u) => HasMsg(locker'[u])
             /\ locker'[u].clientStatus # locker[u].clientStatus =>
                  y.pc = "notify" /\ y.at = u
  BY <1>2 DEF HasMsg
<1>5. Working(y, locker'[y.at], lockers, acked', raced')
  BY <1>2
<1> QED
  BY <1>2, <1>3, <1>4, <1>5, CallerKeeps

\* The unit a caller sets is one of its locker, and has its id.
LEMMA UnitOf ==
  ASSUME IInv, NEW c \in Caller, caller[c].pc \in {"status", "clientStatus", "lookup", "link"}
  PROVE  /\ caller[c].at \in lockers /\ caller[c].at \in Thread
         /\ locker[caller[c].at] \in Locker /\ caller[c].id \in MsgId
         /\ Unit(c) \in caller[c].units
         /\ Unit(c) \in DOMAIN locker[caller[c].at].msgs
         /\ locker[caller[c].at].msgs[Unit(c)] = caller[c].id
BY CallerType DEF Working, Units, Unit, IInv, Types, TypeOK

LEMMA PendingKept ==
  ASSUME IInv, NEW c \in Caller, NEW y, NEW t, caller' = [caller EXCEPT ![c] = y],
         Links(caller[c], t) => Links(y, t) /\ y.id = caller[c].id
  PROVE  Pending(t) \subseteq Pending(t)'
<1>1. \A d \in Caller : caller'[d] = IF d = c THEN y ELSE caller[d]
  BY DEF IInv, Types
<1> QED
  BY <1>1 DEF Pending

LEMMA SetStatusInv ==
  ASSUME IInv, NEW c \in Caller, SetStatus(c)
  PROVE  IInv'
<1>0. PICK t \in Thread : t = caller[c].at
  BY UnitOf DEF SetStatus, At
<1> DEFINE x == caller[c]
           l == locker[t]
           i == Unit(c)
           statusMap == [l.statusMap EXCEPT ![i] = x.s]
           k == [l EXCEPT !.statusMap = statusMap]
           y == [x EXCEPT !.pc = "clientStatus"]
<1>1. /\ x \in CallerState /\ Working(x, l, lockers, acked, raced) /\ x.pc = "status"
      /\ t \in Thread /\ l \in Locker /\ i \in DOMAIN l.msgs /\ l.msgs[i] = x.id
      /\ x.id \in MsgId
      /\ UNCHANGED <<lockers, waiter, woken, raced, consumed>>
      /\ acked' = IF x.s = "CONSUME_SUCCESS" THEN acked \cup {x.id} ELSE acked
  BY <1>0, CallerType, UnitOf DEF SetStatus, At
<1>2. caller' = [caller EXCEPT ![c] = y] /\ locker' = [locker EXCEPT ![t] = k]
  BY <1>0, <1>1 DEF SetStatus, Go, IInv, Types, TypeOK
<1>3. Recorded(l, acked, raced, Pending(t))
  BY <1>1 DEF IInv, Records
<1>4. /\ statusMap \in Seq(ConsumeStatus) /\ DOMAIN statusMap = DOMAIN l.msgs
      /\ \A j \in DOMAIN l.msgs : statusMap[j] = IF j = i THEN x.s ELSE l.statusMap[j]
  <2>1. l.statusMap \in Seq(ConsumeStatus) /\ DOMAIN l.statusMap = DOMAIN l.msgs
        /\ x.s \in ConsumeStatus
    BY <1>1, <1>3 DEF Locker, Recorded, CallerState
  <2> HIDE DEF l, x, i
  <2> QED
    BY <1>1, <2>1, ExceptSeq, LenProperties
<1>5. /\ k \in Locker /\ k.msgs = l.msgs /\ k.clientStatusMap = l.clientStatusMap
      /\ k.statusMap = statusMap /\ k.fetchedArr = l.fetchedArr
      /\ k.reconsumeMap = l.reconsumeMap /\ k.status = l.status
      /\ k.clientStatus = l.clientStatus
  <2> HIDE DEF l, statusMap
  <2> QED
    BY <1>1, <1>4 DEF Locker
<1>6. /\ y.pc = "clientStatus" /\ y.at = t /\ y.todo = x.todo /\ y.id = x.id /\ y.s = x.s
      /\ y.units = x.units /\ y \in CallerState
  <2>1. x.at = t
    BY <1>0
  <2> HIDE DEF x
  <2> QED
    BY <1>1, <2>1 DEF CallerState, CallerPC
<1> HIDE DEF k, y
<1>7. acked \subseteq acked' /\ acked' \subseteq MsgId /\ raced \subseteq MsgId
  BY <1>1 DEF IInv, Types, TypeOK
<1>8. Later(l, k, raced)
  BY <1>5 DEF Later, HasMsg
<1>9. Recorded(k, acked', raced, Pending(t)')
  <2>1. Pending(t) \subseteq Pending(t)'
    BY <1>1, <1>2, PendingKept DEF Links
  <2>2. Recorded(l, acked', raced, Pending(t)')
    BY <1>3, <1>7, <2>1, RecordedMore
  <2> HIDE DEF l, x, i, statusMap
  <2> QED
    BY <1>1, <1>4, <1>5, <2>2 DEF Recorded, AllAcked, HasMsg
<1>10. Working(y, k, lockers, acked', raced)
  <2>1. Units(k, x.id) = Units(l, x.id)
    BY <1>5 DEF Units
  <2>2. /\ x.todo \subseteq lockers /\ t \in lockers /\ x.units # {}
        /\ x.units \subseteq Units(l, x.id)
    BY <1>0, <1>1 DEF Working
  <2> HIDE DEF x, l
  <2> QED
    BY <1>1, <1>6, <2>1, <2>2 DEF Working
<1>11. raced' = raced /\ raced \subseteq raced'
  BY <1>1
<1>12. /\ k.clientStatus = locker[t].clientStatus /\ k.fetchedArr = locker[t].fetchedArr
       /\ Later(locker[t], k, raced') /\ Recorded(k, acked', raced', Pending(t)')
       /\ Working(y, k, lockers, acked', raced')
       /\ caller[c].pc \notin {"idle", "getMsg", "visit", "notify"}
  BY <1>1, <1>5, <1>8, <1>9, <1>10, <1>11
<1> HIDE DEF x, l
<1> QED
  BY <1>0, <1>1, <1>2, <1>5, <1>6, <1>7, <1>11, <1>12, CallerWorks

\* On to the next unit with that id, or to triggerCheck.
NextOf(x, i) == [x EXCEPT !.units = x.units \ {i},
                          !.pc = IF x.units \ {i} = {} THEN "size" ELSE "status",
                          !.map = {}]

LEMMA NextUnitWorks ==
  ASSUME NEW x \in CallerState, NEW l, NEW L, NEW A, NEW R, Working(x, l, L, A, R),
         x.pc \in {"clientStatus", "link"}, NEW i, NEW k, k.msgs = l.msgs, NEW B, NEW S
  PROVE  /\ NextOf(x, i) \in CallerState /\ NextOf(x, i).at = x.at
         /\ NextOf(x, i).pc \in {"size", "status"}
         /\ Working(NextOf(x, i), k, L, B, S)
<1> DEFINE y == NextOf(x, i)
           rest == x.units \ {i}
           pc == IF rest = {} THEN "size" ELSE "status"
<1>1. /\ y.units = rest /\ y.pc = pc /\ y.at = x.at /\ y.todo = x.todo /\ y.id = x.id
      /\ y \in CallerState
  <2>1. rest \in SUBSET Nat /\ pc \in CallerPC
    BY DEF CallerState, CallerPC
  <2>2. y = [x EXCEPT !.units = rest, !.pc = pc, !.map = {}]
    BY DEF NextOf
  <2> HIDE DEF y, rest, pc
  <2> QED
    BY <2>1, <2>2 DEF CallerState
<1>2. Units(k, x.id) = Units(l, x.id)
  BY DEF Units
<1> HIDE DEF y
<1>3. Working(y, k, L, B, S)
  BY <1>1, <1>2 DEF Working
<1> QED
  BY <1>1, <1>3 DEF y

LEMMA SetClientStatusInv ==
  ASSUME IInv, NEW c \in Caller, SetClientStatus(c)
  PROVE  IInv'
<1>0. PICK t \in Thread : t = caller[c].at
  BY UnitOf DEF SetClientStatus, At
<1> DEFINE x == caller[c]
           l == locker[t]
           i == Unit(c)
           clientStatusMap == [l.clientStatusMap EXCEPT ![i] = "MSG_CONSUME_ACK"]
           k == [l EXCEPT !.clientStatusMap = clientStatusMap]
           y == IF x.s = "RECONSUME_LATER" THEN [x EXCEPT !.pc = "lookup"] ELSE NextOf(x, i)
<1>1. /\ x \in CallerState /\ Working(x, l, lockers, acked, raced) /\ x.pc = "clientStatus"
      /\ t \in Thread /\ l \in Locker /\ i \in DOMAIN l.msgs /\ l.msgs[i] = x.id
      /\ x.id \in MsgId /\ x.at = t
      /\ UNCHANGED <<lockers, waiter, woken, acked, raced, consumed>>
  BY <1>0, CallerType, UnitOf DEF SetClientStatus, At, historyVars
<1>2. caller' = [caller EXCEPT ![c] = y] /\ locker' = [locker EXCEPT ![t] = k]
  BY <1>0, <1>1 DEF SetClientStatus, Go, NextUnit, NextOf, IInv, Types, TypeOK
<1>3. Recorded(l, acked, raced, Pending(t))
  BY <1>1 DEF IInv, Records
<1>4. /\ clientStatusMap \in Seq(ClientMsgConsumeStatus)
      /\ DOMAIN clientStatusMap = DOMAIN l.msgs
      /\ \A j \in DOMAIN l.msgs : clientStatusMap[j] =
                                     IF j = i THEN "MSG_CONSUME_ACK" ELSE l.clientStatusMap[j]
  <2>1. /\ l.clientStatusMap \in Seq(ClientMsgConsumeStatus)
        /\ DOMAIN l.clientStatusMap = DOMAIN l.msgs
        /\ "MSG_CONSUME_ACK" \in ClientMsgConsumeStatus
    BY <1>1, <1>3 DEF Locker, Recorded, ClientMsgConsumeStatus
  <2> HIDE DEF l, x, i
  <2> QED
    BY <1>1, <2>1, ExceptSeq, LenProperties
<1>5. /\ k \in Locker /\ k.msgs = l.msgs /\ k.clientStatusMap = clientStatusMap
      /\ k.statusMap = l.statusMap /\ k.fetchedArr = l.fetchedArr
      /\ k.reconsumeMap = l.reconsumeMap /\ k.status = l.status
      /\ k.clientStatus = l.clientStatus
  <2> HIDE DEF l, clientStatusMap
  <2> QED
    BY <1>1, <1>4 DEF Locker
<1> HIDE DEF k
<1>6. /\ y \in CallerState /\ y.at = t /\ Working(y, k, lockers, acked, raced)
      /\ x.id \in acked \/ (y.id = x.id /\ Links(y, t))
  <2>1. CASE x.s = "RECONSUME_LATER"
    <3>1. /\ y.todo = x.todo /\ y.at = t /\ y.pc = "lookup" /\ y.id = x.id
          /\ y.units = x.units /\ y \in CallerState
      <4>1. y = [x EXCEPT !.pc = "lookup"]
        BY <2>1
      <4> HIDE DEF x, y
      <4> QED
        BY <1>1, <4>1 DEF CallerState, CallerPC
    <3>2. Units(k, x.id) = Units(l, x.id)
      BY <1>5 DEF Units
    <3> HIDE DEF x, y, l
    <3> QED
      BY <1>1, <3>1, <3>2 DEF Working, Links
  <2>2. CASE x.s # "RECONSUME_LATER"
    <3>1. y = NextOf(x, i)
      BY <2>2
    <3>2. x.id \in acked
      BY <1>1, <2>2 DEF CallerState, ConsumeStatus, Working
    <3> HIDE DEF x, y, l, i
    <3> QED
      BY <1>1, <1>5, <3>1, <3>2, NextUnitWorks
  <2> QED
    BY <2>1, <2>2
<1> HIDE DEF y
<1>7. acked \subseteq MsgId /\ raced \subseteq MsgId
  BY DEF IInv, Types, TypeOK
<1>8. Later(l, k, raced)
  BY <1>4, <1>5 DEF Later, HasMsg
<1>9. Recorded(k, acked, raced, Pending(t)')
  <2>1. Pending(t) \subseteq Pending(t)'
    BY <1>1, <1>2, PendingKept DEF Links
  <2>2. Recorded(l, acked, raced, Pending(t)')
    BY <1>3, <2>1, RecordedMore
  <2>3. x.id \in acked \cup Pending(t)'
    BY <1>1, <1>2, <1>6 DEF Pending, IInv, Types
  <2> HIDE DEF l, x, i, clientStatusMap
  <2> QED
    BY <1>1, <1>4, <1>5, <2>2, <2>3 DEF Recorded, AllAcked, HasMsg
<1>10. /\ acked \subseteq acked' /\ acked' \subseteq MsgId
       /\ raced \subseteq raced' /\ raced' \subseteq MsgId
  BY <1>1, <1>7
<1>11. /\ k.clientStatus = locker[t].clientStatus /\ k.fetchedArr = locker[t].fetchedArr
       /\ Later(locker[t], k, raced') /\ Recorded(k, acked', raced', Pending(t)')
       /\ Working(y, k, lockers, acked', raced')
       /\ caller[c].pc \notin {"idle", "getMsg", "visit", "notify"}
  BY <1>1, <1>5, <1>6, <1>8, <1>9
<1> HIDE DEF x, l
<1> QED
  BY <1>0, <1>1, <1>2, <1>5, <1>6, <1>10, <1>11, CallerWorks

LEMMA LinkInv ==
  ASSUME IInv, NEW c \in Caller, Link(c)
  PROVE  IInv'
<1>0. PICK t \in Thread : t = caller[c].at
  BY UnitOf DEF Link, At
<1> DEFINE x == caller[c]
           l == locker[t]
           map == IF x.id \in x.map THEN l.reconsumeMap ELSE x.map \cup {x.id}
           k == [l EXCEPT !.reconsumeMap = map]
           y == NextOf(x, Unit(c))
<1>1. /\ x \in CallerState /\ Working(x, l, lockers, acked, raced) /\ x.pc = "link"
      /\ t \in Thread /\ l \in Locker /\ x.id \in MsgId /\ x.at = t
      /\ UNCHANGED <<lockers, waiter, woken, acked, consumed>>
      /\ raced' = raced \cup (l.reconsumeMap \ map)
  BY <1>0, CallerType, UnitOf DEF Link, At
<1>2. caller' = [caller EXCEPT ![c] = y] /\ locker' = [locker EXCEPT ![t] = k]
  BY <1>0, <1>1 DEF Link, NextUnit, NextOf, IInv, Types, TypeOK
<1>3. Recorded(l, acked, raced, Pending(t))
  BY <1>1 DEF IInv, Records
<1>4. /\ map \in SUBSET MsgId /\ l.reconsumeMap \subseteq MsgId
      /\ x.id \in map \cup raced
  BY <1>1 DEF CallerState, Locker, Working
<1>5. /\ k \in Locker /\ k.msgs = l.msgs /\ k.clientStatusMap = l.clientStatusMap
      /\ k.statusMap = l.statusMap /\ k.fetchedArr = l.fetchedArr
      /\ k.reconsumeMap = map /\ k.status = l.status
      /\ k.clientStatus = l.clientStatus
  <2> HIDE DEF l, map
  <2> QED
    BY <1>1, <1>4 DEF Locker
<1> HIDE DEF k
<1>6. /\ y \in CallerState /\ y.at = t
      /\ Working(y, k, lockers, acked, raced')
  <2> HIDE DEF x, l
  <2> QED
    BY <1>1, <1>5, NextUnitWorks
<1> HIDE DEF y
<1>7. /\ acked \subseteq acked' /\ acked' \subseteq MsgId
      /\ raced \subseteq raced' /\ raced' \subseteq MsgId /\ acked' = acked
      /\ l.reconsumeMap \subseteq map \cup raced'
  BY <1>1, <1>4 DEF IInv, Types, TypeOK
<1>8. Later(l, k, raced')
  BY <1>5, <1>7 DEF Later, HasMsg
<1>9. Recorded(k, acked, raced', Pending(t)')
  <2>1. Pending(t) \subseteq Pending(t)' \cup {x.id}
    <3>1. \A d \in Caller : d # c => caller'[d] = caller[d]
      BY <1>2 DEF IInv, Types
    <3> QED
      BY <3>1 DEF Pending
  <2> HIDE DEF l, x, map
  <2> QED
    BY <1>3, <1>4, <1>5, <1>7, <2>1 DEF Recorded, AllAcked, HasMsg
<1>10. /\ k.clientStatus = locker[t].clientStatus /\ k.fetchedArr = locker[t].fetchedArr
       /\ Later(locker[t], k, raced') /\ Recorded(k, acked', raced', Pending(t)')
       /\ Working(y, k, lockers, acked', raced')
       /\ caller[c].pc \notin {"idle", "getMsg", "visit", "notify"}
  BY <1>1, <1>5, <1>6, <1>7, <1>8, <1>9
<1> HIDE DEF x, l, map
<1> QED
  BY <1>0, <1>1, <1>2, <1>5, <1>6, <1>7, <1>10, CallerWorks

LEMMA PublishInv ==
  ASSUME IInv, NEW c \in Caller, Publish(c)
  PROVE  IInv'
<1>0. PICK t \in Thread : t = caller[c].at
  BY CallerType DEF Publish, At, Working
<1> DEFINE x == caller[c]
           l == locker[t]
           k == [l EXCEPT !.status = x.verdict, !.clientStatus = "MSG_CONSUME_ACK"]
           y == [x EXCEPT !.pc = "notify"]
<1>1. /\ x \in CallerState /\ Working(x, l, lockers, acked, raced) /\ x.pc = "publish"
      /\ t \in Thread /\ l \in Locker /\ x.at = t /\ x.verdict \in ConsumeStatus
      /\ UNCHANGED <<lockers, waiter, woken, acked, raced, consumed>>
  BY <1>0, CallerType DEF Publish, At, historyVars, IInv, Types, TypeOK, CallerState
<1>2. caller' = [caller EXCEPT ![c] = y] /\ locker' = [locker EXCEPT ![t] = k]
  BY <1>0, <1>1 DEF Publish, Go, IInv, Types, TypeOK
<1>3. Recorded(l, acked, raced, Pending(t))
  BY <1>1 DEF IInv, Records
<1>4. ~HasMsg(l) /\ Seen(l, x.verdict, DOMAIN l.msgs, acked) /\ x.id \in MsgId
  BY <1>1 DEF Working
<1>5. /\ k \in Locker /\ k.msgs = l.msgs /\ k.clientStatusMap = l.clientStatusMap
      /\ k.statusMap = l.statusMap /\ k.fetchedArr = l.fetchedArr
      /\ k.reconsumeMap = l.reconsumeMap /\ k.status = x.verdict
      /\ k.clientStatus = "MSG_CONSUME_ACK"
  <2> HIDE DEF l, x
  <2> QED
    BY <1>1 DEF Locker, ClientMsgConsumeStatus
<1> HIDE DEF k
<1>6. /\ y.todo = x.todo /\ y.at = t /\ y.pc = "notify" /\ y.id = x.id /\ y \in CallerState
  <2> HIDE DEF x
  <2> QED
    BY <1>1 DEF CallerState, CallerPC
<1> HIDE DEF y
<1>7. /\ acked \subseteq acked' /\ acked' \subseteq MsgId
      /\ raced \subseteq raced' /\ raced' \subseteq MsgId
      /\ acked' = acked /\ raced' = raced
  BY <1>1 DEF IInv, Types, TypeOK
<1>8. Later(l, k, raced)
  BY <1>5 DEF Later, HasMsg
<1>9. Recorded(k, acked, raced, Pending(t)')
  <2>1. Pending(t) \subseteq Pending(t)'
    BY <1>1, <1>2, PendingKept DEF Links
  <2>2. Recorded(l, acked, raced, Pending(t)')
    BY <1>3, <2>1, RecordedMore
  <2> HIDE DEF l, x
  <2> QED
    BY <1>4, <1>5, <2>2 DEF Recorded, AllAcked, HasMsg, Seen
<1>10. Working(y, k, lockers, acked, raced)
  <2>1. x.todo \subseteq lockers /\ t \in lockers
    BY <1>1 DEF Working
  <2> HIDE DEF x, l
  <2> QED
    BY <1>4, <1>5, <1>6, <2>1 DEF Working, HasMsg
<1>11. /\ k.fetchedArr = locker[t].fetchedArr
       /\ Later(locker[t], k, raced') /\ Recorded(k, acked', raced', Pending(t)')
       /\ Working(y, k, lockers, acked', raced')
       /\ caller[c].pc \notin {"idle", "getMsg", "visit", "notify"}
  BY <1>1, <1>5, <1>7, <1>8, <1>9, <1>10
<1> HIDE DEF x, l
<1> QED
  BY <1>0, <1>1, <1>2, <1>5, <1>6, <1>7, <1>11, CallerWorks

LEMMA NotifyInv ==
  ASSUME IInv, NEW c \in Caller, NotifyAll(c)
  PROVE  IInv'
<1>0. PICK t \in Thread : t = caller[c].at
  BY CallerType DEF NotifyAll, At, Working
<1> DEFINE x == caller[c]
           y == Left(x)
<1>1. /\ x \in CallerState /\ x.pc = "notify" /\ x.at = t
      /\ UNCHANGED <<lockers, locker, woken, acked, raced, consumed>>
      /\ locker[t].clientStatus = "MSG_CONSUME_ACK"
      /\ caller' = [caller EXCEPT ![c] = y]
  BY <1>0, CallerType DEF NotifyAll, At, Leave, Left, historyVars, Working
<1>2. /\ waiter' \in [Thread -> WaiterPC]
      /\ \A u \in Thread : waiter'[u] = IF u = t /\ waiter[u] = "blocked"
                                        THEN "predicate" ELSE waiter[u]
  BY <1>0 DEF NotifyAll, WaiterPC, IInv, Types, TypeOK
<1>3. y \in CallerState /\ \A k : Working(y, k, lockers, acked, raced)
  BY <1>1, CallerType, LeftWorks
<1>4. ~Links(x, t) /\ \A u : ~Links(x, u)
  BY <1>1 DEF Links
<1>5. \A d \in Caller : caller'[d] = IF d = c THEN y ELSE caller[d]
  BY <1>1 DEF IInv, Types
<1> HIDE DEF y
<1>6. Types'
  <2>1. \A d \in Caller : caller'[d].todo \subseteq lockers /\ caller'[d].at \in lockers \cup {NoThread}
    BY <1>3, <1>5 DEF IInv, Types, TypeOK, Working
  <2>2. caller' \in [Caller -> CallerState]
    BY <1>1, <1>3 DEF IInv, Types
  <2> QED
    BY <1>1, <1>2, <2>1, <2>2 DEF IInv, Types, TypeOK, CallerState
<1>7. Waits'
  BY <1>1, <1>2 DEF IInv, Waits
<1>8. Records'
  <2> SUFFICES ASSUME NEW u \in Thread
               PROVE  Recorded(locker[u], acked, raced, Pending(u)')
    BY <1>1 DEF Records
  <2>1. Pending(u) \subseteq Pending(u)'
    BY <1>1, <1>4, PendingKept
  <2> QED
    BY <2>1, RecordedMore DEF IInv, Records
<1>9. Works'
  BY <1>1, <1>3, <1>5 DEF IInv, Works
<1>10. Begins'
  BY <1>1, <1>2 DEF IInv, Begins
<1>11. NoLostNotify'
  <2> SUFFICES ASSUME NEW u \in Thread, waiter'[u] \in {"wait", "blocked"},
                      locker[u].clientStatus = "MSG_CONSUME_ACK", u \notin woken
               PROVE  \E d \in Caller : caller'[d].pc = "notify" /\ caller'[d].at = u
    BY <1>1 DEF NoLostNotify
  <2>1. CASE u = t
    <3>1. waiter[u] = "wait" /\ HasMsg(locker[u])
      BY <1>2, <2>1 DEF IInv, Begins
    <3> QED
      BY <3>1 DEF IInv, Records, Recorded
  <2>2. CASE u # t
    BY <1>1, <1>2, <1>5, <2>2 DEF IInv, NoLostNotify
  <2> QED
    BY <2>1, <2>2
<1>12. NoSilentLoss'
  BY <1>1 DEF IInv, NoSilentLoss
<1> QED
  BY <1>6, <1>7, <1>8, <1>9, <1>10, <1>11, <1>12 DEF IInv

-----------------------------------------------------------------------------
(* The callback threads.                                                    *)

\* A thread goes on in cv.wait.
LEMMA WaitInv ==
  ASSUME IInv, NEW t \in Thread, Predicate(t) \/ Block(t) \/ SpuriousWakeup(t)
  PROVE  IInv'
<1> DEFINE to == waiter'[t]
<1>1. /\ waiter[t] \in {"predicate", "wait", "blocked"}
      /\ waiter' \in [Thread -> WaiterPC]
      /\ waiter'[t] \in {"predicate", "wait", "blocked", "erase"}
      /\ \A u \in Thread : u # t => waiter'[u] = waiter[u]
      /\ UNCHANGED <<lockers, locker, caller, raced, acked, consumed>>
      /\ woken \subseteq woken' /\ woken' \subseteq Thread
      /\ waiter'[t] = "predicate" => t \in woken'
      /\ waiter'[t] = "wait" => waiter[t] = "predicate" /\ locker[t].clientStatus # "MSG_CONSUME_ACK"
      /\ waiter'[t] = "erase" => locker[t].clientStatus = "MSG_CONSUME_ACK"
      /\ waiter'[t] = "blocked" => waiter[t] = "wait"
  BY DEF Predicate, Block, SpuriousWakeup, Move, historyVars, WaiterPC, IInv, Types, TypeOK
<1>2. Types'
  BY <1>1 DEF IInv, Types, TypeOK
<1>3. Waits'
  BY <1>1 DEF IInv, Waits
<1>4. Records' /\ Works' /\ NoSilentLoss'
  BY <1>1 DEF IInv, Records, Works, NoSilentLoss, Pending
<1>5. Begins'
  BY <1>1 DEF IInv, Begins
<1>6. NoLostNotify'
  BY <1>1 DEF IInv, NoLostNotify
<1> QED
  BY <1>2, <1>3, <1>4, <1>5, <1>6 DEF IInv

LEMMA WaitLockInv ==
  ASSUME IInv, NEW t \in Thread, NEW b \in Batches, WaitLock(t, b)
  PROVE  IInv'
<1> DEFINE k == NewLocker(b)
<1>1. /\ waiter[t] = "none" /\ Unshared
      /\ waiter' \in [Thread -> WaiterPC]
      /\ \A u \in Thread : waiter'[u] = IF u = t THEN "predicate" ELSE waiter[u]
      /\ lockers' = lockers \cup {t}
      /\ locker' = [locker EXCEPT ![t] = k]
      /\ UNCHANGED <<caller, woken, raced, acked, consumed>>
  BY DEF WaitLock, Move, historyVars, WaiterPC, IInv, Types, TypeOK
<1>2. b \in Seq(MsgId) \ {<<>>} /\ k \in Locker
  BY BatchAssumption, NewLockerAccounted
<1>3. /\ k.msgs = b /\ DOMAIN k.clientStatusMap = DOMAIN b /\ DOMAIN k.statusMap = DOMAIN b
      /\ \A i \in DOMAIN b : /\ k.clientStatusMap[i] = "MSG_FETCH_FROM_BROKER"
                             /\ k.statusMap[i] = "RECONSUME_LATER"
      /\ k.clientStatus = "MSG_FETCH_FROM_BROKER"
      /\ k.fetchedArr = [i \in DOMAIN b |-> i]
  BY DEF NewLocker
<1>4. HasMsg(k)
  <2>1. DOMAIN b = 1..Len(b) /\ Len(b) \in Nat /\ Len(b) # 0
    BY <1>2, LenProperties, EmptySeq
  <2>2. 1 \in DOMAIN k.fetchedArr
    BY <1>3, <2>1
  <2> HIDE DEF k
  <2> QED
    BY <2>2, EmptySeq DEF HasMsg
<1> HIDE DEF k
<1>5. /\ locker' \in [Thread -> Locker]
      /\ \A u \in Thread : locker'[u] = IF u = t THEN k ELSE locker[u]
  BY <1>1, <1>2 DEF IInv, Types, TypeOK
<1>6. /\ \A c \in Caller : caller[c].pc = "idle" /\ caller[c].todo = {} /\ caller[c].at = NoThread
      /\ \A u \in Thread : Pending(u) = {} /\ Pending(u)' = {}
  BY <1>1 DEF Unshared, IInv, Works, Working, Pending, Links
<1>7. Types'
  BY <1>1, <1>5 DEF IInv, Types, TypeOK
<1>8. Waits'
  BY <1>1, <1>2, <1>3, <1>5 DEF IInv, Waits
<1>9. Records'
  <2> SUFFICES ASSUME NEW u \in Thread
               PROVE  Recorded(locker'[u], acked, raced, {})
    BY <1>1, <1>6 DEF Records
  <2>1. CASE u = t
    BY <1>3, <1>5, <2>1 DEF Recorded
  <2>2. CASE u # t
    BY <1>5, <1>6, <2>2 DEF IInv, Records
  <2> QED
    BY <2>1, <2>2
<1>10. Works'
  BY <1>1, <1>6 DEF Works, Working
<1>11. Begins'
  BY <1>1, <1>4, <1>5 DEF IInv, Begins
<1>12. NoLostNotify'
  BY <1>1, <1>5 DEF IInv, NoLostNotify
<1>13. NoSilentLoss'
  BY <1>1 DEF IInv, NoSilentLoss
<1> QED
  BY <1>7, <1>8, <1>9, <1>10, <1>11, <1>12, <1>13 DEF IInv

LEMMA EraseLockInv ==
  ASSUME IInv, NEW t \in Thread, EraseLock(t)
  PROVE  IInv'
<1>1. /\ waiter[t] = "erase" /\ Unshared
      /\ waiter' \in [Thread -> WaiterPC]
      /\ \A u \in Thread : waiter'[u] = IF u = t THEN "return" ELSE waiter[u]
      /\ lockers' = lockers \ {t}
      /\ UNCHANGED <<locker, caller, woken, raced, acked, consumed>>
  BY DEF EraseLock, Move, historyVars, WaiterPC, IInv, Types, TypeOK
<1>2. \A c \in Caller : caller[c].pc = "idle" /\ caller[c].todo = {} /\ caller[c].at = NoThread
  BY <1>1 DEF Unshared, IInv, Works, Working
<1>3. Types'
  BY <1>1, <1>2 DEF IInv, Types, TypeOK
<1>4. Waits'
  BY <1>1 DEF IInv, Waits
<1>5. Records' /\ NoSilentLoss'
  BY <1>1 DEF IInv, Records, NoSilentLoss, Pending
<1>6. Works'
  BY <1>1, <1>2 DEF Works, Working
<1>7. Begins' /\ NoLostNotify'
  BY <1>1 DEF IInv, Begins, NoLostNotify
<1> QED
  BY <1>3, <1>4, <1>5, <1>6, <1>7 DEF IInv

\* What a settled batch reports as consumed was acknowledged, or its entry was lost.
LEMMA ReturnedAcked ==
  ASSUME NEW l, NEW A, NEW R, Recorded(l, A, R, {}), l.status \in ConsumeStatus,
         l.clientStatus = "MSG_CONSUME_ACK", NEW i \in Returned(l, "CONSUME_SUCCESS")
  PROVE  l.msgs[i] \in A \cup R
<1>1. /\ i \in DOMAIN l.msgs /\ l.clientStatusMap[i] = "MSG_CONSUME_ACK"
      /\ l.status = "RECONSUME_LATER" => l.msgs[i] \notin l.reconsumeMap
  BY DEF Returned, Verdict, Recorded, AllAcked
<1> QED
  BY <1>1 DEF Recorded, ConsumeStatus

LEMMA ReturnStatusInv ==
  ASSUME IInv, NEW t \in Thread, ReturnStatus(t)
  PROVE  IInv'
<1>1. /\ waiter[t] = "return" /\ t \notin lockers
      /\ waiter' \in [Thread -> WaiterPC]
      /\ \A u \in Thread : waiter'[u] = IF u = t THEN "none" ELSE waiter[u]
      /\ locker' = [locker EXCEPT ![t] = NoLocker]
      /\ consumed' = consumed \cup {locker[t].msgs[i] : i \in Returned(locker[t], "CONSUME_SUCCESS")}
      /\ woken' = woken \ {t}
      /\ UNCHANGED <<lockers, caller, raced, acked>>
  BY DEF ReturnStatus, Move, WaiterPC, IInv, Types, TypeOK, Waits
<1>2. /\ NoLocker \in Locker /\ DOMAIN NoLocker.msgs = {}
      /\ DOMAIN NoLocker.clientStatusMap = {} /\ DOMAIN NoLocker.statusMap = {}
      /\ NoLocker.clientStatus = "MSG_FETCH_FROM_BROKER"
  <2>1. DOMAIN <<>> = {}
    OBVIOUS
  <2> QED
    BY <2>1, NoLockerAccounted DEF NoLocker, NewLocker
<1>3. /\ locker' \in [Thread -> Locker]
      /\ \A u \in Thread : locker'[u] = IF u = t THEN NoLocker ELSE locker[u]
  BY <1>1, <1>2 DEF IInv, Types, TypeOK
<1>4. Pending(t) = {} /\ \A u \in Thread : Pending(u)' = Pending(u)
  BY <1>1 DEF Pending, Links, IInv, Works, Working
<1>5. consumed' \subseteq acked \cup raced
  <2> SUFFICES ASSUME NEW i \in Returned(locker[t], "CONSUME_SUCCESS")
               PROVE  locker[t].msgs[i] \in acked \cup raced
    BY <1>1 DEF IInv, NoSilentLoss
  <2>1. /\ Recorded(locker[t], acked, raced, {}) /\ locker[t].status \in ConsumeStatus
        /\ locker[t].clientStatus = "MSG_CONSUME_ACK"
    BY <1>1, <1>4 DEF IInv, Records, Waits, Types, TypeOK, Locker
  <2> QED
    BY <2>1, ReturnedAcked
<1>6. Types'
  BY <1>1, <1>3, <1>5 DEF IInv, Types, TypeOK
<1>7. Waits'
  BY <1>1, <1>3 DEF IInv, Waits
<1>8. Records'
  <2> SUFFICES ASSUME NEW u \in Thread
               PROVE  Recorded(locker'[u], acked, raced, Pending(u))
    BY <1>1, <1>4 DEF Records
  <2>1. CASE u = t
    BY <1>2, <1>3, <2>1 DEF Recorded
  <2>2. CASE u # t
    BY <1>3, <2>2 DEF IInv, Records
  <2> QED
    BY <2>1, <2>2
<1>9. Works'
  <2> SUFFICES ASSUME NEW c \in Caller
               PROVE  Working(caller[c], locker'[caller[c].at], lockers, acked, raced)
    BY <1>1 DEF Works
  <2> DEFINE x == caller[c]
  <2>1. x \in CallerState /\ Working(x, locker[x.at], lockers, acked, raced)
    BY DEF IInv, Types, Works
  <2>2. x.at \in lockers => locker[x.at] \in Locker /\ Later(locker[x.at], locker'[x.at], raced)
    BY <1>1, <1>3 DEF IInv, Types, TypeOK, Later
  <2> HIDE DEF x
  <2>3. Working(x, locker'[x.at], lockers, acked, raced)
    BY <2>1, <2>2, WorkingLater
  <2> QED
    BY <2>3 DEF x
<1>10. Begins' /\ NoLostNotify'
  BY <1>1, <1>3 DEF IInv, Begins, NoLostNotify
<1>11. NoSilentLoss'
  BY <1>1, <1>5 DEF NoSilentLoss
<1> QED
  BY <1>6, <1>7, <1>8, <1>9, <1>10, <1>11 DEF IInv

-----------------------------------------------------------------------------
LEMMA InitInv == Init => IInv
<1> SUFFICES ASSUME Init PROVE IInv
  OBVIOUS
<1>1. NoLocker \in Locker /\ DOMAIN NoLocker.msgs = {} /\ Recorded(NoLocker, {}, {}, {})
  <2>1. DOMAIN <<>> = {}
    OBVIOUS
  <2>2. /\ DOMAIN NoLocker.msgs = {} /\ DOMAIN NoLocker.clientStatusMap = {}
        /\ DOMAIN NoLocker.statusMap = {} /\ NoLocker.clientStatus # "MSG_CONSUME_ACK"
    BY <2>1 DEF NoLocker, NewLocker
  <2> QED
    BY <2>2, NoLockerAccounted DEF Recorded
<1>2. /\ IdleCaller \in CallerState /\ IdleCaller.pc = "idle" /\ IdleCaller.todo = {}
      /\ IdleCaller.at = NoThread
  BY DEF IdleCaller, CallerState, CallerPC, ConsumeStatus
<1>3. Types
  BY <1>1, <1>2 DEF Init, Types, TypeOK, WaiterPC, CallerState
<1>4. Waits
  BY DEF Init, Waits
<1>5. Records
  <2>1. \A t \in Thread : Pending(t) = {}
    BY <1>2 DEF Init, Pending, Links
  <2> QED
    BY <1>1, <2>1 DEF Init, Records
<1>6. Works
  BY <1>2 DEF Init, Works, Working
<1>7. Begins /\ NoLostNotify /\ NoSilentLoss
  BY DEF Init, Begins, NoLostNotify, NoSilentLoss
<1> QED
  BY <1>3, <1>4, <1>5, <1>6, <1>7 DEF IInv

LEMMA StepInv ==
  ASSUME IInv, [Next]_vars
  PROVE  IInv'
<1>1. CASE UNCHANGED vars
  <2>1. UNCHANGED <<lockers, locker, waiter, caller, woken, raced, acked, consumed>>
    BY <1>1 DEF vars, historyVars
  <2> QED
    BY <2>1 DEF IInv, Types, TypeOK, Waits, Records, Pending, Works, Begins, NoLostNotify,
                NoSilentLoss
<1>2. ASSUME NEW t \in Thread, Callback(t) \/ SpuriousWakeup(t)
      PROVE  IInv'
  BY <1>2, WaitInv, EraseLockInv, ReturnStatusInv DEF Callback
<1>3. ASSUME NEW t \in Thread, NEW b \in Batches, WaitLock(t, b)
      PROVE  IInv'
  BY <1>3, WaitLockInv
<1>4. ASSUME NEW c \in Caller, SetMsgAckStep(c)
      PROVE  IInv'
  BY <1>4, VisitInv, EnterInv, SetStatusInv, SetClientStatusInv, LookupInv, LinkInv,
     SizeInv, ScanInv, PublishInv, NotifyInv DEF SetMsgAckStep
<1>5. ASSUME NothingFound \/ \E t \in Thread : GetMsgAt(t)
      PROVE  IInv'
  BY <1>5, EnterInv, GetMsgInv DEF Caller
<1>6. ASSUME Request
      PROVE  IInv'
  <2>1. Matcher \in Caller /\ Handler \in Caller /\ "RECONSUME_LATER" \in ConsumeStatus
    BY DEF Caller, ConsumeStatus
  <2> QED
    BY <1>6, <2>1, EnterInv DEF Request
<1>7. CASE Next
  BY <1>2, <1>3, <1>4, <1>5, <1>6, <1>7 DEF Next, CallerStep
<1> QED
  BY <1>1, <1>7

\* Every state of the unit and of the threads in it satisfies the invariant.
THEOREM Invariance == Spec => []IInv
<1>1. Init => IInv
  BY InitInv
<1>2. IInv /\ [Next]_vars => IInv'
  BY StepInv
<1> QED
  BY <1>1, <1>2, PTL DEF Spec

\* The lockers, the waits of the callback threads and what the matcher and the
\* handler hold of them keep their types through every overlap of setMsgAck, getMsg
\* and waitLock.
THEOREM TypeCorrect == Spec => []TypeOK
<1>1. IInv => TypeOK
  BY DEF IInv, Types
<1> QED
  BY <1>1, Invariance, PTL

\* No message is reported to the broker as consumed that no client acknowledged with
\* success, but for those whose entry the data race on reconsumeMap lost: whatever
\* two setMsgAck do to a batch at the same time, unit by unit.
THEOREM NoLoss == Spec => []NoSilentLoss
<1>1. IInv => NoSilentLoss
  BY DEF IInv
<1> QED
  BY <1>1, Invariance, PTL

\* When a callback thread has come out of eraseLock and reads the verdict on its
\* batch, every message of it has one and no setMsgAck or getMsg is in its locker
\* or still to come to it.
THEOREM Settled == Spec => []SettledBeforeReturn
<1>1. IInv => SettledBeforeReturn
  <2> SUFFICES ASSUME IInv, NEW t \in Thread, waiter[t] = "return"
               PROVE  /\ AllAcked(locker[t]) /\ ~HasMsg(locker[t])
                      /\ \A c \in Caller : caller[c].at # t /\ t \notin caller[c].todo
    BY DEF SettledBeforeReturn
  <2>1. t \notin lockers /\ locker[t].clientStatus = "MSG_CONSUME_ACK"
    BY DEF IInv, Waits
  <2>2. AllAcked(locker[t]) /\ ~HasMsg(locker[t])
    BY <2>1 DEF IInv, Records, Recorded
  <2> QED
    BY <2>1, <2>2, CallerAssumption DEF IInv, Types, TypeOK
<1> QED
  BY <1>1, Invariance, PTL

\* The notification of a verdict, given without the mutex, is lost only on a thread
\* that had woken up for nothing in this wait: a thread on its way into cv.wait with
\* its verdict published does not exist otherwise.
THEOREM NotifyKept == Spec => []NoLostNotify
<1>1. IInv => NoLostNotify
  BY DEF IInv
<1> QED
  BY <1>1, Invariance, PTL
=============================================================================
