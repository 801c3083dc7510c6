------------------------ MODULE ShutdownConsumerProofs ------------------------
(***************************************************************************)
(* Proofs about ShutdownConsumer.tla, for any number of keys, units and    *)
(* messages: what shutdownConsumer erases is the unit it has shut down,    *)
(* and what is registered runs.  With one key, a callback that a shutdown  *)
(* waits for is announced until it is released.                            *)
(***************************************************************************)
EXTENDS ShutdownConsumer, ConsumerUnitLockerProofs

\* Each batch is that of its messages.  Who acknowledged them does not matter here.
Shaped == \A u \in Unit : Accounted(locker[u], MsgId)

\* A unit that is to be inserted runs, and is neither registered nor inserted by
\* another thread.
Inserting(p) == getter[p].pc = "insert"
InsertsOwn ==
  \A p \in Getter : Inserting(p) =>
    /\ getter[p].unit \in Unit /\ state[getter[p].unit] = "STARTED"
    /\ \A k \in Key : consumers[k] # getter[p].unit
    /\ \A q \in Getter : Inserting(q) /\ getter[q].unit = getter[p].unit => q = p

\* A unit is registered for one key, and was started.
Distinct ==
  \A k \in Key : Registered(k) =>
    /\ state[consumers[k]] # "NEW"
    /\ \A l \in Key : consumers[l] = consumers[k] => l = k

\* shutdownConsumer has a unit from its test of getIsTooInactive to erase.
ShutterHolds ==
  IF shutter.pc \in {"sleep", "visit"} THEN shutter.unit = NoUnit
  ELSE shutter.unit \in Unit /\ shutter.key \in Key

Registry == InsertsOwn /\ Distinct /\ ShutterHolds /\ ErasesOwnUnit /\ RegisteredRuns

IInv == TypeOK /\ Shaped /\ Registry

-----------------------------------------------------------------------------
(* The batches.                                                             *)

\* unlockAll acknowledges every unit of a batch, and publishes a verdict.
LEMMA UnlockShaped ==
  ASSUME NEW l \in Locker, Accounted(l, MsgId)
  PROVE  Unlock(l) \in Locker /\ Accounted(Unlock(l), MsgId)
<1> DEFINE k == [l EXCEPT
       !.statusMap       = [i \in DOMAIN l.statusMap |->
                              IF l.clientStatusMap[i] # "MSG_CONSUME_ACK"
                              THEN "RECONSUME_LATER" ELSE @[i]],
       !.clientStatusMap = [i \in DOMAIN l.clientStatusMap |-> "MSG_CONSUME_ACK"]]
<1>1. l.statusMap \in Seq(ConsumeStatus) /\ l.clientStatusMap \in Seq(ClientMsgConsumeStatus)
  BY DEF Locker
<1>2. k.statusMap \in Seq(ConsumeStatus)
  <2>1. \A i \in DOMAIN l.statusMap : l.statusMap[i] \in ConsumeStatus
    BY <1>1, ElementOfSeq, LenProperties
  <2>2. k.statusMap = [i \in DOMAIN l.statusMap |-> k.statusMap[i]]
    BY DEF Locker
  <2>3. \A i \in DOMAIN l.statusMap : k.statusMap[i] \in ConsumeStatus
    BY <2>1 DEF Locker, ConsumeStatus
  <2> HIDE DEF k
  <2> QED
    BY <1>1, <2>2, <2>3, MapSeq
<1>3. k.clientStatusMap \in Seq(ClientMsgConsumeStatus)
  <2>1. k.clientStatusMap = [i \in DOMAIN l.clientStatusMap |-> k.clientStatusMap[i]]
    BY DEF Locker
  <2>2. \A i \in DOMAIN l.clientStatusMap : k.clientStatusMap[i] \in ClientMsgConsumeStatus
    BY DEF Locker, ClientMsgConsumeStatus
  <2> HIDE DEF k
  <2> QED
    BY <1>1, <2>1, <2>2, MapSeq
<1>4. k \in Locker
  BY <1>2, <1>3 DEF Locker
<1>5. Accounted(k, MsgId)
  <2>1. \A i \in DOMAIN l.msgs : l.msgs[i] \in MsgId
    BY ElementOfSeq, LenProperties DEF Locker
  <2> QED
    BY <2>1 DEF Accounted, Locker, AllAcked
<1>6. Unlock(l) = TriggerCheck(k, TRUE)
  BY DEF Unlock
<1> QED
  BY <1>4, <1>5, <1>6, TriggerCheckAccounted

\* What the methods of a locker that are called here keep.
LEMMA LockerKept ==
  ASSUME NEW l \in Locker, Accounted(l, MsgId)
  PROVE  /\ \A id : \A s \in ConsumeStatus :
              /\ SetMsgAck(l, id, s) \in Locker
              /\ Accounted(SetMsgAck(l, id, s), MsgId)
         /\ HasMsg(l) => /\ GetMsg(l) \in Locker
                         /\ Accounted(GetMsg(l), MsgId)
                         /\ NextMsg(l) \in MsgId
         /\ Unlock(l) \in Locker /\ Accounted(Unlock(l), MsgId)
<1>1. ASSUME NEW id, NEW s \in ConsumeStatus
      PROVE  /\ SetMsgAck(l, id, s) \in Locker
             /\ Accounted(SetMsgAck(l, id, s), MsgId)
  <2>1. Units(l, id) # {} => id \in MsgId
    BY ElementOfSeq, LenProperties DEF Units, Locker
  <2> QED
    BY <2>1, SetMsgAckAccounted
<1>2. HasMsg(l) => /\ GetMsg(l) \in Locker
                   /\ Accounted(GetMsg(l), MsgId)
                   /\ NextMsg(l) \in MsgId
  BY GetMsgAccounted
<1> QED
  BY <1>1, <1>2, UnlockShaped

-----------------------------------------------------------------------------
(* The registry.                                                            *)

\* Steps that leave the registry alone and bring no unit to insert.
LEMMA RegistryUnchanged ==
  ASSUME Registry, UNCHANGED <<consumers, state, shutter>>,
         \A p \in Getter : Inserting(p)' => Inserting(p) /\ getter'[p].unit = getter[p].unit
  PROVE  Registry'
<1>1. InsertsOwn'
  BY DEF Registry, InsertsOwn, Inserting
<1>2. Distinct' /\ ShutterHolds' /\ ErasesOwnUnit' /\ RegisteredRuns'
  BY DEF Registry, Distinct, ShutterHolds, ErasesOwnUnit, RegisteredRuns, Registered
<1> QED
  BY <1>1, <1>2 DEF Registry

\* A thread that gets a unit from the registry, or is done with it, inserts nothing.
LEMMA GetterRegistry ==
  ASSUME TypeOK, Registry, UNCHANGED <<consumers, state, shutter>>, NEW p \in Getter,
         NEW g, g.pc # "insert", getter' = [getter EXCEPT ![p] = g]
  PROVE  Registry'
<1>1. \A q \in Getter : Inserting(q)' => Inserting(q) /\ getter'[q].unit = getter[q].unit
  BY DEF TypeOK, Inserting
<1> QED
  BY <1>1, RegistryUnchanged

\* The unit that is started is one that nobody refers to.
LEMMA StartRegistry ==
  ASSUME TypeOK, Registry, NEW p \in Getter, NEW u \in Unit, Start(p, u)
  PROVE  Registry'
<1>1. \A k \in Key : consumers[k] # u
  BY NoneAssumption DEF Start, Fresh, Registry, Distinct, Registered
<1>2. \A q \in Getter : Inserting(q) => getter[q].unit # u
  BY DEF Start, Fresh, Registry, InsertsOwn, Inserting, TypeOK
<1>3. /\ state' = [state EXCEPT ![u] = "STARTED"] /\ UNCHANGED <<consumers, shutter>>
      /\ getter' = [getter EXCEPT ![p].pc = "insert", ![p].unit = u]
      /\ ~Inserting(p)
  BY DEF Start, Inserting
<1>4. InsertsOwn'
  <2> SUFFICES ASSUME NEW q \in Getter, Inserting(q)'
               PROVE  /\ getter'[q].unit \in Unit /\ state'[getter'[q].unit] = "STARTED"
                      /\ \A k \in Key : consumers'[k] # getter'[q].unit
                      /\ \A r \in Getter : Inserting(r)' /\ getter'[r].unit = getter'[q].unit => r = q
    BY DEF InsertsOwn, Inserting
  <2>1. CASE q = p
    BY <1>1, <1>2, <1>3, <2>1 DEF TypeOK, Inserting
  <2>2. CASE q # p
    BY <1>1, <1>2, <1>3, <2>2 DEF TypeOK, Inserting, Registry, InsertsOwn
  <2> QED
    BY <2>1, <2>2
<1>5. Distinct' /\ RegisteredRuns'
  BY <1>1, <1>3 DEF Registry, Distinct, RegisteredRuns, Registered, TypeOK
<1>6. ShutterHolds' /\ ErasesOwnUnit'
  BY <1>3 DEF Registry, ShutterHolds, ErasesOwnUnit
<1> QED
  BY <1>4, <1>5, <1>6 DEF Registry

\* An entry that is there is kept; the unit of a new one is registered nowhere else.
LEMMA InsertRegistry ==
  ASSUME TypeOK, Registry, NEW p \in Getter, Insert(p)
  PROVE  Registry'
<1> DEFINE u == getter[p].unit
           k == getter[p].key
<1>1. /\ consumers' = [consumers EXCEPT ![k] = IF @ = NoUnit THEN u ELSE @]
      /\ getter' = [getter EXCEPT ![p].pc = "use"]
      /\ UNCHANGED <<state, shutter>> /\ Inserting(p)
  BY DEF Insert, Inserting, unitVars
<1>2. /\ u \in Unit /\ state[u] = "STARTED" /\ \A l \in Key : consumers[l] # u
      /\ \A q \in Getter : Inserting(q) /\ getter[q].unit = u => q = p
  BY <1>1 DEF Registry, InsertsOwn
<1>3. \A l \in Key : consumers'[l] = consumers[l] \/ (l = k /\ consumers[l] = NoUnit /\ consumers'[l] = u)
  BY <1>1 DEF TypeOK
<1>4. \A q \in Getter : Inserting(q)' => q # p /\ Inserting(q) /\ getter'[q].unit = getter[q].unit
  BY <1>1 DEF TypeOK, Inserting
<1> HIDE DEF u, k
<1>5. InsertsOwn'
  BY <1>1, <1>2, <1>3, <1>4 DEF Registry, InsertsOwn, Inserting
<1>6. Distinct'
  BY <1>1, <1>2, <1>3 DEF Registry, Distinct, Registered
<1>7. ShutterHolds' /\ ErasesOwnUnit'
  <2>1. shutter.unit # NoUnit => shutter.unit \in Unit
    BY DEF TypeOK
  <2>2. shutter.pc \in {"notify", "shutdown", "join", "erase"} =>
          shutter.key \in Key /\ shutter.unit \in Unit
    BY DEF Registry, ShutterHolds
  <2> QED
    BY <1>1, <1>3, <2>1, <2>2, NoneAssumption DEF Registry, ShutterHolds, ErasesOwnUnit
<1>8. RegisteredRuns'
  BY <1>1, <1>2, <1>3 DEF Registry, RegisteredRuns, Registered
<1> QED
  BY <1>5, <1>6, <1>7, <1>8 DEF Registry

\* shutdownConsumer.
LEMMA ShutterRegistry ==
  ASSUME TypeOK, Registry, ShutdownConsumer
  PROVE  Registry'
<1> USE DEF ShutterPC
<1>1. CASE GetAllKeys \/ LastKey
  <2>1. /\ UNCHANGED <<consumers, state, getter>>
        /\ shutter.pc \in {"sleep", "visit"} /\ shutter'.pc \in {"sleep", "visit"}
        /\ shutter'.unit = shutter.unit
    BY <1>1 DEF GetAllKeys, LastKey, unitVars, TypeOK
  <2>2. InsertsOwn' /\ Distinct'
    BY <2>1 DEF Registry, InsertsOwn, Inserting, Distinct, Registered
  <2>3. ShutterHolds' /\ ErasesOwnUnit' /\ RegisteredRuns'
    BY <2>1 DEF Registry, ShutterHolds, ErasesOwnUnit, RegisteredRuns, Registered
  <2> QED
    BY <2>2, <2>3 DEF Registry
<1>2. ASSUME NEW k \in Key, Visit(k) PROVE Registry'
  <2>1. UNCHANGED <<consumers, state, getter>> /\ shutter.pc = "visit" /\ shutter.unit = NoUnit
    BY <1>2 DEF Visit, unitVars, Registry, ShutterHolds
  <2>2. InsertsOwn' /\ Distinct'
    BY <2>1 DEF Registry, InsertsOwn, Inserting, Distinct, Registered
  <2>3. \A l \in Key : Registered(l) => state[consumers[l]] = "STARTED"
    BY <2>1 DEF Registry, RegisteredRuns
  <2>4. RegisteredRuns'
    BY <2>1, <2>3 DEF RegisteredRuns, Registered
  <2>5. ShutterHolds' /\ ErasesOwnUnit'
    BY <1>2, <2>1 DEF Visit, ShutterHolds, ErasesOwnUnit, Registered, TypeOK
  <2> QED
    BY <2>2, <2>4, <2>5 DEF Registry
<1>3. CASE Notify
  BY <1>3 DEF Notify, unitVars, TypeOK, Registry, InsertsOwn, Inserting, Distinct,
              ShutterHolds, ErasesOwnUnit, RegisteredRuns, Registered
<1>4. CASE Shutdown \/ Join
  <2>1. PICK s \in {"STOPPING", "STOPPED"}, pc \in {"join", "erase"} :
          /\ state' = [state EXCEPT ![shutter.unit] = s]
          /\ shutter' = [shutter EXCEPT !.pc = pc]
          /\ UNCHANGED <<consumers, getter>>
    BY <1>4 DEF Shutdown, Join
  <2>2. /\ shutter.pc \in {"shutdown", "join"} /\ shutter.unit \in Unit /\ shutter.key \in Key
        /\ consumers[shutter.key] = shutter.unit
    BY <1>4 DEF Shutdown, Join, Registry, ShutterHolds, ErasesOwnUnit
  <2>3. shutter'.pc = pc /\ shutter'.unit = shutter.unit /\ shutter'.key = shutter.key
    BY <2>1 DEF TypeOK
  <2>4. InsertsOwn'
    BY <2>1, <2>2 DEF TypeOK, Registry, InsertsOwn, Inserting
  <2>5. Distinct' /\ ShutterHolds' /\ ErasesOwnUnit'
    BY <2>1, <2>2, <2>3 DEF TypeOK, Registry, Distinct, Registered, ShutterHolds, ErasesOwnUnit
  <2>6. RegisteredRuns'
    <3> SUFFICES ASSUME NEW k \in Key, consumers[k] # NoUnit
                 PROVE  \/ state'[consumers[k]] = "STARTED"
                        \/ shutter'.unit = consumers[k] /\ shutter'.pc \in {"join", "erase"}
      BY <2>1 DEF RegisteredRuns, Registered
    <3>1. CASE consumers[k] = shutter.unit
      BY <2>3, <3>1
    <3>2. CASE consumers[k] # shutter.unit
      BY <2>1, <2>2, <3>2 DEF TypeOK, Registry, RegisteredRuns, Registered
    <3> QED
      BY <3>1, <3>2
  <2> QED
    BY <2>4, <2>5, <2>6 DEF Registry
<1>5. CASE Erase
  <2>1. /\ consumers' = [consumers EXCEPT ![shutter.key] = NoUnit]
        /\ shutter' = [shutter EXCEPT !.pc = "visit", !.key = NoKey, !.unit = NoUnit]
        /\ UNCHANGED <<state, getter>>
        /\ shutter.pc = "erase"
    BY <1>5 DEF Erase, unitVars
  <2>2. /\ shutter.key \in Key /\ shutter.unit \in Unit
        /\ consumers[shutter.key] = shutter.unit
    BY <2>1 DEF Registry, ShutterHolds, ErasesOwnUnit
  <2>3. shutter'.pc = "visit" /\ shutter'.unit = NoUnit
    BY <2>1 DEF TypeOK
  <2>4. \A k \in Key : consumers'[k] = IF k = shutter.key THEN NoUnit ELSE consumers[k]
    BY <2>1, <2>2 DEF TypeOK
  <2>5. \A k \in Key : k # shutter.key => consumers[k] # shutter.unit
    BY <2>2, NoneAssumption DEF Registry, Distinct, Registered
  <2>6. InsertsOwn'
    BY <2>1, <2>4, NoneAssumption DEF Registry, InsertsOwn, Inserting
  <2>7. Distinct' /\ ShutterHolds' /\ ErasesOwnUnit'
    BY <2>1, <2>3, <2>4 DEF Registry, Distinct, Registered, ShutterHolds, ErasesOwnUnit
  <2>8. RegisteredRuns'
    BY <2>1, <2>4, <2>5 DEF Registry, RegisteredRuns, Registered
  <2> QED
    BY <2>6, <2>7, <2>8 DEF Registry
<1> QED
  BY <1>1, <1>2, <1>3, <1>4, <1>5 DEF ShutdownConsumer

-----------------------------------------------------------------------------
(* Types, and the shape of the batches.                                     *)

Typed == TypeOK /\ Shaped

LEMMA Active ==
  ASSUME TypeOK, NEW k \in Key, ResetConsumerActive(k)
  PROVE  inactive' \in [Unit -> BOOLEAN]
BY DEF ResetConsumerActive, Registered, TypeOK

\* A batch is replaced by another one, and its callback thread may be woken.
LEMMA LockerTyped ==
  ASSUME Typed, NEW u \in Unit, NEW l \in Locker, Accounted(l, MsgId),
         locker' = [locker EXCEPT ![u] = l]
  PROVE  locker' \in [Unit -> Locker] /\ Shaped'
BY DEF Typed, TypeOK, Shaped

LEMMA UpdateTyped ==
  ASSUME Typed, NEW u \in Unit, NEW l \in Locker, Accounted(l, MsgId), Update(u, l)
  PROVE  locker' \in [Unit -> Locker] /\ Shaped' /\ waiter' \in [Unit -> WaiterPC]
<1>1. locker' = [locker EXCEPT ![u] = l]
  BY DEF Update
<1>2. waiter' \in [Unit -> WaiterPC]
  BY DEF Update, Typed, TypeOK, WaiterPC
<1> QED
  BY <1>1, <1>2, LockerTyped

\* The matcher or the handler calls getConsumer.
LEMMA TryGetTyped ==
  ASSUME TypeOK, NEW p \in Getter, NEW k \in Key, NEW job \in Job, TryGet(p, k, job)
  PROVE  /\ getter' \in [Getter -> [pc : GetterPC, key : Key \cup {NoKey},
                                    unit : Unit \cup {NoUnit}, job : Job,
                                    msg : MsgId \cup {NoMsg}]]
         /\ \A q \in Getter : getter'[q].pc = "use" => getter'[q].unit # NoUnit
<1> DEFINE g == [pc |-> IF Registered(k) THEN "use" ELSE "start", key |-> k,
                 unit |-> consumers[k], job |-> job, msg |-> request[k].msg]
<1>1. getter' = [getter EXCEPT ![p] = g]
  BY DEF TryGet
<1>2. g \in [pc : GetterPC, key : Key \cup {NoKey}, unit : Unit \cup {NoUnit}, job : Job,
             msg : MsgId \cup {NoMsg}]
  BY DEF TypeOK, GetterPC
<1>3. g.pc = "use" => g.unit # NoUnit
  BY DEF Registered
<1> HIDE DEF g
<1> QED
  BY <1>1, <1>2, <1>3 DEF TypeOK

LEMMA GetterTyped ==
  ASSUME Typed, Registry, NEW p \in Getter, GetConsumer(p)
  PROVE  Typed'
<1> DEFINE G == [pc : GetterPC, key : Key \cup {NoKey}, unit : Unit \cup {NoUnit}, job : Job,
                 msg : MsgId \cup {NoMsg}]
<1>1. ASSUME NEW u \in Unit, Start(p, u) PROVE Typed'
  <2>1. state' \in [Unit -> UnitState] /\ inactive' \in [Unit -> BOOLEAN]
    BY <1>1 DEF Start, UnitState, Typed, TypeOK
  <2>2. [getter[p] EXCEPT !.pc = "insert", !.unit = u] \in G
    <3>1. getter[p] \in G
      BY DEF Typed, TypeOK
    <3>2. "insert" \in GetterPC
      BY DEF GetterPC
    <3> QED
      BY <3>1, <3>2
  <2>3. getter' = [getter EXCEPT ![p] = [getter[p] EXCEPT !.pc = "insert", !.unit = u]]
    BY <1>1 DEF Start, Typed, TypeOK
  <2>4. getter' \in [Getter -> G] /\ \A q \in Getter : getter'[q].pc = "use" => getter'[q].unit # NoUnit
    <3> DEFINE g == [getter[p] EXCEPT !.pc = "insert", !.unit = u]
    <3>1. getter \in [Getter -> G] /\ \A q \in Getter : getter[q].pc = "use" => getter[q].unit # NoUnit
      BY DEF Typed, TypeOK
    <3>2. g.pc = "insert"
      BY <3>1
    <3>3. g \in G /\ getter' = [getter EXCEPT ![p] = g]
      BY <2>2, <2>3
    <3> HIDE DEF g, G
    <3> QED
      BY <3>1, <3>2, <3>3
  <2>5. /\ consumers' = consumers /\ locker' = locker /\ waiter' = waiter /\ request' = request
        /\ clearConsumerKey' = clearConsumerKey /\ shutter' = shutter /\ clearer' = clearer
    BY <1>1 DEF Start
  <2>6. TypeOK'
    BY <2>1, <2>4, <2>5 DEF Typed, TypeOK
  <2>7. Shaped'
    BY <2>5 DEF Typed, Shaped
  <2> QED
    BY <2>6, <2>7, Zenon DEF Typed
<1>2. CASE StartFails(p)
  BY <1>2 DEF StartFails, unitVars, Shaped, Typed, TypeOK, GetterPC
<1>3. CASE Insert(p)
  <2>1. getter[p].unit \in Unit
    BY <1>3 DEF Insert, Registry, InsertsOwn, Inserting
  <2>2. consumers' \in [Key -> Unit \cup {NoUnit}]
    BY <1>3, <2>1 DEF Insert, Typed, TypeOK
  <2>3. getter' \in [Getter -> G] /\ \A q \in Getter : getter'[q].pc = "use" => getter'[q].unit # NoUnit
    <3> DEFINE g == [getter[p] EXCEPT !.pc = "use"]
    <3>1. getter \in [Getter -> G] /\ \A q \in Getter : getter[q].pc = "use" => getter[q].unit # NoUnit
      BY DEF Typed, TypeOK
    <3>2. getter[p] \in G /\ "use" \in GetterPC
      BY <3>1 DEF GetterPC
    <3>3. g \in G /\ g.unit = getter[p].unit
      BY <3>2
    <3>4. g.unit # NoUnit
      BY <2>1, <3>3, NoneAssumption
    <3>5. getter' = [getter EXCEPT ![p] = g]
      BY <1>3, <3>1 DEF Insert
    <3> HIDE DEF g, G
    <3> QED
      BY <3>1, <3>3, <3>4, <3>5
  <2> QED
    BY <1>3, <2>2, <2>3 DEF Insert, unitVars, Typed, TypeOK, Shaped
<1> QED
  BY <1>1, <1>2, <1>3 DEF GetConsumer

\* loopMatch, process of an ack, and cancel of a consume call, to getConsumer.
LEMMA CallTyped ==
  ASSUME Typed, NEW k \in Key, Match(k) \/ Cancel(k) \/ \E s \in HandlerJob : Ack(k, s)
  PROVE  Typed'
<1>1. CASE Match(k) \/ Cancel(k)
  <2>1. PICK p \in Getter, job \in Job : TryGet(p, k, job)
    BY <1>1 DEF Match, Cancel, Getter, Job
  <2>2. UNCHANGED <<consumers, unitVars, request, clearConsumerKey, shutter, clearer>>
    BY <1>1 DEF Match, Cancel
  <2> QED
    BY <2>1, <2>2, TryGetTyped DEF Typed, TypeOK, Shaped, unitVars
<1>2. ASSUME NEW s \in HandlerJob, Ack(k, s) PROVE Typed'
  <2>1. /\ TryGet(Handler, k, s) /\ s \in Job /\ Handler \in Getter
        /\ UNCHANGED <<consumers, state, locker, waiter, request, clearConsumerKey, shutter, clearer>>
    BY <1>2 DEF Ack, Getter, Job
  <2>2. inactive' \in [Unit -> BOOLEAN]
    BY <1>2, Active DEF Ack, Typed
  <2> QED
    BY <2>1, <2>2, TryGetTyped DEF Typed, TypeOK, Shaped
<1> QED
  BY <1>1, <1>2

\* A callback thread.
LEMMA CallbackTyped ==
  ASSUME Typed, NEW u \in Unit, Callback(u) \/ \E m \in MsgId : WaitLock(u, m)
  PROVE  Typed'
<1>1. CASE Predicate(u) \/ Block(u)
  BY <1>1 DEF Predicate, Block, Typed, TypeOK, Shaped, WaiterPC
<1>2. CASE ReturnStatus(u)
  <2>1. NoLocker \in Locker /\ Accounted(NoLocker, MsgId)
    BY NoLockerAccounted
  <2>2. locker' \in [Unit -> Locker] /\ Shaped'
    BY <1>2, <2>1, LockerTyped DEF ReturnStatus
  <2> QED
    BY <1>2, <2>2 DEF ReturnStatus, Typed, TypeOK, WaiterPC
<1>3. ASSUME NEW m \in MsgId, WaitLock(u, m) PROVE Typed'
  <2>1. <<m>> \in Seq(MsgId) \ {<<>>}
    OBVIOUS
  <2>2. NewLocker(<<m>>) \in Locker /\ Accounted(NewLocker(<<m>>), MsgId)
    BY <2>1, NewLockerAccounted
  <2>3. locker' \in [Unit -> Locker] /\ Shaped'
    BY <1>3, <2>2, LockerTyped DEF WaitLock
  <2> QED
    BY <1>3, <2>3 DEF WaitLock, Typed, TypeOK, WaiterPC
<1> QED
  BY <1>1, <1>2, <1>3 DEF Callback

\* The thread is done with what it called getConsumer for.
LEMMA DoneTyped ==
  ASSUME TypeOK, NEW p \in Getter, Done(p)
  PROVE  /\ getter' \in [Getter -> [pc : GetterPC, key : Key \cup {NoKey},
                                    unit : Unit \cup {NoUnit}, job : Job,
                                    msg : MsgId \cup {NoMsg}]]
         /\ \A q \in Getter : getter'[q].pc = "use" => getter'[q].unit # NoUnit
BY DEF TypeOK, Done, IdleGetter, GetterPC, Job

\* The unit in use is one.
LEMMA InUse ==
  ASSUME Typed, NEW p \in Getter, getter[p].pc = "use"
  PROVE  /\ getter[p].unit \in Unit
         /\ locker[getter[p].unit] \in Locker /\ Accounted(locker[getter[p].unit], MsgId)
BY DEF Typed, TypeOK, Shaped

\* What the matcher does with the unit.
LEMMA MatcherTyped ==
  ASSUME Typed, NEW k \in Key, MatcherUse(k)
  PROVE  Typed'
<1> DEFINE u == getter[Matcher].unit
<1>1. Matcher \in Getter /\ getter[Matcher].pc = "use"
  BY DEF Getter, MatcherUse, Deliver, FetchAgain, ResponseTimeOut, WatchAck, DropAcked,
         SetMsgReconsume, NotFound, Matching
<1>2. u \in Unit /\ locker[u] \in Locker /\ Accounted(locker[u], MsgId)
  BY <1>1, InUse
<1>3. ASSUME NEW pc, Deliver(k, pc) PROVE Typed'
  <2>1. /\ HasMsg(locker[u]) /\ ResetConsumerActive(k) /\ Done(Matcher)
        /\ request' = [request EXCEPT ![k] = [pc |-> "received", msg |-> NextMsg(locker[u])]]
        /\ locker' = [locker EXCEPT ![u] = GetMsg(locker[u])]
        /\ UNCHANGED <<consumers, state, waiter, clearConsumerKey, shutter, clearer>>
    BY <1>3 DEF Deliver
  <2>2. /\ GetMsg(locker[u]) \in Locker /\ Accounted(GetMsg(locker[u]), MsgId)
        /\ NextMsg(locker[u]) \in MsgId
    BY <1>2, <2>1, LockerKept
  <2>3. locker' \in [Unit -> Locker] /\ Shaped'
    BY <1>2, <2>1, <2>2, LockerTyped
  <2>4. request' \in [Key -> [pc : RequestPC, msg : MsgId \cup {NoMsg}]]
    BY <2>1, <2>2 DEF Typed, TypeOK, RequestPC
  <2>5. inactive' \in [Unit -> BOOLEAN]
    BY <2>1, Active DEF Typed
  <2> QED
    BY <1>1, <2>1, <2>3, <2>4, <2>5, DoneTyped DEF Typed, TypeOK
<1>4. CASE FetchAgain(k) \/ WatchAck(k)
  BY <1>1, <1>4, DoneTyped DEF FetchAgain, WatchAck, Typed, TypeOK, Shaped, unitVars
<1>5. CASE ResponseTimeOut(k)
  <2>1. inactive' \in [Unit -> BOOLEAN]
    BY <1>5, Active DEF ResponseTimeOut, Typed
  <2>2. request' \in [Key -> [pc : RequestPC, msg : MsgId \cup {NoMsg}]]
    BY <1>5 DEF ResponseTimeOut, NoRequest, Typed, TypeOK, RequestPC
  <2> QED
    BY <1>1, <1>5, <2>1, <2>2, DoneTyped DEF ResponseTimeOut, Typed, TypeOK, Shaped
<1>6. CASE DropAcked(k)
  <2>1. request' \in [Key -> [pc : RequestPC, msg : MsgId \cup {NoMsg}]]
    BY <1>6 DEF DropAcked, NoRequest, Typed, TypeOK, RequestPC
  <2> QED
    BY <1>1, <1>6, <2>1, DoneTyped DEF DropAcked, Typed, TypeOK, Shaped, unitVars
<1>7. CASE SetMsgReconsume(k)
  <2> DEFINE l == SetMsgAck(locker[u], request[k].msg, "RECONSUME_LATER")
  <2>1. l \in Locker /\ Accounted(l, MsgId)
    BY <1>2, LockerKept DEF ConsumeStatus
  <2>2. Update(u, l)
    BY <1>7 DEF SetMsgReconsume
  <2>3. locker' \in [Unit -> Locker] /\ Shaped' /\ waiter' \in [Unit -> WaiterPC]
    BY <1>2, <2>1, <2>2, UpdateTyped
  <2>4. request' \in [Key -> [pc : RequestPC, msg : MsgId \cup {NoMsg}]]
    BY <1>7 DEF SetMsgReconsume, NoRequest, Typed, TypeOK, RequestPC
  <2> QED
    BY <1>1, <1>7, <2>3, <2>4, DoneTyped DEF SetMsgReconsume, Typed, TypeOK
<1> QED
  BY <1>3, <1>4, <1>5, <1>6, <1>7 DEF MatcherUse

\* What the handler does with the unit.
LEMMA HandlerTyped ==
  ASSUME Typed, HandlerUse
  PROVE  Typed'
<1> DEFINE u == getter[Handler].unit
           s == IF HandlerAck THEN getter[Handler].job ELSE "RECONSUME_LATER"
           l == SetMsgAck(locker[u], getter[Handler].msg, s)
<1>1. Handler \in Getter /\ getter[Handler].pc = "use" /\ s \in ConsumeStatus
  BY DEF Getter, HandlerUse, HandlerAck, HandlerCancel, ConsumeStatus
<1>2. u \in Unit /\ locker[u] \in Locker /\ Accounted(locker[u], MsgId)
  BY <1>1, InUse
<1>3. l \in Locker /\ Accounted(l, MsgId)
  BY <1>1, <1>2, LockerKept
<1>4. Update(u, l) /\ Done(Handler)
  BY DEF HandlerUse, HandlerAck, HandlerCancel
<1>5. locker' \in [Unit -> Locker] /\ Shaped' /\ waiter' \in [Unit -> WaiterPC]
  BY <1>2, <1>3, <1>4, UpdateTyped
<1>6. request' \in [Key -> [pc : RequestPC, msg : MsgId \cup {NoMsg}]]
  BY DEF HandlerUse, HandlerAck, HandlerCancel, Typed, TypeOK, RequestPC
<1>7. UNCHANGED <<consumers, state, inactive, clearConsumerKey, shutter, clearer>>
  BY DEF HandlerUse, HandlerAck, HandlerCancel
<1> QED
  BY <1>1, <1>4, <1>5, <1>6, <1>7, DoneTyped DEF Typed, TypeOK

\* Clients and the clock.
LEMMA ClockTyped ==
  ASSUME Typed, (\E k \in Key : Consume(k) \/ Expire(k)) \/ \E u \in Unit : Inactivity(u)
  PROVE  Typed'
<1>1. ASSUME NEW k \in Key, Consume(k) \/ Expire(k) PROVE Typed'
  BY <1>1 DEF Consume, Expire, Typed, TypeOK, Shaped, unitVars, RequestPC
<1>2. ASSUME NEW u \in Unit, Inactivity(u) PROVE Typed'
  BY <1>2 DEF Inactivity, Typed, TypeOK, Shaped
<1> QED
  BY <1>1, <1>2

\* shutdownConsumer and clearMsgForConsumer.
LEMMA ShutterTyped ==
  ASSUME Typed, Registry, ShutdownConsumer
  PROVE  Typed'
<1> USE DEF ShutterPC
<1>1. CASE GetAllKeys \/ LastKey
  <2> DEFINE S == [pc : ShutterPC, keys : SUBSET Key, seen : SUBSET Key,
                   key : Key \cup {NoKey}, unit : Unit \cup {NoUnit}]
  <2>1. shutter \in S
    BY DEF Typed, TypeOK
  <2>2. shutter' \in S
    <3>1. CASE GetAllKeys
      <4> DEFINE seen == shutter.seen \cup {k \in Key : Registered(k)}
      <4>1. seen \in SUBSET Key
        BY <2>1
      <4>2. shutter' = [shutter EXCEPT !.pc = "visit", !.seen = seen, !.keys = seen]
        BY <3>1 DEF GetAllKeys
      <4> HIDE DEF seen
      <4> QED
        BY <2>1, <4>1, <4>2
    <3>2. CASE LastKey
      BY <2>1, <3>2 DEF LastKey
    <3> QED
      BY <1>1, <3>1, <3>2
  <2> QED
    BY <1>1, <2>2 DEF GetAllKeys, LastKey, unitVars, Typed, TypeOK, Shaped
<1>2. ASSUME NEW k \in Key, Visit(k) PROVE Typed'
  BY <1>2 DEF Visit, unitVars, Typed, TypeOK, Shaped
<1>3. CASE Notify
  BY <1>3 DEF Notify, unitVars, Typed, TypeOK, Shaped, Registry, ShutterHolds
<1>4. CASE Shutdown \/ Join
  BY <1>4, SMTT(30) DEF Shutdown, Join, UnitState, Typed, TypeOK, Shaped
<1>5. CASE Erase
  BY <1>5 DEF Erase, unitVars, Typed, TypeOK, Shaped
<1> QED
  BY <1>1, <1>2, <1>3, <1>4, <1>5 DEF ShutdownConsumer

LEMMA ClearerTyped ==
  ASSUME Typed, ClearMsgForConsumer
  PROVE  Typed'
<1> USE DEF ClearerPC
<1>1. CASE ReadKey \/ TryGetKey
  <2> DEFINE C == [pc : ClearerPC, key : Key \cup {NoKey}, unit : Unit \cup {NoUnit}]
  <2>1. clearer \in C /\ clearConsumerKey \in Key \cup {NoKey}
        /\ consumers \in [Key -> Unit \cup {NoUnit}]
    BY DEF Typed, TypeOK
  <2>2. clearer' \in C /\ (clearer'.pc \in {"unlock", "clear"} => clearer'.unit # NoUnit)
    <3>1. CASE ReadKey
      BY <2>1, <3>1 DEF ReadKey
    <3>2. CASE TryGetKey
      BY <2>1, <3>2 DEF TryGetKey, Reading, Registered
    <3> QED
      BY <1>1, <3>1, <3>2
  <2> QED
    BY <1>1, <2>2 DEF ReadKey, TryGetKey, unitVars, Typed, TypeOK, Shaped
<1>2. CASE UnlockAll
  <2> DEFINE u == clearer.unit
  <2>1. u \in Unit /\ locker[u] \in Locker /\ Accounted(locker[u], MsgId)
    BY <1>2 DEF UnlockAll, Typed, TypeOK, Shaped
  <2>2. locker' \in [Unit -> Locker] /\ Shaped' /\ waiter' \in [Unit -> WaiterPC]
    <3>1. CASE locker[u].msgs = <<>>
      BY <1>2, <3>1 DEF UnlockAll, Typed, TypeOK, Shaped
    <3>2. CASE locker[u].msgs # <<>>
      BY <1>2, <2>1, <3>2, LockerKept, UpdateTyped DEF UnlockAll
    <3> QED
      BY <3>1, <3>2
  <2> QED
    BY <1>2, <2>2 DEF UnlockAll, Typed, TypeOK
<1>3. CASE ClearKey
  BY <1>3 DEF ClearKey, Reading, unitVars, Typed, TypeOK, Shaped
<1> QED
  BY <1>1, <1>2, <1>3 DEF ClearMsgForConsumer

-----------------------------------------------------------------------------
\* Nothing is registered at first.
LEMMA InitInv == Init => IInv
<1> SUFFICES ASSUME Init PROVE IInv
  OBVIOUS
<1>1. NoLocker \in Locker /\ Accounted(NoLocker, MsgId)
  BY NoLockerAccounted
<1>2. TypeOK /\ Shaped
  BY <1>1 DEF Init, TypeOK, Shaped, UnitState, WaiterPC, GetterPC, Job, IdleGetter, NoRequest,
              RequestPC, ShutterPC, ClearerPC
<1>3. Registry
  BY DEF Init, Registry, InsertsOwn, Inserting, IdleGetter, Distinct, ShutterHolds,
         ErasesOwnUnit, RegisteredRuns, Registered
<1> QED
  BY <1>2, <1>3 DEF IInv

\* Every step keeps the invariant.
LEMMA StepInv == IInv /\ [Next]_vars => IInv'
<1> SUFFICES ASSUME IInv, [Next]_vars PROVE IInv'
  OBVIOUS
<1>1. TypeOK /\ Typed /\ Registry
  BY DEF IInv, Typed
<1>2. SUFFICES Typed' /\ Registry'
  BY DEF IInv, Typed
<1>3. ASSUME NEW p \in Getter, GetConsumer(p) PROVE Typed' /\ Registry'
  <2>1. Typed'
    BY <1>1, <1>3, GetterTyped
  <2>2. ASSUME NEW u \in Unit, Start(p, u) PROVE Registry'
    BY <1>1, <2>2, StartRegistry
  <2>3. CASE StartFails(p)
    <3>1. \A q \in Getter : Inserting(q)' => Inserting(q) /\ getter'[q].unit = getter[q].unit
      BY <1>1, <2>3 DEF StartFails, TypeOK, Inserting
    <3> QED
      BY <1>1, <2>1, <2>3, <3>1, RegistryUnchanged DEF StartFails, unitVars
  <2>4. CASE Insert(p)
    BY <1>1, <2>1, <2>4, InsertRegistry
  <2> QED
    BY <1>3, <2>1, <2>2, <2>3, <2>4 DEF GetConsumer
<1>4. ASSUME NEW k \in Key, MatcherUse(k) PROVE Typed' /\ Registry'
  <2>1. Typed'
    BY <1>1, <1>4, MatcherTyped
  <2>2. Done(Matcher) /\ UNCHANGED <<consumers, state, shutter>>
    BY <1>4 DEF MatcherUse, Deliver, FetchAgain, ResponseTimeOut, WatchAck, DropAcked,
                SetMsgReconsume, unitVars
  <2> QED
    BY <1>1, <2>1, <2>2, GetterRegistry DEF Done, IdleGetter, Getter
<1>5. CASE HandlerUse
  <2>1. Typed'
    BY <1>1, <1>5, HandlerTyped
  <2>2. Done(Handler) /\ UNCHANGED <<consumers, state, shutter>>
    BY <1>5 DEF HandlerUse, HandlerAck, HandlerCancel
  <2> QED
    BY <1>1, <2>1, <2>2, GetterRegistry DEF Done, IdleGetter, Getter
<1>6. ASSUME NEW k \in Key, Match(k) \/ Cancel(k) \/ \E s \in HandlerJob : Ack(k, s)
      PROVE  Typed' /\ Registry'
  <2>1. Typed'
    BY <1>1, <1>6, CallTyped
  <2>2. PICK p \in Getter, job \in Job : TryGet(p, k, job)
    BY <1>6, JobAssumption DEF Match, Cancel, Ack, Getter, Job
  <2>3. UNCHANGED <<consumers, state, shutter>>
    BY <1>6 DEF Match, Cancel, Ack, unitVars
  <2> QED
    BY <1>1, <2>1, <2>2, <2>3, GetterRegistry DEF TryGet
<1>7. ASSUME NEW u \in Unit, Callback(u) \/ \E m \in MsgId : WaitLock(u, m)
      PROVE  Typed' /\ Registry'
  <2>1. Typed'
    BY <1>1, <1>7, CallbackTyped
  <2>2. UNCHANGED <<consumers, state, shutter, getter>>
    BY <1>7 DEF Callback, Predicate, Block, ReturnStatus, WaitLock
  <2> QED
    BY <1>1, <2>1, <2>2, RegistryUnchanged DEF Inserting
<1>8. CASE (\E k \in Key : Consume(k) \/ Expire(k)) \/ \E u \in Unit : Inactivity(u)
  <2>1. Typed'
    BY <1>1, <1>8, ClockTyped
  <2>2. UNCHANGED <<consumers, state, shutter, getter>>
    BY <1>8 DEF Consume, Expire, Inactivity, unitVars
  <2> QED
    BY <1>1, <2>1, <2>2, RegistryUnchanged DEF Inserting
<1>9. CASE ShutdownConsumer
  BY <1>1, <1>9, ShutterTyped, ShutterRegistry
<1>10. CASE ClearMsgForConsumer
  <2>1. Typed'
    BY <1>1, <1>10, ClearerTyped
  <2>2. UNCHANGED <<consumers, state, shutter, getter>>
    BY <1>10 DEF ClearMsgForConsumer, ReadKey, TryGetKey, UnlockAll, ClearKey, unitVars
  <2> QED
    BY <1>1, <2>1, <2>2, RegistryUnchanged DEF Inserting
<1>11. CASE UNCHANGED vars
  <2>1. Typed'
    BY <1>1, <1>11 DEF vars, unitVars, Typed, TypeOK, Shaped
  <2>2. UNCHANGED <<consumers, state, shutter, getter>>
    BY <1>11 DEF vars, unitVars
  <2> QED
    BY <1>1, <2>1, <2>2, RegistryUnchanged DEF Inserting
<1>12. CASE Next
  BY <1>3, <1>4, <1>5, <1>6, <1>7, <1>8, <1>9, <1>10, <1>12, JobAssumption
  DEF Next, MatcherStep, HandlerStep, Getter
<1> QED
  BY <1>11, <1>12

-----------------------------------------------------------------------------
\* The inductive invariant of the consumers' life.
THEOREM Invariance == Spec => []IInv
<1> QED
  BY InitInv, StepInv, PTL DEF Spec

\* TypeOK: the unit that a thread uses, and that unlockAll is called on, is one.
THEOREM TypeCorrect == Spec => []TypeOK
<1>1. IInv => TypeOK
  BY DEF IInv
<1> QED
  BY <1>1, Invariance, PTL

\* ErasesOwnUnit: while shutdownConsumer stops a unit, and when it erases its key at
\* the end, the unit is the one that is registered, whatever threads are in
\* getConsumer meanwhile.
THEOREM Erases == Spec => []ErasesOwnUnit
<1>1. IInv => ErasesOwnUnit
  BY DEF IInv, Registry
<1> QED
  BY <1>1, Invariance, PTL

\* RegisteredRuns: no call gets a consumer from the registry that was stopped, but
\* in the time between its shutdown and erase.
THEOREM Runs == Spec => []RegisteredRuns
<1>1. IInv => RegisteredRuns
  BY DEF IInv, Registry
<1> QED
  BY <1>1, Invariance, PTL

-----------------------------------------------------------------------------
(* What clearMsgForConsumer is told, with one key.                          *)

\* A callback thread that is in waitLock has a batch: unlockAll passes over no unit
\* whose callback is to be released.
HasBatch == \A u \in Unit : waiter[u] # "none" => locker[u].msgs # <<>>

\* The callback thread of u does not wait any more.
Freed(u) ==
  \/ waiter[u] \in {"none", "return"}
  \/ waiter[u] = "predicate" /\ locker[u].clientStatus = "MSG_CONSUME_ACK"

\* A unit that shutdownConsumer will shut down is one for which clearMsgForConsumer
\* has nothing to do that is left over from the unit before.
NothingTold == clearer.pc = "read" /\ clearConsumerKey = NoKey

BeforeVisit ==
  /\ \A p \in Getter : Inserting(p) => ~inactive[getter[p].unit]
  /\ \A k \in Key : Registered(k) /\ inactive[consumers[k]] /\ shutter.unit = NoUnit => NothingTold

\* From notify_one to the return of shutdown(): the key is there, or has been read, or
\* the callback was released.
Told ==
  \/ /\ clearConsumerKey = shutter.key
     /\ \/ clearer.pc \in {"read", "try_get"}
        \/ clearer.pc = "unlock" /\ clearer.unit = shutter.unit
  \/ shutter.pc = "join" /\ Freed(shutter.unit)

Notified ==
  /\ shutter.pc = "notify" => NothingTold
  /\ shutter.pc \in {"shutdown", "join"} => Told
  /\ shutter.pc = "join" => state[shutter.unit] = "STOPPING"

KInv == IInv /\ HasBatch /\ BeforeVisit /\ Notified

\* The messages of a batch stay, and so does a verdict.
LEMMA BatchKept ==
  ASSUME NEW l \in Locker
  PROVE  /\ GetMsg(l).msgs = l.msgs /\ GetMsg(l).clientStatus = l.clientStatus
         /\ \A id, s : /\ SetMsgAck(l, id, s).msgs = l.msgs
                       /\ l.clientStatus = "MSG_CONSUME_ACK" =>
                            SetMsgAck(l, id, s).clientStatus = "MSG_CONSUME_ACK"
         /\ Unlock(l).msgs = l.msgs /\ Unlock(l).clientStatus = "MSG_CONSUME_ACK"
<1>1. GetMsg(l).msgs = l.msgs /\ GetMsg(l).clientStatus = l.clientStatus
  BY DEF GetMsg, Locker
<1>2. ASSUME NEW id, NEW s
      PROVE  /\ SetMsgAck(l, id, s).msgs = l.msgs
             /\ l.clientStatus = "MSG_CONSUME_ACK" =>
                  SetMsgAck(l, id, s).clientStatus = "MSG_CONSUME_ACK"
  BY DEF SetMsgAck, SetMsgStatus, TriggerCheck, Locker
<1>3. Unlock(l).msgs = l.msgs /\ Unlock(l).clientStatus = "MSG_CONSUME_ACK"
  BY DEF Unlock, TriggerCheck, AllAcked, Locker
<1> QED
  BY <1>1, <1>2, <1>3

\* A method of a locker, and the thread it wakes.
LEMMA UpdateFreed ==
  ASSUME TypeOK, HasBatch, NEW u \in Unit, NEW l, l.msgs = locker[u].msgs, Update(u, l),
         locker[u].clientStatus = "MSG_CONSUME_ACK" => l.clientStatus = "MSG_CONSUME_ACK"
  PROVE  HasBatch' /\ \A v \in Unit : Freed(v) => Freed(v)'
<1>1. \A v \in Unit : locker'[v] = IF v = u THEN l ELSE locker[v]
  BY DEF Update, TypeOK
<1>2. \A v \in Unit : \/ waiter'[v] = waiter[v]
                      \/ v = u /\ waiter[v] = "blocked" /\ waiter'[v] = "predicate"
  BY DEF Update, TypeOK
<1>3. HasBatch'
  BY <1>1, <1>2 DEF HasBatch
<1>4. ASSUME NEW v \in Unit, Freed(v) PROVE Freed(v)'
  BY <1>1, <1>2, <1>4 DEF Freed
<1> QED
  BY <1>3, <1>4

\* A callback that is released stays so, unless a new one comes, and that only to a
\* consumer that is started.
LEMMA FreedKept ==
  ASSUME Typed, HasBatch, [Next]_vars
  PROVE  HasBatch' /\ \A v \in Unit : state[v] # "STARTED" /\ Freed(v) => Freed(v)'
<1>1. ASSUME UNCHANGED <<locker, waiter>>
      PROVE  HasBatch' /\ \A v \in Unit : Freed(v) => Freed(v)'
  BY <1>1 DEF HasBatch, Freed
<1>2. ASSUME NEW p \in Getter, GetConsumer(p)
      PROVE  UNCHANGED <<locker, waiter>>
  BY <1>2 DEF GetConsumer, Start, StartFails, Insert, unitVars
<1>3. ASSUME NEW k \in Key, MatcherUse(k)
      PROVE  HasBatch' /\ \A v \in Unit : Freed(v) => Freed(v)'
  <2> DEFINE u == getter[Matcher].unit
  <2>1. Matcher \in Getter /\ getter[Matcher].pc = "use"
    BY <1>3 DEF Getter, MatcherUse, Deliver, FetchAgain, ResponseTimeOut, WatchAck, DropAcked,
                SetMsgReconsume, NotFound, Matching
  <2>2. u \in Unit /\ locker[u] \in Locker
    BY <2>1, InUse
  <2>3. ASSUME NEW pc, Deliver(k, pc)
        PROVE  HasBatch' /\ \A v \in Unit : Freed(v) => Freed(v)'
    <3>1. locker' = [locker EXCEPT ![u] = GetMsg(locker[u])] /\ UNCHANGED waiter
      BY <2>3 DEF Deliver
    <3>2. \A v \in Unit : /\ locker'[v].msgs = locker[v].msgs
                          /\ locker'[v].clientStatus = locker[v].clientStatus
      BY <2>2, <3>1, BatchKept DEF Typed, TypeOK
    <3> QED
      BY <3>1, <3>2 DEF HasBatch, Freed
  <2>4. CASE FetchAgain(k) \/ ResponseTimeOut(k) \/ WatchAck(k) \/ DropAcked(k)
    BY <1>1, <2>4 DEF FetchAgain, ResponseTimeOut, WatchAck, DropAcked, unitVars
  <2>5. CASE SetMsgReconsume(k)
    <3>1. Update(u, SetMsgAck(locker[u], request[k].msg, "RECONSUME_LATER"))
      BY <2>5 DEF SetMsgReconsume
    <3> QED
      BY <2>2, <3>1, BatchKept, UpdateFreed DEF Typed
  <2> QED
    BY <1>3, <2>3, <2>4, <2>5 DEF MatcherUse
<1>4. CASE HandlerUse
  <2> DEFINE u == getter[Handler].unit
  <2>1. Handler \in Getter /\ getter[Handler].pc = "use"
    BY <1>4 DEF Getter, HandlerUse, HandlerAck, HandlerCancel
  <2>2. u \in Unit /\ locker[u] \in Locker
    BY <2>1, InUse
  <2>3. \E s : Update(u, SetMsgAck(locker[u], getter[Handler].msg, s))
    BY <1>4 DEF HandlerUse, HandlerAck, HandlerCancel
  <2>4. PICK s : Update(u, SetMsgAck(locker[u], getter[Handler].msg, s))
    BY <2>3
  <2> QED
    BY <2>2, <2>4, BatchKept, UpdateFreed DEF Typed
<1>5. ASSUME NEW k \in Key,
             Match(k) \/ Cancel(k) \/ Consume(k) \/ Expire(k) \/ \E s \in HandlerJob : Ack(k, s)
      PROVE  UNCHANGED <<locker, waiter>>
  BY <1>5 DEF Match, Cancel, Ack, Consume, Expire, unitVars
<1>6. ASSUME NEW u \in Unit, Callback(u) \/ Inactivity(u) \/ \E m \in MsgId : WaitLock(u, m)
      PROVE  HasBatch' /\ \A v \in Unit : state[v] # "STARTED" /\ Freed(v) => Freed(v)'
  <2>1. CASE Predicate(u) \/ Block(u)
    BY <2>1 DEF Predicate, Block, HasBatch, Freed, Typed, TypeOK
  <2>2. CASE ReturnStatus(u)
    <3>1. /\ waiter'[u] = "none"
          /\ \A v \in Unit : v # u => waiter'[v] = waiter[v] /\ locker'[v] = locker[v]
      BY <2>2 DEF ReturnStatus, Typed, TypeOK
    <3> QED
      BY <3>1 DEF HasBatch, Freed
  <2>3. ASSUME NEW m \in MsgId, WaitLock(u, m)
        PROVE  HasBatch' /\ \A v \in Unit : state[v] # "STARTED" /\ Freed(v) => Freed(v)'
    <3>1. /\ state[u] = "STARTED" /\ locker'[u] = NewLocker(<<m>>)
          /\ \A v \in Unit : v # u => waiter'[v] = waiter[v] /\ locker'[v] = locker[v]
      BY <2>3 DEF WaitLock, Typed, TypeOK
    <3>2. locker'[u].msgs # <<>>
      BY <3>1 DEF NewLocker
    <3> QED
      BY <3>1, <3>2 DEF HasBatch, Freed
  <2>4. CASE Inactivity(u)
    BY <1>1, <2>4 DEF Inactivity
  <2> QED
    BY <1>6, <2>1, <2>2, <2>3, <2>4 DEF Callback
<1>7. CASE ShutdownConsumer
  BY <1>1, <1>7 DEF ShutdownConsumer, GetAllKeys, Visit, LastKey, Notify, Shutdown, Join, Erase,
                    unitVars
<1>8. CASE ClearMsgForConsumer
  <2> DEFINE u == clearer.unit
  <2>1. CASE ReadKey \/ TryGetKey \/ ClearKey
    BY <1>1, <2>1 DEF ReadKey, TryGetKey, ClearKey, unitVars
  <2>2. CASE UnlockAll
    <3>1. u \in Unit /\ locker[u] \in Locker
      BY <2>2 DEF UnlockAll, Typed, TypeOK
    <3>2. UNCHANGED <<locker, waiter>> \/ Update(u, Unlock(locker[u]))
      BY <2>2 DEF UnlockAll
    <3>3. CASE Update(u, Unlock(locker[u]))
      BY <3>1, <3>3, BatchKept, UpdateFreed DEF Typed
    <3> QED
      BY <1>1, <3>2, <3>3
  <2> QED
    BY <1>8, <2>1, <2>2 DEF ClearMsgForConsumer
<1>9. CASE UNCHANGED vars
  BY <1>1, <1>9 DEF vars, unitVars
<1>10. CASE Next
  BY <1>1, <1>2, <1>3, <1>4, <1>5, <1>6, <1>7, <1>8, <1>10, JobAssumption
  DEF Next, MatcherStep, HandlerStep, Getter
<1> QED
  BY <1>9, <1>10

\* Steps that take no part in it.
LEMMA Bystander ==
  ASSUME IInv, BeforeVisit, Notified,
         UNCHANGED <<consumers, state, clearConsumerKey, shutter, clearer>>,
         \A u \in Unit : inactive'[u] => inactive[u],
         \A p \in Getter : Inserting(p)' => Inserting(p) /\ getter'[p].unit = getter[p].unit,
         \A u \in Unit : state[u] # "STARTED" /\ Freed(u) => Freed(u)'
  PROVE  BeforeVisit' /\ Notified'
<1>1. /\ \A p \in Getter : Inserting(p) => getter[p].unit \in Unit
      /\ \A k \in Key : consumers[k] # NoUnit => consumers[k] \in Unit
      /\ shutter.pc = "join" => shutter.unit \in Unit
  BY DEF IInv, Registry, InsertsOwn, ShutterHolds, TypeOK
<1>2. BeforeVisit'
  BY <1>1 DEF BeforeVisit, Registered, NothingTold, Inserting
<1>3. shutter.pc = "join" /\ Freed(shutter.unit) => Freed(shutter.unit)'
  BY <1>1 DEF Notified
<1>4. Told => Told'
  BY <1>3 DEF Told
<1> QED
  BY <1>2, <1>4 DEF Notified, NothingTold

\* getConsumer: a unit that is inserted was not found inactive yet.
LEMMA GetterNotified ==
  ASSUME IInv, BeforeVisit, Notified, NEW p \in Getter, GetConsumer(p),
         \A u \in Unit : state[u] # "STARTED" /\ Freed(u) => Freed(u)'
  PROVE  BeforeVisit' /\ Notified'
<1>1. TypeOK /\ Registry
  BY DEF IInv
<1>2. CASE StartFails(p)
  <2>1. \A q \in Getter : Inserting(q)' => Inserting(q) /\ getter'[q].unit = getter[q].unit
    BY <1>1, <1>2 DEF StartFails, TypeOK, Inserting
  <2> QED
    BY <1>2, <2>1, Bystander DEF StartFails, unitVars
<1>3. CASE Insert(p)
  <2>1. /\ consumers' = [consumers EXCEPT ![getter[p].key] = IF @ = NoUnit THEN getter[p].unit ELSE @]
        /\ getter' = [getter EXCEPT ![p].pc = "use"] /\ Inserting(p)
        /\ UNCHANGED <<state, inactive, clearConsumerKey, shutter, clearer>>
    BY <1>3 DEF Insert, Inserting, unitVars
  <2>2. \A k \in Key : consumers'[k] = consumers[k] \/ consumers'[k] = getter[p].unit
    BY <1>1, <2>1 DEF TypeOK
  <2>3. \A q \in Getter : Inserting(q)' => Inserting(q) /\ getter'[q].unit = getter[q].unit
    BY <1>1, <2>1 DEF TypeOK, Inserting
  <2>4. BeforeVisit'
    BY <2>1, <2>2, <2>3 DEF BeforeVisit, Registered, NothingTold
  <2>5. shutter.pc = "join" /\ Freed(shutter.unit) => Freed(shutter.unit)'
    BY <1>1, <2>1 DEF Notified, Registry, ShutterHolds
  <2>6. Told => Told'
    BY <2>1, <2>5 DEF Told
  <2> QED
    BY <2>1, <2>4, <2>6 DEF Notified, NothingTold
<1>4. ASSUME NEW u \in Unit, Start(p, u)
      PROVE  BeforeVisit' /\ Notified'
  <2>1. /\ state' = [state EXCEPT ![u] = "STARTED"] /\ inactive' = [inactive EXCEPT ![u] = FALSE]
        /\ getter' = [getter EXCEPT ![p].pc = "insert", ![p].unit = u]
        /\ UNCHANGED <<consumers, clearConsumerKey, shutter, clearer>>
    BY <1>4 DEF Start
  <2>2. \A k \in Key : consumers[k] # u
    BY <1>1, <1>4, NoneAssumption DEF Start, Fresh, Registry, Distinct, Registered
  <2>3. \A q \in Getter : Inserting(q)' =>
          (q = p /\ getter'[q].unit = u) \/ (Inserting(q) /\ getter'[q].unit = getter[q].unit)
    BY <1>1, <2>1 DEF TypeOK, Inserting
  <2>4. \A v \in Unit : inactive'[v] => inactive[v]
    BY <1>1, <2>1 DEF TypeOK
  <2>5. ~inactive'[u]
    BY <1>1, <2>1 DEF TypeOK
  <2>6. \A q \in Getter : Inserting(q)' => ~inactive'[getter'[q].unit]
    BY <1>1, <2>3, <2>4, <2>5 DEF BeforeVisit, Registry, InsertsOwn
  <2>7. \A k \in Key : consumers[k] # NoUnit => consumers[k] \in Unit
    BY <1>1 DEF TypeOK
  <2>8. BeforeVisit'
    BY <2>1, <2>4, <2>6, <2>7 DEF BeforeVisit, Registered, NothingTold
  <2>9. shutter.pc \in {"shutdown", "join"} =>
          shutter.unit \in Unit /\ shutter.key \in Key /\ consumers[shutter.key] = shutter.unit
    BY <1>1 DEF Registry, ShutterHolds, ErasesOwnUnit
  <2>10. shutter.pc = "join" => state'[shutter.unit] = "STOPPING"
    BY <1>1, <2>1, <2>2, <2>9 DEF Notified, TypeOK
  <2>11. shutter.pc = "join" /\ Freed(shutter.unit) => Freed(shutter.unit)'
    BY <2>1, <2>9 DEF Notified
  <2>12. Told => Told'
    BY <2>1, <2>11 DEF Told
  <2> QED
    BY <2>1, <2>8, <2>10, <2>12 DEF Notified, NothingTold
<1> QED
  BY <1>2, <1>3, <1>4 DEF GetConsumer

\* A consumer becomes inactive: with one key, nothing is left to clear then.
LEMMA InactivityNotified ==
  ASSUME IInv, BeforeVisit, Notified, NEW u \in Unit, Inactivity(u), \A j, k \in Key : j = k
  PROVE  BeforeVisit' /\ Notified'
<1>1. TypeOK /\ Registry
  BY DEF IInv
<1>2. PICK j \in Key : consumers[j] = u
  BY DEF Inactivity
<1>3. /\ inactive' = [inactive EXCEPT ![u] = TRUE]
      /\ UNCHANGED <<consumers, state, locker, waiter, getter, clearConsumerKey, shutter, clearer>>
  BY DEF Inactivity
<1>4. shutter.unit = NoUnit => NothingTold
  <2>1. SUFFICES ASSUME shutter.unit = NoUnit PROVE NothingTold
    OBVIOUS
  <2>2. clearer.pc = "read" /\ (clearConsumerKey # NoKey => ~Registered(clearConsumerKey))
    BY <2>1 DEF Inactivity, NothingToClear
  <2>3. clearConsumerKey # NoKey => clearConsumerKey = j
    BY <1>1 DEF TypeOK
  <2>4. Registered(j)
    BY <1>2, NoneAssumption DEF Registered
  <2> QED
    BY <2>2, <2>3, <2>4 DEF NothingTold
<1>5. \A p \in Getter : Inserting(p) => getter[p].unit # u /\ getter[p].unit \in Unit
  BY <1>1, <1>2 DEF Registry, InsertsOwn
<1>6. BeforeVisit'
  BY <1>1, <1>3, <1>4, <1>5 DEF BeforeVisit, Registered, NothingTold, Inserting, TypeOK
<1>7. Notified'
  BY <1>3 DEF Notified, NothingTold, Told, Freed
<1> QED
  BY <1>6, <1>7

\* shutdownConsumer.
LEMMA ShutterNotified ==
  ASSUME IInv, BeforeVisit, Notified, ShutdownConsumer, \A j, k \in Key : j = k
  PROVE  BeforeVisit' /\ Notified'
<1> USE DEF ShutterPC
<1>1. TypeOK /\ Registry
  BY DEF IInv
<1>2. UNCHANGED <<inactive, getter, clearer>>
  BY DEF ShutdownConsumer, GetAllKeys, Visit, LastKey, Notify, Shutdown, Join, Erase, unitVars
<1>3. CASE GetAllKeys \/ LastKey
  <2>1. /\ shutter'.pc \in {"sleep", "visit"} /\ shutter'.unit = shutter.unit
        /\ UNCHANGED <<consumers, clearConsumerKey>>
    BY <1>1, <1>3 DEF GetAllKeys, LastKey, TypeOK, unitVars
  <2> QED
    BY <1>2, <2>1 DEF BeforeVisit, Notified, Registered, NothingTold, Inserting
<1>4. ASSUME NEW k \in Key, Visit(k) PROVE BeforeVisit' /\ Notified'
  <2>1. UNCHANGED <<consumers, clearConsumerKey>> /\ shutter.unit = NoUnit
    BY <1>1, <1>4 DEF Visit, unitVars, Registry, ShutterHolds
  <2>2. \/ shutter'.pc = "visit" /\ shutter'.unit = NoUnit
        \/ /\ Registered(k) /\ inactive[consumers[k]]
           /\ shutter'.pc = "notify" /\ shutter'.unit # NoUnit
    BY <1>1, <1>4, <2>1 DEF Visit, TypeOK, Registered
  <2> QED
    BY <1>2, <2>1, <2>2 DEF BeforeVisit, Notified, Registered, NothingTold, Inserting
<1>5. CASE Notify
  <2>1. /\ shutter.pc = "notify" /\ shutter'.pc = "shutdown" /\ shutter'.key = shutter.key
        /\ shutter'.unit = shutter.unit /\ clearConsumerKey' = shutter.key
        /\ UNCHANGED consumers /\ shutter.unit # NoUnit
    BY <1>1, <1>5, NoneAssumption DEF Notify, TypeOK, Registry, ShutterHolds
  <2>2. BeforeVisit'
    BY <1>2, <2>1 DEF BeforeVisit, Inserting
  <2>3. Told'
    BY <1>2, <2>1 DEF Told, Notified, NothingTold
  <2> QED
    BY <2>1, <2>2, <2>3 DEF Notified
<1>6. CASE Shutdown
  <2>1. /\ shutter.pc = "shutdown" /\ shutter'.pc = "join" /\ shutter'.key = shutter.key
        /\ shutter'.unit = shutter.unit /\ shutter.unit \in Unit
        /\ state'[shutter.unit] = "STOPPING"
        /\ UNCHANGED <<consumers, clearConsumerKey>> /\ shutter.unit # NoUnit
    BY <1>1, <1>6, NoneAssumption DEF Shutdown, TypeOK, Registry, ShutterHolds
  <2>2. BeforeVisit'
    BY <1>2, <2>1 DEF BeforeVisit, Inserting
  <2>3. Told'
    BY <1>2, <2>1 DEF Told, Notified
  <2> QED
    BY <2>1, <2>2, <2>3 DEF Notified
<1>7. CASE Join
  <2>1. /\ shutter'.pc = "erase" /\ shutter'.unit = shutter.unit
        /\ shutter.unit # NoUnit
    BY <1>1, <1>7, NoneAssumption DEF Join, TypeOK, Registry, ShutterHolds
  <2> QED
    BY <1>2, <2>1 DEF BeforeVisit, Notified, Inserting
<1>8. CASE Erase
  <2>1. /\ shutter'.pc = "visit" /\ shutter.key \in Key
        /\ consumers' = [consumers EXCEPT ![shutter.key] = NoUnit]
    BY <1>1, <1>8 DEF Erase, TypeOK, Registry, ShutterHolds
  <2>2. \A k \in Key : ~Registered(k)'
    BY <1>1, <2>1 DEF Registered, TypeOK
  <2> QED
    BY <1>2, <2>1, <2>2 DEF BeforeVisit, Notified, Inserting
<1> QED
  BY <1>3, <1>4, <1>5, <1>6, <1>7, <1>8 DEF ShutdownConsumer

\* clearMsgForConsumer.
LEMMA ClearerNotified ==
  ASSUME IInv, HasBatch, BeforeVisit, Notified, ClearMsgForConsumer,
         \A u \in Unit : state[u] # "STARTED" /\ Freed(u) => Freed(u)'
  PROVE  BeforeVisit' /\ Notified'
<1> USE DEF ClearerPC
<1>1. TypeOK /\ Registry
  BY DEF IInv
<1>2. UNCHANGED <<consumers, state, inactive, getter, shutter>>
  BY DEF ClearMsgForConsumer, ReadKey, TryGetKey, UnlockAll, ClearKey, unitVars
<1>3. ~NothingTold
  BY DEF ClearMsgForConsumer, ReadKey, TryGetKey, UnlockAll, ClearKey, NothingTold
<1>4. BeforeVisit'
  BY <1>2, <1>3 DEF BeforeVisit, Registered, Inserting
<1>5. shutter.pc \in {"shutdown", "join"} =>
        /\ shutter.unit \in Unit /\ shutter.key \in Key
        /\ consumers[shutter.key] = shutter.unit
  BY <1>1 DEF Registry, ShutterHolds, ErasesOwnUnit
<1>6. shutter.pc = "join" /\ Freed(shutter.unit) => Freed(shutter.unit)'
  BY <1>2, <1>5 DEF Notified
<1>7. ASSUME shutter.pc \in {"shutdown", "join"}, ~(shutter.pc = "join" /\ Freed(shutter.unit))
      PROVE  Told'
  <2>1. /\ clearConsumerKey = shutter.key
        /\ \/ clearer.pc \in {"read", "try_get"}
           \/ clearer.pc = "unlock" /\ clearer.unit = shutter.unit
    BY <1>7 DEF Notified, Told
  <2>2. CASE ReadKey
    BY <1>1, <1>2, <2>1, <2>2 DEF ReadKey, Told, TypeOK
  <2>3. CASE TryGetKey
    <3>1. clearConsumerKey # NoKey /\ Registered(clearConsumerKey)
      BY <1>5, <1>7, <2>1, NoneAssumption DEF Registered
    <3>2. /\ clearer' = [clearer EXCEPT !.pc = "unlock", !.unit = shutter.unit]
          /\ UNCHANGED clearConsumerKey
      BY <1>5, <1>7, <2>1, <2>3, <3>1 DEF TryGetKey
    <3>3. clearer'.pc = "unlock" /\ clearer'.unit = shutter.unit
      BY <1>1, <3>2 DEF TypeOK
    <3> QED
      BY <1>2, <2>1, <3>2, <3>3 DEF Told
  <2>4. CASE UnlockAll
    <3> DEFINE u == shutter.unit
    <3>1. /\ clearer.unit = u /\ u \in Unit /\ locker[u] \in Locker
          /\ shutter.pc = "join" /\ waiter[u] \notin {"predicate", "wait"}
      BY <1>1, <1>5, <1>7, <2>1, <2>4 DEF UnlockAll, Slept, TypeOK
    <3>2. waiter[u] = "blocked"
      BY <1>1, <1>7, <3>1 DEF Freed, TypeOK, WaiterPC
    <3>3. Update(u, Unlock(locker[u]))
      BY <2>4, <3>1, <3>2 DEF UnlockAll, HasBatch
    <3>4. waiter'[u] = "predicate" /\ locker'[u].clientStatus = "MSG_CONSUME_ACK"
      BY <1>1, <3>1, <3>2, <3>3, BatchKept DEF Update, TypeOK
    <3> QED
      BY <1>2, <3>1, <3>4 DEF Told, Freed
  <2>5. CASE ClearKey
    BY <2>1, <2>5 DEF ClearKey
  <2> QED
    BY <2>2, <2>3, <2>4, <2>5 DEF ClearMsgForConsumer
<1>8. shutter.pc \in {"shutdown", "join"} => Told'
  BY <1>2, <1>6, <1>7 DEF Told
<1> QED
  BY <1>2, <1>3, <1>4, <1>8 DEF Notified

LEMMA KeptStep ==
  ASSUME KInv, [Next]_vars, \A j, k \in Key : j = k
  PROVE  HasBatch' /\ BeforeVisit' /\ Notified'
<1>1. IInv /\ Typed /\ TypeOK /\ HasBatch /\ BeforeVisit /\ Notified
  BY DEF KInv, IInv, Typed
<1>2. HasBatch' /\ \A v \in Unit : state[v] # "STARTED" /\ Freed(v) => Freed(v)'
  BY <1>1, FreedKept
<1> SUFFICES BeforeVisit' /\ Notified'
  BY <1>2
<1>3. ASSUME NEW p \in Getter, NEW g, g.pc # "insert", getter' = [getter EXCEPT ![p] = g]
      PROVE  \A q \in Getter : Inserting(q)' => Inserting(q) /\ getter'[q].unit = getter[q].unit
  BY <1>1, <1>3 DEF TypeOK, Inserting
<1>4. ASSUME NEW k \in Key, ResetConsumerActive(k)
      PROVE  \A u \in Unit : inactive'[u] => inactive[u]
  BY <1>1, <1>4 DEF ResetConsumerActive, Registered, TypeOK
<1>5. ASSUME NEW k \in Key, MatcherUse(k) PROVE BeforeVisit' /\ Notified'
  <2>1. Done(Matcher) /\ UNCHANGED <<consumers, state, clearConsumerKey, shutter, clearer>>
    BY <1>5 DEF MatcherUse, Deliver, FetchAgain, ResponseTimeOut, WatchAck, DropAcked,
                SetMsgReconsume, unitVars
  <2>2. UNCHANGED inactive \/ ResetConsumerActive(k)
    BY <1>5 DEF MatcherUse, Deliver, FetchAgain, ResponseTimeOut, WatchAck, DropAcked,
                SetMsgReconsume, unitVars
  <2>3. \A u \in Unit : inactive'[u] => inactive[u]
    BY <1>4, <2>2
  <2>4. \A q \in Getter : Inserting(q)' => Inserting(q) /\ getter'[q].unit = getter[q].unit
    BY <1>3, <2>1 DEF Done, IdleGetter, Getter
  <2> QED
    BY <1>1, <1>2, <2>1, <2>3, <2>4, Bystander
<1>6. CASE HandlerUse
  <2>1. Done(Handler) /\ UNCHANGED <<consumers, state, inactive, clearConsumerKey, shutter, clearer>>
    BY <1>6 DEF HandlerUse, HandlerAck, HandlerCancel
  <2>2. \A q \in Getter : Inserting(q)' => Inserting(q) /\ getter'[q].unit = getter[q].unit
    BY <1>3, <2>1 DEF Done, IdleGetter, Getter
  <2> QED
    BY <1>1, <1>2, <2>1, <2>2, Bystander
<1>7. ASSUME NEW k \in Key, Match(k) \/ Cancel(k) \/ \E s \in HandlerJob : Ack(k, s)
      PROVE  BeforeVisit' /\ Notified'
  <2>1. PICK p, job : p \in Getter /\ TryGet(p, k, job)
    BY <1>7 DEF Match, Cancel, Ack, Getter
  <2>2. UNCHANGED <<consumers, state, clearConsumerKey, shutter, clearer>>
        /\ (UNCHANGED inactive \/ ResetConsumerActive(k))
    BY <1>7 DEF Match, Cancel, Ack, unitVars
  <2>3. \A u \in Unit : inactive'[u] => inactive[u]
    BY <1>4, <2>2
  <2>4. \A q \in Getter : Inserting(q)' => Inserting(q) /\ getter'[q].unit = getter[q].unit
    BY <1>3, <2>1 DEF TryGet
  <2> QED
    BY <1>1, <1>2, <2>2, <2>3, <2>4, Bystander
<1>8. ASSUME UNCHANGED <<consumers, state, inactive, getter, clearConsumerKey, shutter, clearer>>
      PROVE  BeforeVisit' /\ Notified'
  BY <1>1, <1>2, <1>8, Bystander DEF Inserting
<1>9. ASSUME NEW k \in Key, Consume(k) \/ Expire(k) PROVE BeforeVisit' /\ Notified'
  BY <1>8, <1>9 DEF Consume, Expire, unitVars
<1>10. ASSUME NEW u \in Unit, Callback(u) \/ \E m \in MsgId : WaitLock(u, m)
       PROVE  BeforeVisit' /\ Notified'
  BY <1>8, <1>10 DEF Callback, Predicate, Block, ReturnStatus, WaitLock
<1>11. ASSUME NEW p \in Getter, GetConsumer(p) PROVE BeforeVisit' /\ Notified'
  BY <1>1, <1>2, <1>11, GetterNotified
<1>12. ASSUME NEW u \in Unit, Inactivity(u) PROVE BeforeVisit' /\ Notified'
  BY <1>1, <1>12, InactivityNotified
<1>13. CASE ShutdownConsumer
  BY <1>1, <1>13, ShutterNotified
<1>14. CASE ClearMsgForConsumer
  BY <1>1, <1>2, <1>14, ClearerNotified
<1>15. CASE UNCHANGED vars
  BY <1>8, <1>15 DEF vars, unitVars
<1>16. CASE Next
  BY <1>5, <1>6, <1>7, <1>9, <1>10, <1>11, <1>12, <1>13, <1>14, <1>16, JobAssumption
  DEF Next, MatcherStep, HandlerStep, Getter
<1> QED
  BY <1>15, <1>16

\* NotificationKept: with one key, the key that shutdownConsumer stores and notifies is
\* not lost: as long as it waits for a callback that nobody released, clearMsgForConsumer
\* has the key to read, or has read it, or is about to call unlockAll.  With two keys the
\* one overwrites the other's.
THEOREM Kept ==
  ASSUME \A j, k \in Key : j = k
  PROVE  Spec => []NotificationKept
<1>1. Init => HasBatch /\ BeforeVisit /\ Notified
  BY DEF Init, HasBatch, BeforeVisit, Notified, Inserting, IdleGetter, Registered
<1>2. KInv /\ [Next]_vars => HasBatch' /\ BeforeVisit' /\ Notified'
  BY KeptStep
<1>3. KInv => NotificationKept
  BY DEF KInv, Notified, Told, Freed, NotificationKept
<1>4. Spec => []KInv
  BY <1>1, <1>2, Invariance, PTL DEF Spec, KInv
<1> QED
  BY <1>3, <1>4, PTL
=============================================================================
