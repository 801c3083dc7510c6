-------------------------- MODULE ProxyClientsProofs --------------------------
(***************************************************************************)
(* Proofs about ServerImpl.tla and the clients of ProxyClients.tla, for    *)
(* any number of clients, messages, retries and call objects.  Whatever    *)
(* messages are serialised to, a call object is referred to once, and each *)
(* class has one that waits for the next request.  With the round trip of  *)
(* ProxyMessagesProofs.tla, the request that is processed is what the      *)
(* client has set, and a message that no client can parse is never         *)
(* acknowledged.                                                           *)
(***************************************************************************)
EXTENDS ProxyClients, ProxyMessagesProofs, FiniteSetTheorems, TLAPS

\* Call objects have the fields of the classes.
IsCall(x) ==
  x = [status |-> x.status, type |-> x.type, method |-> x.method, request |-> x.request,
       reply |-> x.reply, client |-> x.client, msgId |-> x.msgId]
Calls(c)  == c = [o \in Object |-> c[o]] /\ \A o \in Object : IsCall(c[o])

\* An object that exists is of the class it was made for.
Classes(c) ==
  \A o \in Object : /\ c[o].status \in {"NONE", "PROCESS", "FINISH"}
                    /\ c[o].type = IF c[o].status = "NONE" THEN "" ELSE o[1]

Statuses(c) == [o \in Object |-> c[o].status]

\* The tag of an object in status st[o], or the pointer to it, is in one place, among
\* requested, finishing, producing, matching and queue, that fits its status.
Apart(st, R, F, P, M, Q) ==
  /\ R \subseteq Object /\ F \subseteq Object /\ P \subseteq Object /\ M \subseteq Object
  /\ Q \subseteq [tag : Object, ok : BOOLEAN]
  /\ \A o \in R : st[o] = "PROCESS" /\ o \notin F \cup P \cup M /\ \A e \in Q : e.tag # o
  /\ \A o \in P : st[o] = "PROCESS" /\ o \notin F \cup M /\ \A e \in Q : e.tag # o
  /\ \A o \in M : st[o] = "PROCESS" /\ o \notin F /\ \A e \in Q : e.tag # o
  /\ \A o \in F : st[o] = "FINISH" /\ \A e \in Q : e.tag # o
  /\ \A e, f \in Q : e.tag = f.tag => e = f
  /\ \A e \in Q : st[e.tag] # "NONE" /\ (~e.ok => st[e.tag] = "FINISH")

\* No object that exists is forgotten.
Reachable(st, R, F, P, M, Q) ==
  \A o \in Object : st[o] # "NONE" =>
    o \in R \cup F \cup P \cup M \/ \E e \in Q : e.tag = o

\* An object of each class is not processed yet, and but for Produce no other is.
Waits(st, P, M, o) == st[o] = "PROCESS" /\ o \notin P \cup M
OneWaits(st, P, M) ==
  \A type \in RequestType :
    /\ \E w \in Object : w[1] = type /\ Waits(st, P, M, w)
    /\ type # "REQUEST_PRODUCE" =>
         \A o, p \in Object : /\ o[1] = type /\ Waits(st, P, M, o)
                             /\ p[1] = type /\ Waits(st, P, M, p) => o = p

Sound(st, R, F, P, M, Q) ==
  Apart(st, R, F, P, M, Q) /\ Reachable(st, R, F, P, M, Q) /\ OneWaits(st, P, M)

Ownership == Sound(Statuses(call), requested, finishing, producing, matching, queue)

\* An object in status st[o] that is not answered has k[o] retries, not too many.
Counted(st, k) ==
  /\ k \in [Object -> 0..MaxRetry + 1]
  /\ \A o \in Object : st[o] # "FINISH" => k[o] <= MaxRetry

IInv == Calls(call) /\ Classes(call) /\ Ownership /\ Counted(Statuses(call), retryCount)

\* An object is numbered within its class.
LEMMA ObjectShape ==
  ASSUME NEW o \in Object
  PROVE  o[1] \in RequestType /\ o[2] \in 1..Copies[o[1]] /\ o = <<o[1], o[2]>>
<1>1. PICK type \in RequestType : o \in {type} \X (1..Copies[type])
  BY DEF Object
<1> QED
  BY <1>1

-----------------------------------------------------------------------------
(* What becomes of the places.                                              *)

\* A request arrives.
LEMMA ArriveSound ==
  ASSUME NEW st, NEW R, NEW F, NEW P, NEW M, NEW Q, Sound(st, R, F, P, M, Q), NEW o \in R
  PROVE  Sound(st, R \ {o}, F, P, M, Q \cup {[tag |-> o, ok |-> TRUE]})
<1> DEFINE n == [tag |-> o, ok |-> TRUE]
<1>1. n.tag = o /\ n.ok = TRUE /\ n \in [tag : Object, ok : BOOLEAN]
  BY DEF Sound, Apart
<1> HIDE DEF n
<1>2. Apart(st, R \ {o}, F, P, M, Q \cup {n})
  BY <1>1 DEF Sound, Apart
<1>3. Reachable(st, R \ {o}, F, P, M, Q \cup {n})
  BY <1>1 DEF Sound, Reachable
<1> QED
  BY <1>2, <1>3 DEF Sound, n

\* Finish sends a reply.
LEMMA ReplySound ==
  ASSUME NEW st, NEW R, NEW F, NEW P, NEW M, NEW Q, Sound(st, R, F, P, M, Q), NEW o \in F,
         NEW ok \in BOOLEAN
  PROVE  Sound(st, R, F \ {o}, P, M, Q \cup {[tag |-> o, ok |-> ok]})
<1> DEFINE n == [tag |-> o, ok |-> ok]
<1>1. n.tag = o /\ n \in [tag : Object, ok : BOOLEAN]
  BY DEF Sound, Apart
<1> HIDE DEF n
<1>2. Apart(st, R, F \ {o}, P, M, Q \cup {n})
  BY <1>1 DEF Sound, Apart
<1>3. Reachable(st, R, F \ {o}, P, M, Q \cup {n})
  BY <1>1 DEF Sound, Reachable
<1> QED
  BY <1>2, <1>3 DEF Sound, n

\* When the object c of a class waits no more and n of the same class does.
LEMMA NextOne ==
  ASSUME NEW st, NEW P, NEW M, OneWaits(st, P, M), NEW c \in Object, NEW n \in Object,
         n # c, n[1] = c[1], Waits(st, P, M, c), NEW sn, NEW Pn, NEW Mn,
         \A o \in Object : Waits(sn, Pn, Mn, o) <=> o = n \/ (o # c /\ Waits(st, P, M, o))
  PROVE  OneWaits(sn, Pn, Mn)
<1> SUFFICES ASSUME NEW type \in RequestType
             PROVE  /\ \E w \in Object : w[1] = type /\ Waits(sn, Pn, Mn, w)
                    /\ type # "REQUEST_PRODUCE" =>
                         \A o, p \in Object : /\ o[1] = type /\ Waits(sn, Pn, Mn, o)
                                             /\ p[1] = type /\ Waits(sn, Pn, Mn, p) => o = p
  BY DEF OneWaits
<1>1. PICK w \in Object : w[1] = type /\ Waits(st, P, M, w)
  BY DEF OneWaits
<1>2. \E v \in Object : v[1] = type /\ Waits(sn, Pn, Mn, v)
  <2>1. CASE w = c
    BY <1>1, <2>1
  <2>2. CASE w # c
    BY <1>1, <2>2
  <2> QED
    BY <2>1, <2>2
<1>3. ASSUME type # "REQUEST_PRODUCE", NEW o \in Object, NEW p \in Object,
             o[1] = type, Waits(sn, Pn, Mn, o), p[1] = type, Waits(sn, Pn, Mn, p)
      PROVE  o = p
  <2>1. \A q \in Object : q[1] = c[1] /\ Waits(st, P, M, q) /\ c[1] = type => q = c
    BY <1>3 DEF OneWaits
  <2>2. CASE type = c[1]
    BY <1>3, <2>1, <2>2
  <2>3. CASE type # c[1]
    <3>1. Waits(st, P, M, o) /\ Waits(st, P, M, p)
      BY <1>3, <2>3
    <3> QED
      BY <1>3, <3>1 DEF OneWaits
  <2> QED
    BY <2>2, <2>3
<1> QED
  BY <1>2, <1>3

\* A request is processed, and the object n of its class is made: the call is finished,
\* or handed to the producer or to the matcher.
LEMMA ProcessSound ==
  ASSUME NEW st, st = [o \in Object |-> st[o]], NEW R, NEW F, NEW P, NEW M, NEW Q,
         Sound(st, R, F, P, M, Q),
         NEW e \in Q, st[e.tag] = "PROCESS", NEW n \in Object, st[n] = "NONE",
         n[1] = e.tag[1], e.tag[1] \in RequestType
  PROVE  /\ Sound([st EXCEPT ![e.tag] = "FINISH", ![n] = "PROCESS"],
                  R \cup {n}, F \cup {e.tag}, P, M, Q \ {e})
         /\ Sound([st EXCEPT ![n] = "PROCESS"], R \cup {n}, F, P \cup {e.tag}, M, Q \ {e})
         /\ Sound([st EXCEPT ![n] = "PROCESS"], R \cup {n}, F, P, M \cup {e.tag}, Q \ {e})
<1> DEFINE c == e.tag
           finish == [st EXCEPT ![c] = "FINISH", ![n] = "PROCESS"]
           hand == [st EXCEPT ![n] = "PROCESS"]
<1>1. /\ c \in Object /\ c # n /\ c \notin R \cup F \cup P \cup M /\ n \notin R \cup F \cup P \cup M
      /\ \A f \in Q : f.tag # n /\ (f.tag = c => f = e)
  BY DEF Sound, Apart
<1>2. /\ \A o \in Object :
           finish[o] = IF o = c THEN "FINISH" ELSE IF o = n THEN "PROCESS" ELSE st[o]
      /\ \A o \in Object : hand[o] = IF o = n THEN "PROCESS" ELSE st[o]
  BY <1>1
<1> HIDE DEF finish, hand
<1>3. /\ Apart(finish, R \cup {n}, F \cup {c}, P, M, Q \ {e})
      /\ Reachable(finish, R \cup {n}, F \cup {c}, P, M, Q \ {e})
  <2>1. Apart(finish, R \cup {n}, F \cup {c}, P, M, Q \ {e})
    BY <1>1, <1>2 DEF Sound, Apart
  <2>2. Reachable(finish, R \cup {n}, F \cup {c}, P, M, Q \ {e})
    BY <1>1, <1>2 DEF Sound, Apart, Reachable
  <2> QED
    BY <2>1, <2>2
<1>4. /\ Apart(hand, R \cup {n}, F, P \cup {c}, M, Q \ {e})
      /\ Reachable(hand, R \cup {n}, F, P \cup {c}, M, Q \ {e})
  <2>1. Apart(hand, R \cup {n}, F, P \cup {c}, M, Q \ {e})
    BY <1>1, <1>2 DEF Sound, Apart
  <2>2. Reachable(hand, R \cup {n}, F, P \cup {c}, M, Q \ {e})
    BY <1>1, <1>2 DEF Sound, Apart, Reachable
  <2> QED
    BY <2>1, <2>2
<1>5. /\ Apart(hand, R \cup {n}, F, P, M \cup {c}, Q \ {e})
      /\ Reachable(hand, R \cup {n}, F, P, M \cup {c}, Q \ {e})
  <2>1. Apart(hand, R \cup {n}, F, P, M \cup {c}, Q \ {e})
    BY <1>1, <1>2 DEF Sound, Apart
  <2>2. Reachable(hand, R \cup {n}, F, P, M \cup {c}, Q \ {e})
    BY <1>1, <1>2 DEF Sound, Apart, Reachable
  <2> QED
    BY <2>1, <2>2
<1>6. ASSUME NEW sn, NEW Pn, NEW Mn,
             \A o \in Object : Waits(sn, Pn, Mn, o) <=> o = n \/ (o # c /\ Waits(st, P, M, o))
      PROVE  OneWaits(sn, Pn, Mn)
  BY <1>1, <1>6, NextOne DEF Sound, Waits
<1>7. OneWaits(finish, P, M) /\ OneWaits(hand, P \cup {c}, M) /\ OneWaits(hand, P, M \cup {c})
  <2>1. OneWaits(finish, P, M)
    BY <1>1, <1>2, <1>6 DEF Waits
  <2>2. OneWaits(hand, P \cup {c}, M)
    BY <1>1, <1>2, <1>6 DEF Waits
  <2>3. OneWaits(hand, P, M \cup {c})
    BY <1>1, <1>2, <1>6 DEF Waits
  <2> QED
    BY <2>1, <2>2, <2>3
<1> QED
  BY <1>3, <1>4, <1>5, <1>7 DEF Sound, finish, hand

\* A step on which no object begins or ceases to wait.
LEMMA SameWaits ==
  ASSUME NEW st, NEW P, NEW M, OneWaits(st, P, M), NEW sn, NEW Pn, NEW Mn,
         \A o \in Object : Waits(sn, Pn, Mn, o) <=> Waits(st, P, M, o)
  PROVE  OneWaits(sn, Pn, Mn)
BY DEF OneWaits

\* A Produce call is retried, and the object n is made: the call stays with the
\* producer, or is finished.  Another object waits.
LEMMA RetrySound ==
  ASSUME NEW st, st = [o \in Object |-> st[o]], NEW R, NEW F, NEW P, NEW M, NEW Q,
         Sound(st, R, F, P, M, Q),
         NEW c \in P, NEW n \in Object, st[n] = "NONE", n[1] = "REQUEST_PRODUCE"
  PROVE  /\ Sound([st EXCEPT ![n] = "PROCESS"], R \cup {n}, F, P, M, Q)
         /\ Sound([st EXCEPT ![c] = "FINISH", ![n] = "PROCESS"],
                  R \cup {n}, F \cup {c}, P \ {c}, M, Q)
<1> DEFINE finish == [st EXCEPT ![c] = "FINISH", ![n] = "PROCESS"]
           hand == [st EXCEPT ![n] = "PROCESS"]
<1>1. /\ c \in Object /\ c # n /\ c \notin R \cup F \cup M /\ n \notin R \cup F \cup P \cup M
      /\ \A f \in Q : f.tag # n /\ f.tag # c
  BY DEF Sound, Apart
<1>2. /\ \A o \in Object :
           finish[o] = IF o = c THEN "FINISH" ELSE IF o = n THEN "PROCESS" ELSE st[o]
      /\ \A o \in Object : hand[o] = IF o = n THEN "PROCESS" ELSE st[o]
  BY <1>1
<1> HIDE DEF finish, hand
<1>3. Apart(hand, R \cup {n}, F, P, M, Q) /\ Reachable(hand, R \cup {n}, F, P, M, Q)
  <2>1. Apart(hand, R \cup {n}, F, P, M, Q)
    BY <1>1, <1>2 DEF Sound, Apart
  <2>2. Reachable(hand, R \cup {n}, F, P, M, Q)
    BY <1>1, <1>2 DEF Sound, Reachable
  <2> QED
    BY <2>1, <2>2
<1>4. /\ Apart(finish, R \cup {n}, F \cup {c}, P \ {c}, M, Q)
      /\ Reachable(finish, R \cup {n}, F \cup {c}, P \ {c}, M, Q)
  <2>1. Apart(finish, R \cup {n}, F \cup {c}, P \ {c}, M, Q)
    BY <1>1, <1>2 DEF Sound, Apart
  <2>2. Reachable(finish, R \cup {n}, F \cup {c}, P \ {c}, M, Q)
    BY <1>1, <1>2 DEF Sound, Reachable
  <2> QED
    BY <2>1, <2>2
<1>5. ASSUME NEW sn, NEW Pn, \A o \in Object : Waits(sn, Pn, M, o) <=> o = n \/ Waits(st, P, M, o)
      PROVE  OneWaits(sn, Pn, M)
  BY <1>5 DEF Sound, OneWaits
<1>6. OneWaits(hand, P, M)
  BY <1>1, <1>2, <1>5 DEF Waits
<1>7. OneWaits(finish, P \ {c}, M)
  BY <1>1, <1>2, <1>5 DEF Waits
<1> QED
  BY <1>3, <1>4, <1>6, <1>7 DEF Sound, finish, hand

\* The producer or the matcher answers a call.
LEMMA AnswerSound ==
  ASSUME NEW st, st = [o \in Object |-> st[o]], NEW R, NEW F, NEW P, NEW M, NEW Q,
         Sound(st, R, F, P, M, Q), NEW o \in Object
  PROVE  /\ o \in P => Sound([st EXCEPT ![o] = "FINISH"], R, F \cup {o}, P \ {o}, M, Q)
         /\ o \in M => Sound([st EXCEPT ![o] = "FINISH"], R, F \cup {o}, P, M \ {o}, Q)
<1> DEFINE sn == [st EXCEPT ![o] = "FINISH"]
<1>1. \A p \in Object : sn[p] = IF p = o THEN "FINISH" ELSE st[p]
  OBVIOUS
<1> HIDE DEF sn
<1>2. ASSUME o \in P PROVE Sound(sn, R, F \cup {o}, P \ {o}, M, Q)
  <2>1. Apart(sn, R, F \cup {o}, P \ {o}, M, Q)
    BY <1>1, <1>2 DEF Sound, Apart
  <2>2. Reachable(sn, R, F \cup {o}, P \ {o}, M, Q)
    BY <1>1, <1>2 DEF Sound, Reachable
  <2>3. \A p \in Object : Waits(sn, P \ {o}, M, p) <=> Waits(st, P, M, p)
    BY <1>1, <1>2 DEF Waits
  <2>4. OneWaits(sn, P \ {o}, M)
    BY <2>3, SameWaits DEF Sound
  <2> QED
    BY <2>1, <2>2, <2>4 DEF Sound
<1>3. ASSUME o \in M PROVE Sound(sn, R, F \cup {o}, P, M \ {o}, Q)
  <2>1. Apart(sn, R, F \cup {o}, P, M \ {o}, Q)
    BY <1>1, <1>3 DEF Sound, Apart
  <2>2. Reachable(sn, R, F \cup {o}, P, M \ {o}, Q)
    BY <1>1, <1>3 DEF Sound, Reachable
  <2>3. \A p \in Object : Waits(sn, P, M \ {o}, p) <=> Waits(st, P, M, p)
    BY <1>1, <1>3 DEF Waits
  <2>4. OneWaits(sn, P, M \ {o})
    BY <2>3, SameWaits DEF Sound
  <2> QED
    BY <2>1, <2>2, <2>4 DEF Sound
<1> QED
  BY <1>2, <1>3 DEF sn

\* The event of Finish deletes a call.
LEMMA DelSound ==
  ASSUME NEW st, st = [o \in Object |-> st[o]], NEW R, NEW F, NEW P, NEW M, NEW Q,
         Sound(st, R, F, P, M, Q), NEW e \in Q, st[e.tag] = "FINISH"
  PROVE  Sound([st EXCEPT ![e.tag] = "NONE"], R, F, P, M, Q \ {e})
<1> DEFINE sn == [st EXCEPT ![e.tag] = "NONE"]
<1>1. e.tag \in Object /\ \A p \in Object : sn[p] = IF p = e.tag THEN "NONE" ELSE st[p]
  BY DEF Sound, Apart
<1> HIDE DEF sn
<1>2. Apart(sn, R, F, P, M, Q \ {e})
  BY <1>1 DEF Sound, Apart
<1>3. Reachable(sn, R, F, P, M, Q \ {e})
  BY <1>1 DEF Sound, Apart, Reachable
<1>4. \A p \in Object : Waits(sn, P, M, p) <=> Waits(st, P, M, p)
  BY <1>1 DEF Waits
<1>5. OneWaits(sn, P, M)
  BY <1>4, SameWaits DEF Sound
<1> QED
  BY <1>2, <1>3, <1>5 DEF Sound, sn

-----------------------------------------------------------------------------
(* What becomes of the objects.                                             *)

\* The two calls of Proceed in the constructors leave an object that is registered.
LEMMA NewCall ==
  ASSUME NEW type \in RequestType
  PROVE  /\ IsCall(New(type)) /\ New(type).status = "PROCESS" /\ New(type).type = type
         /\ New(type).method = Method(type) /\ Method(type) # ""
         /\ New(type).client = NoClient /\ New(type).reply = NewReply(type)
         /\ New(type).msgId = ""
<1> DEFINE x == [status |-> "CREATE", type |-> type, method |-> "", request |-> NewRequest(type),
                 reply |-> NewReply(type), client |-> NoClient, msgId |-> ""]
           y == [status |-> "PROCESS", type |-> type, method |-> Method(type),
                 request |-> NewRequest(type), reply |-> NewReply(type), client |-> NoClient,
                 msgId |-> ""]
<1>1. New(type) = Create(x)
  <2> DEFINE r == NewRequest(type)
             p == NewReply(type)
             n == Unused
  <2>1. n = [status |-> "NONE", type |-> "", method |-> "", request |-> <<>>, reply |-> <<>>,
             client |-> NoClient, msgId |-> ""]
    BY DEF Unused
  <2> HIDE DEF r, p, n
  <2>2. ASSUME NEW z, z = [n EXCEPT !.status = "CREATE", !.type = type, !.request = r, !.reply = p]
        PROVE  z = [status |-> "CREATE", type |-> type, method |-> "", request |-> r, reply |-> p,
                    client |-> NoClient, msgId |-> ""]
    BY <2>1, <2>2
  <2> QED
    BY <2>2 DEF New, BaseCreate, r, p, n
<1>2. Create(x) = y
  BY DEF Create
<1>3. Method(type) # ""
  <2>1. MethodName[0] = "Produce" /\ MethodName[1] = "Consume" /\ MethodName[2] = "ConsumeAck"
    BY DEF MethodName
  <2> QED
    BY <2>1 DEF Method, RequestType
<1>4. /\ IsCall(y) /\ y.status = "PROCESS" /\ y.type = type /\ y.method = Method(type)
      /\ y.client = NoClient /\ y.reply = NewReply(type) /\ y.msgId = ""
  BY DEF IsCall
<1> HIDE DEF x, y
<1> QED
  BY <1>1, <1>2, <1>3, <1>4

\* The next object of a class is one that does not exist.
LEMMA NewObject ==
  ASSUME NEW type \in RequestType, Free(type) # {}
  PROVE  NewObj(type) \in Object /\ NewObj(type)[1] = type /\ call[NewObj(type)].status = "NONE"
<1> DEFINE i == CHOOSE i \in Free(type) : TRUE
<1>1. i \in Free(type)
  OBVIOUS
<1>2. NewObj(type) = <<type, i>>
  BY DEF NewObj
<1> HIDE DEF i
<1> QED
  BY <1>1, <1>2 DEF Free, Object

\* With the next object.
LEMMA WithNextCalls ==
  ASSUME NEW c, Calls(c), NEW type \in RequestType, Free(type) # {}
  PROVE  /\ Calls(WithNext(c, type))
         /\ \A o \in Object : o # NewObj(type) => WithNext(c, type)[o] = c[o]
         /\ WithNext(c, type)[NewObj(type)].status = "PROCESS"
         /\ WithNext(c, type)[NewObj(type)].type = type
<1> DEFINE x == New(type)
           n == NewObj(type)
<1>1. IsCall(x) /\ x.status = "PROCESS" /\ x.type = type
  BY NewCall
<1>2. n \in Object
  BY NewObject
<1>3. WithNext(c, type) = [c EXCEPT ![n] = x]
  BY DEF WithNext
<1> HIDE DEF x, n
<1>4. /\ [c EXCEPT ![n] = x] = [o \in Object |-> [c EXCEPT ![n] = x][o]]
      /\ \A o \in Object : [c EXCEPT ![n] = x][o] = IF o = n THEN x ELSE c[o]
  BY <1>2 DEF Calls
<1>5. Calls([c EXCEPT ![n] = x])
  BY <1>1, <1>4 DEF Calls
<1> QED
  BY <1>1, <1>2, <1>3, <1>4, <1>5 DEF n

\* The changes of an object by Arrive, SendReply, Finished and ResponseMsg.
Received(x, request, c) == [x EXCEPT !.request = request, !.client = c]
Sent(x, request, reply) == [x EXCEPT !.request = request, !.reply = reply]
Replied(x, reply)       == [x EXCEPT !.reply = reply, !.status = "FINISH"]
Delivered(x, reply, m)  == [x EXCEPT !.reply = reply, !.status = "FINISH", !.msgId = m]

\* Setting fields of a call leaves it one, with the same type.
LEMMA FieldSet ==
  ASSUME NEW x, IsCall(x), NEW a, NEW b
  PROVE  /\ IsCall(Received(x, a, b)) /\ Received(x, a, b).status = x.status
         /\ Received(x, a, b).type = x.type
         /\ IsCall(Sent(x, a, b)) /\ Sent(x, a, b).status = x.status
         /\ Sent(x, a, b).type = x.type
         /\ IsCall(Replied(x, a)) /\ Replied(x, a).status = "FINISH"
         /\ Replied(x, a).type = x.type
         /\ IsCall(Delivered(x, a, b)) /\ Delivered(x, a, b).status = "FINISH"
         /\ Delivered(x, a, b).type = x.type
<1> DEFINE s == x.status
           t == x.type
           m == x.method
           r == x.request
           p == x.reply
           c == x.client
           i == x.msgId
<1>1. x = [status |-> s, type |-> t, method |-> m, request |-> r, reply |-> p, client |-> c,
           msgId |-> i]
  BY DEF IsCall
<1> HIDE DEF s, t, m, r, p, c, i
<1>2. ASSUME NEW y, y = [x EXCEPT !.request = a, !.client = b]
      PROVE  IsCall(y) /\ y.status = s /\ y.type = t
  <2>1. y = [status |-> s, type |-> t, method |-> m, request |-> a, reply |-> p,
             client |-> b, msgId |-> i]
    BY <1>1, <1>2
  <2> QED
    BY <2>1 DEF IsCall
<1>3. ASSUME NEW y, y = [x EXCEPT !.request = a, !.reply = b]
      PROVE  IsCall(y) /\ y.status = s /\ y.type = t
  <2>1. y = [status |-> s, type |-> t, method |-> m, request |-> a, reply |-> b,
             client |-> c, msgId |-> i]
    BY <1>1, <1>3
  <2> QED
    BY <2>1 DEF IsCall
<1>4. ASSUME NEW y, y = [x EXCEPT !.reply = a, !.status = "FINISH"]
      PROVE  IsCall(y) /\ y.status = "FINISH" /\ y.type = t
  <2>1. y = [status |-> "FINISH", type |-> t, method |-> m, request |-> r, reply |-> a,
             client |-> c, msgId |-> i]
    BY <1>1, <1>4
  <2> QED
    BY <2>1 DEF IsCall
<1>5. ASSUME NEW y, y = [x EXCEPT !.reply = a, !.status = "FINISH", !.msgId = b]
      PROVE  IsCall(y) /\ y.status = "FINISH" /\ y.type = t
  <2>1. y = [status |-> "FINISH", type |-> t, method |-> m, request |-> r, reply |-> a,
             client |-> c, msgId |-> b]
    BY <1>1, <1>5
  <2> QED
    BY <2>1 DEF IsCall
<1> QED
  BY <1>2, <1>3, <1>4, <1>5 DEF Received, Sent, Replied, Delivered, s, t

-----------------------------------------------------------------------------
(* The steps.                                                               *)

\* A step that changes one object, to x.
LEMMA OneChanged ==
  ASSUME IInv, NEW o \in Object, NEW x, IsCall(x), x.status \in {"NONE", "PROCESS", "FINISH"},
         x.type = IF x.status = "NONE" THEN "" ELSE o[1], call' = [call EXCEPT ![o] = x]
  PROVE  /\ Calls(call)' /\ Classes(call)'
         /\ Statuses(call') = [Statuses(call) EXCEPT ![o] = x.status]
<1>1. /\ call' = [p \in Object |-> call'[p]]
      /\ \A p \in Object : call'[p] = IF p = o THEN x ELSE call[p]
  BY DEF IInv, Calls
<1>2. Calls(call)'
  BY <1>1 DEF IInv, Calls, IsCall
<1>3. Statuses(call') = [Statuses(call) EXCEPT ![o] = x.status]
  BY <1>1 DEF Statuses
<1>4. Classes(call)'
  BY <1>1 DEF IInv, Classes
<1> QED
  BY <1>2, <1>3, <1>4

LEMMA StatusesShape == Statuses(call) = [o \in Object |-> Statuses(call)[o]]
  BY DEF Statuses

LEMMA ArriveInv ==
  ASSUME IInv, NEW c \in Client, NEW o \in Object, Arrive(c, o)
  PROVE  IInv'
<1> DEFINE p == ParseRequest(call[o].type, rpc[c].wire)
           x == Received(call[o], p.msg, c)
<1>1. CASE ~p.ok
  BY <1>1 DEF Arrive, workVars, IInv, Ownership
<1>2. CASE p.ok
  <2>1. /\ call' = [call EXCEPT ![o] = x]
        /\ requested' = requested \ {o}
        /\ queue' = queue \cup {[tag |-> o, ok |-> TRUE]}
        /\ UNCHANGED <<finishing, producing, matching, retryCount>>
    BY <1>2 DEF Arrive, workVars, IInv, Calls, Received
  <2>2. /\ IsCall(call[o]) /\ o \in requested /\ call[o].status = "PROCESS"
        /\ call[o].type = o[1]
    BY DEF IInv, Calls, Classes, Arrive, Ownership, Sound, Apart, Statuses
  <2>3. IsCall(x) /\ x.status = "PROCESS" /\ x.type = o[1]
    BY <2>2, FieldSet
  <2> HIDE DEF x
  <2>4. Calls(call)' /\ Classes(call)' /\ Statuses(call') = Statuses(call)
    <3>1. /\ Calls(call)' /\ Classes(call)'
          /\ Statuses(call') = [Statuses(call) EXCEPT ![o] = "PROCESS"]
      BY <2>1, <2>2, <2>3, OneChanged
    <3>2. Statuses(call)[o] = "PROCESS"
      BY <2>2 DEF Statuses
    <3> QED
      BY <3>1, <3>2, StatusesShape
  <2>5. Sound(Statuses(call), requested \ {o}, finishing, producing, matching,
              queue \cup {[tag |-> o, ok |-> TRUE]})
    BY <2>2, ArriveSound DEF IInv, Ownership
  <2> QED
    BY <2>1, <2>4, <2>5 DEF IInv, Ownership
<1> QED
  BY <1>1, <1>2

LEMMA SendReplyInv ==
  ASSUME IInv, NEW o \in Object, SendReply(o)
  PROVE  IInv'
<1> DEFINE x == Sent(call[o], <<>>, <<>>)
<1>1. PICK ok \in BOOLEAN : queue' = queue \cup {[tag |-> o, ok |-> ok]}
  BY DEF SendReply
<1>2. /\ call' = [call EXCEPT ![o] = x] /\ finishing' = finishing \ {o}
      /\ UNCHANGED <<requested, producing, matching, retryCount>>
  BY DEF SendReply, workVars, IInv, Calls, Sent
<1>3. /\ IsCall(call[o]) /\ o \in finishing /\ call[o].status = "FINISH"
      /\ call[o].type = o[1]
  BY DEF IInv, Calls, Classes, SendReply, Ownership, Sound, Apart, Statuses
<1>4. IsCall(x) /\ x.status = "FINISH" /\ x.type = o[1]
  BY <1>3, FieldSet
<1> HIDE DEF x
<1>5. Calls(call)' /\ Classes(call)' /\ Statuses(call') = Statuses(call)
  <2>1. /\ Calls(call)' /\ Classes(call)'
        /\ Statuses(call') = [Statuses(call) EXCEPT ![o] = "FINISH"]
    BY <1>2, <1>3, <1>4, OneChanged
  <2>2. Statuses(call)[o] = "FINISH"
    BY <1>3 DEF Statuses
  <2> QED
    BY <2>1, <2>2, StatusesShape
<1>6. Sound(Statuses(call), requested, finishing \ {o}, producing, matching,
            queue \cup {[tag |-> o, ok |-> ok]})
  BY <1>3, ReplySound DEF IInv, Ownership
<1> QED
  BY <1>1, <1>2, <1>5, <1>6 DEF IInv, Ownership

\* An answer by another thread: the object x in place of o.
LEMMA AnswerInv ==
  ASSUME IInv, NEW o \in Object, NEW x, NEW reply, NEW m,
         x = Replied(call[o], reply) \/ x = Delivered(call[o], reply, m),
         call' = [call EXCEPT ![o] = x], finishing' = finishing \cup {o},
         UNCHANGED <<requested, queue>>,
         \/ o \in producing /\ producing' = producing \ {o} /\ UNCHANGED matching
         \/ o \in matching /\ matching' = matching \ {o} /\ UNCHANGED producing,
         retryCount' \in {retryCount, [retryCount EXCEPT ![o] = @ + 1]}
  PROVE  IInv'
<1>1. IsCall(call[o]) /\ call[o].status = "PROCESS" /\ call[o].type = o[1]
  BY DEF IInv, Calls, Classes, Ownership, Sound, Apart, Statuses
<1>2. IsCall(x) /\ x.status = "FINISH" /\ x.type = o[1]
  BY <1>1, FieldSet
<1>3. /\ Calls(call)' /\ Classes(call)'
      /\ Statuses(call') = [Statuses(call) EXCEPT ![o] = x.status]
  <2>1. x.status \in {"NONE", "PROCESS", "FINISH"}
        /\ x.type = IF x.status = "NONE" THEN "" ELSE o[1]
    BY <1>2
  <2> QED
    BY <1>2, <2>1, OneChanged
<1> DEFINE st == Statuses(call)
           sn == [st EXCEPT ![o] = "FINISH"]
<1>4. /\ o \in producing =>
            Sound(sn, requested, finishing \cup {o}, producing \ {o}, matching, queue)
      /\ o \in matching =>
            Sound(sn, requested, finishing \cup {o}, producing, matching \ {o}, queue)
  <2>1. st = [p \in Object |-> st[p]]
    BY StatusesShape
  <2>2. Sound(st, requested, finishing, producing, matching, queue)
    BY DEF IInv, Ownership
  <2> HIDE DEF st
  <2> QED
    BY <2>1, <2>2, AnswerSound
<1>5. Ownership'
  BY <1>2, <1>3, <1>4 DEF Ownership
<1>6. Counted(Statuses(call), retryCount)'
  <2>1. Counted(st, retryCount) /\ st[o] # "FINISH"
    BY <1>1 DEF IInv, Statuses
  <2>2. Counted(sn, retryCount')
    BY <2>1, StatusesShape, MaxRetryAssumption DEF Counted
  <2> QED
    BY <1>2, <1>3, <2>2
<1> QED
  BY <1>3, <1>5, <1>6 DEF IInv

\* A message is delivered.
LEMMA ResponseMsgCall ==
  ASSUME IInv, NEW o \in Object, NEW m \in MsgId, ResponseMsg(o, m)
  PROVE  call' = [call EXCEPT ![o] =
                    Delivered(call[o], SetConsumeReply(call[o].reply, RESPONSE_SUCCESS, m,
                                                       Body[m], ""), m)]
<1> DEFINE r == SetConsumeReply(call[o].reply, RESPONSE_SUCCESS, m, Body[m], "")
           x == Delivered(call[o], r, m)
<1>1. call' = [[call EXCEPT ![o] = Replied(call[o], r)]
                 EXCEPT ![o] = [[call EXCEPT ![o] = Replied(call[o], r)][o] EXCEPT !.msgId = m]]
  BY DEF ResponseMsg, Finished, Replied, IInv, Calls
<1>2. call' = [call EXCEPT ![o] = [Replied(call[o], r) EXCEPT !.msgId = m]]
  <2> DEFINE z == Replied(call[o], r)
  <2> HIDE DEF z, r
  <2> QED
    BY <1>1 DEF IInv, Calls, z
<1>3. [Replied(call[o], r) EXCEPT !.msgId = m] = x
  BY DEF Replied, Delivered
<1> QED
  BY <1>2, <1>3

\* process() and the next object of the class: finish and hand are what becomes of the
\* objects when the call is answered at once, and when it is handed over.
LEMMA ProcessCalls ==
  ASSUME IInv, NEW o \in Object, call[o].status = "PROCESS", NEW type \in RequestType,
         Free(type) # {}, NEW r
  PROVE  LET n == NewObj(type)
             finish == WithNext(Finished(o, r), type)
             hand == WithNext(call, type)
         IN  /\ n \in Object /\ n[1] = type /\ Statuses(call)[n] = "NONE"
             /\ Calls(finish) /\ Classes(finish)
             /\ Statuses(finish) = [Statuses(call) EXCEPT ![o] = "FINISH", ![n] = "PROCESS"]
             /\ Calls(hand) /\ Classes(hand)
             /\ Statuses(hand) = [Statuses(call) EXCEPT ![n] = "PROCESS"]
<1> DEFINE n == NewObj(type)
           x == Replied(call[o], r)
           c == Finished(o, r)
           finish == WithNext(c, type)
           hand == WithNext(call, type)
<1>1. n \in Object /\ n[1] = type /\ call[n].status = "NONE"
  BY NewObject
<1>2. call[o].type = o[1] /\ n # o /\ IsCall(call[o])
  BY <1>1 DEF IInv, Classes, Calls
<1>3. IsCall(x) /\ x.status = "FINISH" /\ x.type = o[1]
  BY <1>2, FieldSet
<1>4. Calls(c) /\ \A p \in Object : c[p] = IF p = o THEN x ELSE call[p]
  <2>1. c = [call EXCEPT ![o] = x]
    BY DEF Finished, Replied, IInv, Calls
  <2> HIDE DEF c, x
  <2>2. c = [p \in Object |-> c[p]] /\ \A p \in Object : c[p] = IF p = o THEN x ELSE call[p]
    BY <2>1 DEF IInv, Calls
  <2> QED
    BY <1>3, <2>2 DEF IInv, Calls
<1>5. /\ Calls(hand) /\ hand[n].status = "PROCESS" /\ hand[n].type = type
      /\ \A p \in Object : p # n => hand[p] = call[p]
  BY WithNextCalls DEF IInv
<1> HIDE DEF c, x, hand
<1>6. /\ Calls(finish) /\ finish[n].status = "PROCESS" /\ finish[n].type = type
      /\ \A p \in Object : p # n => finish[p] = c[p]
  BY <1>4, WithNextCalls
<1> HIDE DEF n, finish
<1>7. Classes(finish)
  <2> SUFFICES ASSUME NEW p \in Object
               PROVE  /\ finish[p].status \in {"NONE", "PROCESS", "FINISH"}
                      /\ finish[p].type = IF finish[p].status = "NONE" THEN "" ELSE p[1]
    BY DEF Classes
  <2>1. CASE p = n
    BY <1>1, <1>6, <2>1
  <2>2. CASE p = o
    <3>1. finish[p] = x
      BY <1>2, <1>4, <1>6, <2>2
    <3> QED
      BY <1>2, <1>3, <2>2, <3>1
  <2>3. CASE p # n /\ p # o
    <3>1. finish[p] = call[p]
      BY <1>4, <1>6, <2>3
    <3> QED
      BY <3>1 DEF IInv, Classes
  <2> QED
    BY <2>1, <2>2, <2>3
<1>8. Classes(hand)
  BY <1>1, <1>2, <1>5 DEF IInv, Classes
<1>9. Statuses(finish) = [Statuses(call) EXCEPT ![o] = "FINISH", ![n] = "PROCESS"]
  BY <1>1, <1>2, <1>3, <1>4, <1>6 DEF Statuses
<1>10. Statuses(hand) = [Statuses(call) EXCEPT ![n] = "PROCESS"]
  BY <1>1, <1>5 DEF Statuses
<1>11. Statuses(call)[n] = "NONE"
  BY <1>1 DEF Statuses
<1> QED
  BY <1>1, <1>2, <1>5, <1>6, <1>7, <1>8, <1>9, <1>10, <1>11 DEF n, c, finish, hand

LEMMA ProcessInv ==
  ASSUME IInv, NEW e, ProcessProduce(e) \/ ProcessConsume(e) \/ ProcessAck(e)
  PROVE  IInv'
<1> DEFINE o == e.tag
           type == call[o].type
           n == NewObj(type)
           st == Statuses(call)
<1>1. /\ e \in queue /\ o \in Object /\ call[o].status = "PROCESS"
      /\ type \in RequestType /\ type = o[1] /\ Free(type) # {}
      /\ queue' = queue \ {e} /\ retryCount' = retryCount
  <2>1. /\ e \in queue /\ call[o].status = "PROCESS" /\ queue' = queue \ {e}
        /\ retryCount' = retryCount
    BY DEF ProcessProduce, ProcessConsume, ProcessAck, Proceed
  <2>2. type \in RequestType /\ Free(type) # {}
    BY DEF ProcessProduce, TryProduce, ProcessConsume, ProcessAck, Proceed, RequestType
  <2>3. o \in Object
    BY <2>1 DEF IInv, Ownership, Sound, Apart
  <2> QED
    BY <2>1, <2>2, <2>3 DEF IInv, Classes
<1>2. requested' = requested \cup {n}
  <2>1. New(type).method # ""
    BY <1>1, NewCall
  <2> QED
    BY <2>1 DEF ProcessProduce, TryProduce, ProcessConsume, ProcessAck, Proceed, RegisterNext
<1>3. /\ n \in Object /\ n[1] = o[1] /\ st[n] = "NONE" /\ st[o] = "PROCESS"
      /\ st = [p \in Object |-> st[p]]
  <2>1. n \in Object /\ n[1] = o[1] /\ st[n] = "NONE"
    BY <1>1, ProcessCalls
  <2> QED
    BY <1>1, <2>1 DEF Statuses
<1>4. /\ Sound([st EXCEPT ![o] = "FINISH", ![n] = "PROCESS"], requested \cup {n},
               finishing \cup {o}, producing, matching, queue \ {e})
      /\ Sound([st EXCEPT ![n] = "PROCESS"], requested \cup {n}, finishing,
               producing \cup {o}, matching, queue \ {e})
      /\ Sound([st EXCEPT ![n] = "PROCESS"], requested \cup {n}, finishing, producing,
               matching \cup {o}, queue \ {e})
  <2>1. Sound(st, requested, finishing, producing, matching, queue)
    BY DEF IInv, Ownership
  <2> HIDE DEF st, n
  <2> QED
    BY <1>1, <1>3, <2>1, ProcessSound
<1>5. /\ Counted([st EXCEPT ![o] = "FINISH", ![n] = "PROCESS"], retryCount)
      /\ Counted([st EXCEPT ![n] = "PROCESS"], retryCount)
  <2>1. Counted(st, retryCount)
    BY DEF IInv
  <2> HIDE DEF st, n
  <2> QED
    BY <1>3, <2>1 DEF Counted
<1>6. ASSUME NEW r, call' = WithNext(Finished(o, r), type), finishing' = finishing \cup {o},
             UNCHANGED <<producing, matching>>
      PROVE  IInv'
  <2> DEFINE finish == WithNext(Finished(o, r), type)
  <2>1. /\ Calls(finish) /\ Classes(finish)
        /\ Statuses(finish) = [st EXCEPT ![o] = "FINISH", ![n] = "PROCESS"]
    <3> DEFINE p == o
               t == type
    <3>1. p \in Object /\ call[p].status = "PROCESS" /\ t \in RequestType /\ Free(t) # {}
      BY <1>1
    <3>2. /\ Calls(WithNext(Finished(p, r), t)) /\ Classes(WithNext(Finished(p, r), t))
          /\ Statuses(WithNext(Finished(p, r), t))
               = [Statuses(call) EXCEPT ![p] = "FINISH", ![NewObj(t)] = "PROCESS"]
      <4> HIDE DEF p, t
      <4>1. Calls(WithNext(Finished(p, r), t))
        BY <3>1, ProcessCalls
      <4>2. Classes(WithNext(Finished(p, r), t))
        BY <3>1, ProcessCalls
      <4>3. Statuses(WithNext(Finished(p, r), t))
               = [Statuses(call) EXCEPT ![p] = "FINISH", ![NewObj(t)] = "PROCESS"]
        BY <3>1, ProcessCalls
      <4> QED
        BY <4>1, <4>2, <4>3
    <3> QED
      BY <3>2
  <2> HIDE DEF st, n
  <2>2. call' = finish
    BY <1>6
  <2> HIDE DEF finish
  <2>3. Calls(call)'
    BY <2>1, <2>2 DEF Calls, IsCall
  <2>4. Classes(call)'
    BY <2>1, <2>2 DEF Classes
  <2>5. Ownership'
    BY <1>1, <1>2, <1>4, <1>6, <2>1, <2>2 DEF Ownership
  <2>6. Counted(Statuses(call), retryCount)'
    BY <1>1, <1>5, <2>1, <2>2
  <2> QED
    BY <2>3, <2>4, <2>5, <2>6 DEF IInv
<1>7. ASSUME call' = WithNext(call, type), UNCHANGED finishing,
             \/ producing' = producing \cup {o} /\ UNCHANGED matching
             \/ matching' = matching \cup {o} /\ UNCHANGED producing
      PROVE  IInv'
  <2>1. /\ Calls(call') /\ Classes(call')
        /\ Statuses(call') = [st EXCEPT ![n] = "PROCESS"]
    BY <1>1, <1>7, ProcessCalls
  <2> HIDE DEF st, n
  <2>2. Calls(call)' /\ Classes(call)'
    BY <2>1 DEF Calls, Classes, IsCall
  <2>3. Ownership'
    BY <1>1, <1>2, <1>4, <1>7, <2>1 DEF Ownership
  <2>4. Counted(Statuses(call), retryCount)'
    BY <1>1, <1>5, <2>1
  <2> QED
    BY <2>2, <2>3, <2>4 DEF IInv
<1>8. CASE ProcessProduce(e)
  <2>1. type = "REQUEST_PRODUCE" /\ UNCHANGED matching
    BY <1>8 DEF ProcessProduce, Proceed
  <2>2. o \notin producing
    BY <1>1 DEF IInv, Ownership, Sound, Apart
  <2>3. \/ /\ call' = WithNext(call, type) /\ producing' = producing \cup {o}
           /\ UNCHANGED finishing
        \/ \E r : /\ call' = WithNext(Finished(o, r), type)
                 /\ producing' = producing \ {o} /\ finishing' = finishing \cup {o}
    BY <1>8, <2>1 DEF ProcessProduce, TryProduce
  <2>4. producing \ {o} = producing
    BY <2>2
  <2> QED
    BY <1>6, <1>7, <2>1, <2>3, <2>4
<1>9. CASE ProcessConsume(e)
  BY <1>7, <1>9 DEF ProcessConsume, Proceed
<1>10. CASE ProcessAck(e)
  <2>1. type = "REQUEST_CONSUME_ACK" /\ UNCHANGED <<producing, matching>>
        /\ finishing' = finishing \cup {o}
    BY <1>10 DEF ProcessAck, Proceed, workVars
  <2>2. \E r : call' = WithNext(Finished(o, r), type)
    BY <1>10, <2>1 DEF ProcessAck
  <2> QED
    BY <1>6, <2>1, <2>2
<1> QED
  BY <1>8, <1>9, <1>10

\* A Produce call that failed is retried.
LEMMA RetryInv ==
  ASSUME IInv, NEW o \in Object, o \in producing, TryProduce(o),
         retryCount' = [retryCount EXCEPT ![o] = @ + 1], ~(retryCount[o] + 1 > MaxRetry),
         UNCHANGED <<queue, matching>>
  PROVE  IInv'
<1> DEFINE type == "REQUEST_PRODUCE"
           n == NewObj(type)
           st == Statuses(call)
           finish == [st EXCEPT ![o] = "FINISH", ![n] = "PROCESS"]
           hand == [st EXCEPT ![n] = "PROCESS"]
<1>1. type \in RequestType /\ Free(type) # {} /\ requested' = requested \cup {n}
  <2>1. type \in RequestType
    BY DEF RequestType
  <2>2. New(type).method # ""
    BY <2>1, NewCall, ZenonT(40)
  <2> QED
    BY <2>1, <2>2 DEF TryProduce, RegisterNext
<1>2. n \in Object /\ n[1] = type /\ st[n] = "NONE" /\ n # o /\ st[o] = "PROCESS"
  <2>1. n \in Object /\ n[1] = type /\ call[n].status = "NONE"
    BY <1>1, NewObject
  <2>2. st[o] = "PROCESS" /\ st[n] = "NONE"
    BY <2>1 DEF IInv, Ownership, Sound, Apart, Statuses
  <2> QED
    BY <2>1, <2>2
<1>3. /\ Sound(hand, requested \cup {n}, finishing, producing, matching, queue)
      /\ Sound(finish, requested \cup {n}, finishing \cup {o}, producing \ {o}, matching, queue)
  <2>1. Sound(st, requested, finishing, producing, matching, queue)
        /\ st = [p \in Object |-> st[p]]
    BY StatusesShape DEF IInv, Ownership
  <2> HIDE DEF st, n
  <2> QED
    BY <1>2, <2>1, RetrySound
<1>4. Counted(hand, retryCount') /\ Counted(finish, retryCount')
  <2>1. Counted(st, retryCount) /\ st = [p \in Object |-> st[p]]
    BY StatusesShape DEF IInv
  <2>2. \A p \in Object : /\ hand[p] = IF p = n THEN "PROCESS" ELSE st[p]
                          /\ finish[p] = IF p = n THEN "PROCESS" ELSE
                                         IF p = o THEN "FINISH" ELSE st[p]
    BY <1>2, <2>1
  <2> HIDE DEF st, n, hand, finish
  <2>3. retryCount' \in [Object -> 0..MaxRetry + 1]
    BY <2>1, MaxRetryAssumption DEF Counted
  <2>4. \A p \in Object : retryCount'[p] = IF p = o THEN retryCount[o] + 1 ELSE retryCount[p]
    BY <2>1 DEF Counted
  <2>5. retryCount[o] + 1 <= MaxRetry
    BY <2>1, MaxRetryAssumption DEF Counted
  <2>6. \A p \in Object : st[p] # "FINISH" \/ p = n => retryCount'[p] <= MaxRetry
    BY <1>2, <2>1, <2>4, <2>5 DEF Counted
  <2> QED
    BY <2>2, <2>3, <2>6 DEF Counted
<1>5. call[o].status = "PROCESS"
  BY <1>2 DEF Statuses
<1>6. producing \cup {o} = producing
  OBVIOUS
<1>7. CASE call' = WithNext(call, type) /\ producing' = producing /\ UNCHANGED finishing
  <2>1. Calls(call') /\ Classes(call') /\ Statuses(call') = hand
    BY <1>1, <1>5, <1>7, ProcessCalls
  <2> QED
    BY <1>1, <1>3, <1>4, <1>7, <2>1 DEF IInv, Ownership, Calls, Classes, IsCall
<1>8. ASSUME NEW r, call' = WithNext(Finished(o, r), type), producing' = producing \ {o},
             finishing' = finishing \cup {o}
      PROVE  IInv'
  <2>1. Calls(call') /\ Classes(call') /\ Statuses(call') = finish
    BY <1>1, <1>5, <1>8, ProcessCalls
  <2> QED
    BY <1>1, <1>3, <1>4, <1>8, <2>1 DEF IInv, Ownership, Calls, Classes, IsCall
<1> QED
  BY <1>6, <1>7, <1>8 DEF TryProduce

LEMMA RespondInv ==
  ASSUME IInv, NEW o \in Object, Respond(o) \/ \E m \in MsgId : ResponseMsg(o, m)
  PROVE  IInv'
<1>1. \A r : Finished(o, r) = [call EXCEPT ![o] = Replied(call[o], r)]
  BY DEF Finished, Replied, IInv, Calls
<1>2. CASE SuccessFunc(o)
  BY <1>1, <1>2, AnswerInv DEF SuccessFunc, Answer
<1>3. CASE FailureFunc(o)
  <2>1. CASE retryCount[o] + 1 > MaxRetry
    BY <1>1, <1>3, <2>1, AnswerInv DEF FailureFunc, Answer
  <2>2. CASE ~(retryCount[o] + 1 > MaxRetry)
    BY <1>3, <2>2, RetryInv DEF FailureFunc
  <2> QED
    BY <2>1, <2>2
<1>4. CASE ResponseTimeOut(o)
  BY <1>1, <1>4, AnswerInv DEF ResponseTimeOut, Answer
<1>5. ASSUME NEW m \in MsgId, ResponseMsg(o, m) PROVE IInv'
  <2> DEFINE r == SetConsumeReply(call[o].reply, RESPONSE_SUCCESS, m, Body[m], "")
             x == Delivered(call[o], r, m)
  <2>1. call' = [call EXCEPT ![o] = x]
    BY <1>5, ResponseMsgCall
  <2> QED
    BY <1>5, <2>1, AnswerInv DEF ResponseMsg
<1> QED
  BY <1>2, <1>3, <1>4, <1>5 DEF Respond

LEMMA DelInv ==
  ASSUME IInv, NEW e, Del(e) \/ Cancel(e)
  PROVE  IInv'
<1> DEFINE o == e.tag
           st == Statuses(call)
<1>1. /\ e \in queue /\ queue' = queue \ {e} /\ call' = [call EXCEPT ![o] = Unused]
      /\ retryCount' = [retryCount EXCEPT ![o] = 0]
      /\ UNCHANGED <<requested, finishing, producing, matching>>
  BY DEF Del, Cancel, Proceed, workVars
<1>2. o \in Object /\ st[o] = "FINISH" /\ st = [p \in Object |-> st[p]]
  <2>1. o \in Object
    BY <1>1 DEF IInv, Ownership, Sound, Apart
  <2>2. CASE Del(e)
    BY <2>1, <2>2 DEF Del, Proceed, Statuses
  <2>3. CASE Cancel(e)
    BY <1>1, <2>1, <2>3 DEF Cancel, IInv, Ownership, Sound, Apart, Statuses
  <2> QED
    BY <2>1, <2>2, <2>3 DEF Statuses
<1>3. IsCall(Unused) /\ Unused.status = "NONE" /\ Unused.type = ""
  BY DEF Unused, IsCall
<1>4. /\ Calls(call)' /\ Classes(call)' /\ Statuses(call') = [st EXCEPT ![o] = "NONE"]
  <2> DEFINE x == Unused
  <2>1. /\ IsCall(x) /\ x.status \in {"NONE", "PROCESS", "FINISH"}
        /\ x.type = IF x.status = "NONE" THEN "" ELSE o[1]
    BY <1>3
  <2>2. call' = [call EXCEPT ![o] = x]
    BY <1>1
  <2>3. x.status = "NONE"
    BY <1>3
  <2> HIDE DEF x
  <2>4. /\ Calls(call)' /\ Classes(call)'
        /\ Statuses(call') = [Statuses(call) EXCEPT ![o] = x.status]
    BY <1>2, <2>1, <2>2, OneChanged
  <2> QED
    BY <2>3, <2>4
<1>5. Sound([st EXCEPT ![o] = "NONE"], requested, finishing, producing, matching, queue \ {e})
  <2>1. Sound(st, requested, finishing, producing, matching, queue)
    BY DEF IInv, Ownership
  <2> HIDE DEF st
  <2> QED
    BY <1>1, <1>2, <2>1, DelSound
<1>6. Counted([st EXCEPT ![o] = "NONE"], retryCount')
  <2>1. Counted(st, retryCount)
    BY DEF IInv
  <2> HIDE DEF st
  <2> QED
    BY <1>1, <1>2, <2>1, MaxRetryAssumption DEF Counted
<1> QED
  BY <1>1, <1>4, <1>5, <1>6 DEF IInv, Ownership

-----------------------------------------------------------------------------
(* The specification.                                                       *)

LEMMA InitInv ==
  ASSUME Init
  PROVE  IInv
<1> DEFINE st == Statuses(call)
<1>1. \A o \in Object : o[1] \in RequestType /\ o[2] \in 1..Copies[o[1]] /\ o = <<o[1], o[2]>>
  BY ObjectShape
<1>2. IsCall(Unused) /\ Unused.status = "NONE" /\ Unused.type = "" /\ Unused.method = ""
  BY DEF Unused, IsCall
<1>3. /\ call = [o \in Object |-> call[o]]
      /\ \A o \in Object : call[o] = IF o[2] = 1 THEN New(o[1]) ELSE Unused
  BY DEF Init, ServerInit
<1>4. \A o \in Object :
        /\ IsCall(call[o])
        /\ call[o].status = IF o[2] = 1 THEN "PROCESS" ELSE "NONE"
        /\ call[o].type = IF o[2] = 1 THEN o[1] ELSE ""
        /\ o[2] = 1 <=> call[o].method # ""
  <2> SUFFICES ASSUME NEW o \in Object
               PROVE  /\ IsCall(call[o])
                      /\ call[o].status = IF o[2] = 1 THEN "PROCESS" ELSE "NONE"
                      /\ call[o].type = IF o[2] = 1 THEN o[1] ELSE ""
                      /\ o[2] = 1 <=> call[o].method # ""
    OBVIOUS
  <2>1. CASE o[2] = 1
    <3>1. call[o] = New(o[1]) /\ o[1] \in RequestType
      BY <1>1, <1>3, <2>1
    <3>2. /\ IsCall(New(o[1])) /\ New(o[1]).status = "PROCESS" /\ New(o[1]).type = o[1]
          /\ New(o[1]).method # ""
      BY <3>1, NewCall, ZenonT(40)
    <3> QED
      BY <2>1, <3>1, <3>2
  <2>2. CASE o[2] # 1
    BY <1>2, <1>3, <2>2
  <2> QED
    BY <2>1, <2>2
<1>5. Calls(call) /\ Classes(call)
  BY <1>3, <1>4 DEF Calls, Classes
<1>6. \A o \in Object : st[o] = IF o[2] = 1 THEN "PROCESS" ELSE "NONE"
  BY <1>4 DEF Statuses
<1>7. /\ requested = {o \in Object : o[2] = 1}
      /\ finishing = {} /\ queue = {} /\ producing = {} /\ matching = {}
  BY <1>4 DEF Init, ServerInit
<1> HIDE DEF st
<1>8. Apart(st, requested, finishing, producing, matching, queue)
  BY <1>6, <1>7 DEF Apart
<1>9. Reachable(st, requested, finishing, producing, matching, queue)
  BY <1>6, <1>7 DEF Reachable
<1>10. OneWaits(st, producing, matching)
  <2>1. \A o \in Object : Waits(st, producing, matching, o) <=> o[2] = 1
    BY <1>6, <1>7 DEF Waits
  <2>2. ASSUME NEW type \in RequestType
        PROVE  <<type, 1>> \in Object /\ <<type, 1>>[1] = type /\ <<type, 1>>[2] = 1
    BY CopiesAssumption DEF Object
  <2>3. \A o, p \in Object : o[1] = p[1] /\ o[2] = 1 /\ p[2] = 1 => o = p
    BY <1>1
  <2>4. ASSUME NEW type \in RequestType
        PROVE  \E w \in Object : w[1] = type /\ Waits(st, producing, matching, w)
    BY <2>1, <2>2
  <2>5. ASSUME NEW o \in Object, NEW p \in Object, o[1] = p[1],
               Waits(st, producing, matching, o), Waits(st, producing, matching, p)
        PROVE  o = p
    BY <2>1, <2>3, <2>5
  <2> QED
    BY <2>4, <2>5 DEF OneWaits
<1>11. Counted(st, retryCount)
  <2>1. retryCount = [o \in Object |-> 0]
    BY DEF Init, ServerInit
  <2>2. 0 \in 0..MaxRetry + 1 /\ 0 <= MaxRetry
    BY MaxRetryAssumption
  <2> QED
    BY <2>1, <2>2 DEF Counted
<1> QED
  BY <1>5, <1>8, <1>9, <1>10, <1>11 DEF IInv, Ownership, Sound, st

LEMMA StepInv ==
  ASSUME IInv, [Next]_vars
  PROVE  IInv'
<1>1. ASSUME UNCHANGED <<call, requested, finishing, queue, producing, matching, retryCount>>
      PROVE  IInv'
  BY <1>1 DEF IInv, Calls, Classes, IsCall, Ownership
<1>2. ASSUME NEW o \in Object, NEW c \in Client, Arrive(c, o)
      PROVE  IInv'
  BY <1>2, ArriveInv
<1>3. ASSUME NEW o \in Object, SendReply(o)
      PROVE  IInv'
  BY <1>3, SendReplyInv
<1>4. ASSUME NEW o \in Object, Handle(o)
      PROVE  IInv'
  BY <1>4, ProcessInv, DelInv DEF Handle
<1>5. ASSUME NEW o \in Object, Respond(o) \/ \E m \in MsgId : ResponseMsg(o, m)
      PROVE  IInv'
  BY <1>5, RespondInv
<1>6. ASSUME NEW m \in MsgId, AckTimeOut(m) \/ UnlockAll(m)
      PROVE  IInv'
  BY <1>1, <1>6 DEF AckTimeOut, UnlockAll, OnlyStore, workVars
<1>7. ASSUME NEW c \in Client, Send(c) \/ Return(c) \/ Kill(c)
      PROVE  IInv'
  <2>1. ServerUnchanged
    <3>1. CASE Send(c)
      BY <3>1 DEF Send, Produce, Consume, ConsumeAck, PhpProduce, PhpConsume, PhpConsumeAck
    <3>2. CASE Return(c)
      BY <3>2, ZenonT(40) DEF Return, Returned, ProduceReturned, ConsumeReturned, AckReturned,
                              PhpConsumeReturned, PhpReturned, Exit
    <3>3. CASE Kill(c)
      BY <3>3 DEF Kill
    <3> QED
      BY <1>7, <3>1, <3>2, <3>3
  <2> QED
    BY <1>1, <2>1 DEF ServerUnchanged, workVars
<1>8. CASE UNCHANGED vars
  BY <1>1, <1>8 DEF vars, serverVars, workVars
<1> QED
  BY <1>2, <1>3, <1>4, <1>5, <1>6, <1>7, <1>8 DEF Next, ServerNext

\* In every state each call object is in one place, which fits its status, and one of
\* each class waits: what HandleRpcs, the callbacks and the matcher do with the tags.
THEOREM Invariance == Spec => []IInv
<1>1. Init => IInv
  BY InitInv
<1>2. IInv /\ [Next]_vars => IInv'
  BY StepInv
<1> QED
  BY <1>1, <1>2, PTL DEF Spec

-----------------------------------------------------------------------------
(* What the places amount to.                                               *)

\* The events that have the tag of o.
LEMMA EventsCounted ==
  ASSUME NEW o, NEW Q, \A e, f \in Q : e.tag = f.tag => e = f
  PROVE  Cardinality({e \in Q : e.tag = o}) = IF \E e \in Q : e.tag = o THEN 1 ELSE 0
<1>1. CASE \E e \in Q : e.tag = o
  <2>1. PICK e \in Q : e.tag = o
    BY <1>1
  <2>2. {f \in Q : f.tag = o} = {e}
    BY <2>1
  <2> QED
    BY <1>1, <2>2, FS_Singleton
<1>2. CASE ~\E e \in Q : e.tag = o
  <2>1. {e \in Q : e.tag = o} = {}
    BY <1>2
  <2> QED
    BY <1>2, <2>1, FS_EmptySet
<1> QED
  BY <1>1, <1>2

\* The places that o is in, if it is not in two.
LEMMA PlacesCounted ==
  ASSUME NEW o, NEW R, NEW F, NEW P, NEW M,
         o \in R => o \notin F \cup P \cup M, o \in F => o \notin P \cup M, o \in P => o \notin M
  PROVE  Cardinality({s \in {1, 2, 3, 4} : o \in <<R, F, P, M>>[s]})
           = IF o \in R \cup F \cup P \cup M THEN 1 ELSE 0
<1> DEFINE S == {s \in {1, 2, 3, 4} : o \in <<R, F, P, M>>[s]}
<1>1. /\ 1 \in S <=> o \in R
      /\ 2 \in S <=> o \in F
      /\ 3 \in S <=> o \in P
      /\ 4 \in S <=> o \in M
      /\ S \subseteq {1, 2, 3, 4}
  OBVIOUS
<1> HIDE DEF S
<1>2. CASE o \notin R \cup F \cup P \cup M
  <2>1. S = {}
    BY <1>1, <1>2
  <2>2. Cardinality(S) = 0
    BY <2>1, FS_EmptySet
  <2> QED
    BY <1>2, <2>2 DEF S
<1>3. CASE o \in R \cup F \cup P \cup M
  <2>1. PICK k \in {1, 2, 3, 4} : S = {k}
    <3>1. S = {1} \/ S = {2} \/ S = {3} \/ S = {4}
      BY <1>1, <1>3
    <3> QED
      BY <3>1
  <2>2. Cardinality(S) = 1
    BY <2>1, FS_Singleton
  <2> QED
    BY <1>3, <2>2 DEF S
<1> QED
  BY <1>2, <1>3

\* An object in PROCESS or FINISH has one tag or pointer out, and one that is deleted
\* none: no event or callback comes for an object that is gone, and none comes twice.
THEOREM Referenced == Spec => []ReferencedOnce
<1>1. ASSUME IInv PROVE ReferencedOnce
  <2> SUFFICES ASSUME NEW o \in Object
               PROVE  /\ References(o) = IF call[o].status = "NONE" THEN 0 ELSE 1
                      /\ o \in requested \cup producing \cup matching => call[o].status = "PROCESS"
                      /\ o \in finishing => call[o].status = "FINISH"
    BY DEF ReferencedOnce
  <2> DEFINE st == Statuses(call)
             event == \E e \in queue : e.tag = o
  <2>1. /\ st[o] = call[o].status
        /\ Apart(st, requested, finishing, producing, matching, queue)
        /\ Reachable(st, requested, finishing, producing, matching, queue)
    BY <1>1 DEF IInv, Ownership, Sound, Statuses
  <2> HIDE DEF st
  <2>2. \A e, f \in queue : e.tag = f.tag => e = f
    BY <2>1 DEF Apart
  <2>3. Cardinality({e \in queue : e.tag = o}) = IF event THEN 1 ELSE 0
    BY <2>2, EventsCounted
  <2>4. Cardinality({s \in {1, 2, 3, 4} : o \in <<requested, finishing, producing, matching>>[s]})
          = IF o \in requested \cup finishing \cup producing \cup matching THEN 1 ELSE 0
    <3>1. /\ o \in requested => o \notin finishing \cup producing \cup matching
          /\ o \in finishing => o \notin producing \cup matching
          /\ o \in producing => o \notin matching
      BY <2>1 DEF Apart
    <3> QED
      BY <3>1, PlacesCounted
  <2>5. /\ event => o \notin requested \cup finishing \cup producing \cup matching
        /\ st[o] = "NONE" =>
             ~event /\ o \notin requested \cup finishing \cup producing \cup matching
        /\ st[o] # "NONE" => event \/ o \in requested \cup finishing \cup producing \cup matching
    BY <2>1 DEF Apart, Reachable
  <2>6. References(o) = IF call[o].status = "NONE" THEN 0 ELSE 1
    <3> DEFINE a == Cardinality({e \in queue : e.tag = o})
               b == Cardinality({s \in {1, 2, 3, 4} :
                                  o \in <<requested, finishing, producing, matching>>[s]})
    <3>1. References(o) = a + b
      BY DEF References
    <3>2. \/ call[o].status = "NONE" /\ a = 0 /\ b = 0
          \/ call[o].status # "NONE" /\ a = 1 /\ b = 0
          \/ call[o].status # "NONE" /\ a = 0 /\ b = 1
      BY <2>1, <2>3, <2>4, <2>5
    <3> HIDE DEF a, b
    <3> QED
      BY <3>1, <3>2
  <2> QED
    BY <2>1, <2>6 DEF Apart
<1> QED
  BY <1>1, Invariance, PTL

\* Whatever the requests before it came to, retries and errors included, a class has
\* an object that waits for the next request or has one that is not processed yet, as
\* process() makes it first; only retries of Produce make more of them.
THEOREM OneNext == Spec => []NextWaits
<1>1. ASSUME IInv PROVE NextWaits
  <2> SUFFICES ASSUME NEW type \in RequestType
               PROVE  IF type = "REQUEST_PRODUCE" THEN Unprocessed(type) # {}
                      ELSE Cardinality(Unprocessed(type)) = 1
    BY DEF NextWaits
  <2>1. \A o \in Object : o \in Unprocessed(type)
                           <=> o[1] = type /\ Waits(Statuses(call), producing, matching, o)
    BY <1>1 DEF Unprocessed, Waits, Statuses, IInv, Classes
  <2>2. OneWaits(Statuses(call), producing, matching)
    BY <1>1 DEF IInv, Ownership, Sound
  <2>3. PICK w \in Object : w \in Unprocessed(type)
    BY <2>1, <2>2 DEF OneWaits
  <2>4. CASE type # "REQUEST_PRODUCE"
    <3>1. \A o \in Object : o \in Unprocessed(type) => o = w
      BY <2>1, <2>2, <2>3, <2>4 DEF OneWaits
    <3>2. Unprocessed(type) = {w}
      BY <2>3, <3>1 DEF Unprocessed
    <3> QED
      BY <2>4, <3>2, FS_Singleton
  <2> QED
    BY <2>3, <2>4
<1> QED
  BY <1>1, Invariance, PTL

-----------------------------------------------------------------------------
(* The messages of the classes.                                             *)

\* The class of a method's request.
Class(type) ==
  CASE type = "REQUEST_PRODUCE"     -> ProduceRequest
    [] type = "REQUEST_CONSUME"     -> ConsumeRequest
    [] type = "REQUEST_CONSUME_ACK" -> ConsumeAckRequest

LEMMA RequestClass ==
  ASSUME NEW type \in RequestType
  PROVE  WellFormed(Class(type)) /\ \A w : ParseRequest(type, w) = Parse(Class(type), w)
<1>1. CASE type = "REQUEST_PRODUCE"
  BY <1>1, ClassesWellFormed DEF Class, ParseRequest, ParseProduceRequest
<1>2. CASE type = "REQUEST_CONSUME"
  BY <1>2, ClassesWellFormed DEF Class, ParseRequest, ParseConsumeRequest
<1>3. CASE type = "REQUEST_CONSUME_ACK"
  BY <1>3, ClassesWellFormed DEF Class, ParseRequest, ParseConsumeAckRequest
<1> QED
  BY <1>1, <1>2, <1>3 DEF RequestType

\* Each class has its method.
LEMMA Methods ==
  \A s, t \in RequestType : Method(s) = Method(t) => s = t
<1>1. MethodName[0] = "Produce" /\ MethodName[1] = "Consume" /\ MethodName[2] = "ConsumeAck"
  BY DEF MethodName
<1> QED
  BY <1>1 DEF Method, RequestType

\* A reply of Consume names no message, or one with its body.
Delivers(m) ==
  /\ IsMessage(ConsumeReply, m)
  /\ m.msg_id = "" \/ (m.msg_id \in MsgId /\ m.body = Body[m.msg_id])

LEMMA RepliesDeliver ==
  /\ \A code, text : Delivers(SetConsumeReply(NewConsumeReply, code, "", "", text))
  /\ \A code, text : \A m \in MsgId :
       Delivers(SetConsumeReply(NewConsumeReply, code, m, Body[m], text))
<1> DEFINE T == ConsumeReply
           S == Names(T)
           r == NewConsumeReply
<1>1. IsMessage(T, r)
  BY ClearIsMessage, ClassesWellFormed DEF NewConsumeReply
<1>2. r = [name \in S |-> r[name]] /\ "unknown" \in S /\ "msg_id" \in S /\ "body" \in S
  <2>1. /\ {2, 3} \subseteq DOMAIN T
        /\ T[2] = Str(2, "msg_id") /\ T[3] = Str(3, "body")
    BY DEF ConsumeReply
  <2>2. Str(2, "msg_id").name = "msg_id" /\ Str(3, "body").name = "body"
    BY DEF Str
  <2> HIDE DEF T, r
  <2>3. "msg_id" \in S /\ "body" \in S /\ "unknown" \in S
    BY <2>1, <2>2 DEF Names
  <2> QED
    BY <1>1, <2>3 DEF IsMessage
<1> HIDE DEF S, r
<1>3. ASSUME NEW code, NEW id, NEW body, NEW text,
             id = "" \/ (id \in MsgId /\ body = Body[id])
      PROVE  Delivers(SetConsumeReply(r, code, id, body, text))
  <2> DEFINE n == SetConsumeReply(r, code, id, body, text)
  <2>1. n = [r EXCEPT !.code = code, !.msg_id = id, !.body = body, !.error_msg = text]
    BY DEF SetConsumeReply
  <2> HIDE DEF n
  <2>2. n = [name \in S |-> n[name]] /\ n["unknown"] = r["unknown"]
        /\ n.msg_id = id /\ n.body = body
    BY <1>2, <2>1
  <2> HIDE DEF T
  <2>3. IsMessage(T, n)
    BY <1>1, <2>2, SetIsMessage DEF S
  <2> QED
    BY <1>3, <2>2, <2>3 DEF Delivers, n, T
<1> QED
  BY <1>3 DEF r

-----------------------------------------------------------------------------
(* The requests and the replies on their way.                               *)

\* A client can parse the message, or was never given it.
Readable(id) == id \in MsgId => Body[id] \notin NotUtf8

\* What a client waits for after a request of the type.
WaitsIn(type) ==
  CASE type = "REQUEST_PRODUCE"     -> "produce"
    [] type = "REQUEST_CONSUME"     -> "consume"
    [] type = "REQUEST_CONSUME_ACK" -> "ack"

\* The request m, which was sent in r and has not arrived; x is the client.
Asks(type, m) == IsMessage(Class(type), m) /\ (type = "REQUEST_CONSUME_ACK" => Readable(m.msg_id))
IsSent(x, r, type, m) ==
  /\ Asks(type, m) /\ r.method = Method(type) /\ r.wire = Serialize(Class(type), m)
  /\ ~r.away => x.pc = WaitsIn(type) /\ x.request = m

IsClient(x) ==
  /\ x = [program |-> x.program, pc |-> x.pc, msgId |-> x.msgId, left |-> x.left,
          request |-> x.request]
  /\ x.program \in Program /\ x.pc \in ClientPC /\ x.left \in 0..Num
  /\ x.msgId \in MsgId \cup {""} /\ Readable(x.msgId)
  /\ x.program = "ProduceClient" /\ x.pc = "produce" => x.left > 0

IsRpc(r) ==
  /\ r = [pc |-> r.pc, method |-> r.method, wire |-> r.wire, away |-> r.away]
  /\ r.pc \in RpcPC /\ r.away \in BOOLEAN

\* A client x and its RPC r: what is on the wire is what the client has set, or a reply
\* that names a message with its body.
Agree(x, r) ==
  /\ r.away => x.pc = "exited"
  /\ ~r.away => (r.pc = "idle" <=> x.pc \in {"run", "exited"})
  /\ r.pc = "sent" => \E type \in RequestType : \E m : IsSent(x, r, type, m)
  /\ r.pc = "ok" /\ ~r.away /\ x.pc = "consume" =>
       \E m : Delivers(m) /\ r.wire = SerializeConsumeReply(m)

\* A call object y that waits for a request.
IsReady(y, type) == y.client = NoClient /\ y.method = Method(type) /\ y.reply = NewReply(type)

\* A call object y that has a request of the client x with the RPC r.
IsHeld(y, x, r, type) ==
  /\ r.pc = "arrived" /\ (~r.away => x.pc = WaitsIn(type))
  /\ y.status = "PROCESS" => /\ type = "REQUEST_CONSUME_ACK" => Readable(y.request.msg_id)
                             /\ y.reply = NewReply(type)
                             /\ ~r.away => y.request = x.request
  /\ y.status = "FINISH" /\ type = "REQUEST_CONSUME" => Delivers(y.reply)

\* Objects between the arrival of a request and the sending of its reply.
Active == {o \in Object : (call[o].status = "PROCESS" /\ o \notin requested) \/ o \in finishing}

Clients ==
  /\ client = [c \in Client |-> client[c]] /\ rpc = [c \in Client |-> rpc[c]]
  /\ \A c \in Client : IsClient(client[c]) /\ IsRpc(rpc[c]) /\ Agree(client[c], rpc[c])

HeldCalls ==
  /\ \A o \in Object : call[o].client \in Client \cup {NoClient} /\ call[o].msgId \in MsgId \cup {""}
  /\ \A o \in requested : IsReady(call[o], o[1])
  /\ \A o \in producing : o[1] = "REQUEST_PRODUCE"
  /\ \A o \in Active : /\ call[o].client \in Client
                       /\ IsHeld(call[o], client[call[o].client], rpc[call[o].client], o[1])

OnePerClient == \A o, p \in Active : call[o].client = call[p].client => o = p

Stored == store \in [MsgId -> Place] /\ UnreadableNotAcked

Protocol == Clients /\ HeldCalls /\ OnePerClient /\ Stored

\* A step of a client, which has x and r after it: its request, if it arrived, stays
\* valid, and the client is away.
LEMMA ClientStep ==
  ASSUME Protocol, ServerUnchanged, NEW c \in Client, NEW x, NEW r,
         IsClient(x), IsRpc(r), Agree(x, r),
         client' = [client EXCEPT ![c] = x], rpc' = [rpc EXCEPT ![c] = r],
         rpc[c].pc # "arrived" \/ (r.pc = "arrived" /\ r.away)
  PROVE  Protocol'
<1>1. /\ client' = [d \in Client |-> client'[d]] /\ rpc' = [d \in Client |-> rpc'[d]]
      /\ \A d \in Client : /\ client'[d] = IF d = c THEN x ELSE client[d]
                           /\ rpc'[d] = IF d = c THEN r ELSE rpc[d]
  BY DEF Protocol, Clients
<1>2. Clients'
  <2> SUFFICES ASSUME NEW d \in Client
               PROVE  IsClient(client'[d]) /\ IsRpc(rpc'[d]) /\ Agree(client'[d], rpc'[d])
    BY <1>1 DEF Clients, IsClient, IsRpc, Agree, IsSent, Asks, Readable, Delivers
  <2>1. CASE d = c
    BY <1>1, <2>1
  <2>2. CASE d # c
    BY <1>1, <2>2 DEF Protocol, Clients
  <2> QED
    BY <2>1, <2>2
<1>3. Active' = Active /\ UNCHANGED <<call, requested, producing, store>>
  BY DEF ServerUnchanged, Active, workVars
<1>4. ASSUME NEW o \in Active
      PROVE  /\ call[o].client \in Client
             /\ IsHeld(call[o], client'[call[o].client], rpc'[call[o].client], o[1])
  <2> DEFINE d == call[o].client
  <2>1. d \in Client /\ IsHeld(call[o], client[d], rpc[d], o[1])
    BY DEF Protocol, HeldCalls
  <2>2. CASE d = c
    BY <1>1, <2>1, <2>2 DEF IsHeld
  <2>3. CASE d # c
    BY <1>1, <2>1, <2>3
  <2> QED
    BY <2>1, <2>2, <2>3
<1>5. HeldCalls'
  BY <1>3, <1>4 DEF Protocol, HeldCalls
<1>6. OnePerClient' /\ Stored'
  BY <1>3 DEF Protocol, OnePerClient, Stored, UnreadableNotAcked
<1> QED
  BY <1>2, <1>5, <1>6 DEF Protocol

-----------------------------------------------------------------------------
(* The clients' steps.                                                      *)

\* What the clients do to their records, and the stubs to theirs.
Waiting(x, pc, m)  == [x EXCEPT !.pc = pc, !.request = m]
WithMsg(x, id)     == [x EXCEPT !.pc = "run", !.request = <<>>, !.msgId = id]
OneLess(x, pc)     == [x EXCEPT !.pc = pc, !.left = @ - 1, !.request = <<>>]
SentRpc(r, t, w)   == [r EXCEPT !.pc = "sent", !.method = t, !.wire = w]
IdleRpc(r)         == [r EXCEPT !.pc = "idle", !.method = "", !.wire = <<>>]
EndedRpc(r)        == [r EXCEPT !.pc = "idle", !.wire = <<>>, !.away = TRUE]
WireRpc(r, p, w)   == [r EXCEPT !.pc = p, !.wire = w]
AwayRpc(r)         == [r EXCEPT !.away = TRUE]

LEMMA ClientFields ==
  ASSUME NEW x, IsClient(x), NEW pc, NEW q, NEW id
  PROVE  /\ Waiting(x, pc, q)
              = [program |-> x.program, pc |-> pc, msgId |-> x.msgId, left |-> x.left, request |-> q]
         /\ WithMsg(x, id)
              = [program |-> x.program, pc |-> "run", msgId |-> id, left |-> x.left,
                 request |-> <<>>]
         /\ OneLess(x, pc)
              = [program |-> x.program, pc |-> pc, msgId |-> x.msgId, left |-> x.left - 1,
                 request |-> <<>>]
<1> DEFINE g == x.program
           p == x.pc
           i == x.msgId
           l == x.left
           r == x.request
<1>1. x = [program |-> g, pc |-> p, msgId |-> i, left |-> l, request |-> r]
  BY DEF IsClient
<1> HIDE DEF g, p, i, l, r
<1>2. ASSUME NEW z, z = [x EXCEPT !.pc = pc, !.request = q]
      PROVE  z = [program |-> g, pc |-> pc, msgId |-> i, left |-> l, request |-> q]
  BY <1>1, <1>2
<1>3. ASSUME NEW z, z = [x EXCEPT !.pc = "run", !.request = <<>>, !.msgId = id]
      PROVE  z = [program |-> g, pc |-> "run", msgId |-> id, left |-> l, request |-> <<>>]
  BY <1>1, <1>3
<1>4. ASSUME NEW z, z = [x EXCEPT !.pc = pc, !.left = @ - 1, !.request = <<>>]
      PROVE  z = [program |-> g, pc |-> pc, msgId |-> i, left |-> l - 1, request |-> <<>>]
  BY <1>1, <1>4
<1> QED
  BY <1>2, <1>3, <1>4 DEF Waiting, WithMsg, OneLess, g, i, l

LEMMA RpcFields ==
  ASSUME NEW r, IsRpc(r), NEW t, NEW w
  PROVE  /\ SentRpc(r, t, w) = [pc |-> "sent", method |-> t, wire |-> w, away |-> r.away]
         /\ IdleRpc(r) = [pc |-> "idle", method |-> "", wire |-> <<>>, away |-> r.away]
         /\ EndedRpc(r) = [pc |-> "idle", method |-> r.method, wire |-> <<>>, away |-> TRUE]
         /\ AwayRpc(r) = [pc |-> r.pc, method |-> r.method, wire |-> r.wire, away |-> TRUE]
<1> DEFINE c == r.pc
           m == r.method
           v == r.wire
           a == r.away
<1>1. r = [pc |-> c, method |-> m, wire |-> v, away |-> a]
  BY DEF IsRpc
<1> HIDE DEF c, m, v, a
<1>2. ASSUME NEW z, z = [r EXCEPT !.pc = "sent", !.method = t, !.wire = w]
      PROVE  z = [pc |-> "sent", method |-> t, wire |-> w, away |-> a]
  BY <1>1, <1>2
<1>3. ASSUME NEW z, z = [r EXCEPT !.pc = "idle", !.method = "", !.wire = <<>>]
      PROVE  z = [pc |-> "idle", method |-> "", wire |-> <<>>, away |-> a]
  BY <1>1, <1>3
<1>4. ASSUME NEW z, z = [r EXCEPT !.pc = "idle", !.wire = <<>>, !.away = TRUE]
      PROVE  z = [pc |-> "idle", method |-> m, wire |-> <<>>, away |-> TRUE]
  BY <1>1, <1>4
<1>5. ASSUME NEW z, z = [r EXCEPT !.away = TRUE]
      PROVE  z = [pc |-> c, method |-> m, wire |-> v, away |-> TRUE]
  BY <1>1, <1>5
<1> QED
  BY <1>2, <1>3, <1>4, <1>5 DEF SentRpc, IdleRpc, EndedRpc, AwayRpc, c, m, v, a

LEMMA WireFields ==
  ASSUME NEW r, IsRpc(r), NEW p, NEW w
  PROVE  WireRpc(r, p, w) = [pc |-> p, method |-> r.method, wire |-> w, away |-> r.away]
<1> DEFINE c == r.pc
           m == r.method
           v == r.wire
           a == r.away
<1>1. r = [pc |-> c, method |-> m, wire |-> v, away |-> a]
  BY DEF IsRpc
<1> HIDE DEF c, m, v, a
<1>2. ASSUME NEW z, z = [r EXCEPT !.pc = p, !.wire = w]
      PROVE  z = [pc |-> p, method |-> m, wire |-> w, away |-> a]
  BY <1>1, <1>2
<1> QED
  BY <1>2 DEF WireRpc, m, a

\* An exited client.
LEMMA ExitedClient ==
  ASSUME NEW c, client[c].program \in Program
  PROVE  IsClient(Exited(c)) /\ Exited(c).pc = "exited"
<1> DEFINE p == client[c].program
           s == Start(p)
           x == Exited(c)
<1>1. x = [s EXCEPT !.pc = "exited", !.left = 0]
  BY DEF Exited
<1>2. s = [program |-> p, pc |-> "run", msgId |-> "", left |-> Num, request |-> <<>>]
  BY DEF Start
<1> HIDE DEF p, s, x
<1>3. x = [program |-> p, pc |-> "exited", msgId |-> "", left |-> 0, request |-> <<>>]
  BY <1>1, <1>2
<1>4. p \in Program /\ 0 \in 0..Num
  BY ClientAssumption DEF p
<1>5. IsClient(x) /\ x.pc = "exited"
  <2>1. /\ x.program = p /\ x.pc = "exited" /\ x.msgId = "" /\ x.left = 0
        /\ x = [program |-> x.program, pc |-> x.pc, msgId |-> x.msgId, left |-> x.left,
                request |-> x.request]
    BY <1>3
  <2>2. Readable("")
    BY MsgIdAssumption DEF Readable
  <2> QED
    BY <1>4, <2>1, <2>2 DEF IsClient, ClientPC
<1> QED
  BY <1>5 DEF x

\* A client that runs sends a request.
LEMMA SendStep ==
  ASSUME Protocol, ServerUnchanged, NEW c \in Client, client[c].pc = "run",
         NEW type \in RequestType, NEW m, Asks(type, m),
         client[c].program = "ProduceClient" => client[c].left > 0,
         rpc' = [rpc EXCEPT ![c].pc = "sent", ![c].method = Method(type),
                            ![c].wire = Serialize(Class(type), m)],
         client' = [client EXCEPT ![c].pc = WaitsIn(type), ![c].request = m]
  PROVE  Protocol'
<1> DEFINE x == client[c]
           r == rpc[c]
           w == Serialize(Class(type), m)
           t == Method(type)
           p == WaitsIn(type)
           y == Waiting(x, p, m)
           s == SentRpc(r, t, w)
<1>1. IsClient(x) /\ IsRpc(r) /\ Agree(x, r)
  BY DEF Protocol, Clients
<1>2. p \in {"produce", "consume", "ack"}
  BY DEF WaitsIn, RequestType
<1>3. ~r.away /\ r.pc = "idle"
  BY <1>1 DEF Agree, IsRpc
<1>4. y = [program |-> x.program, pc |-> p, msgId |-> x.msgId, left |-> x.left, request |-> m]
  BY <1>1, ClientFields
<1>5. s = [pc |-> "sent", method |-> t, wire |-> w, away |-> r.away]
  <2> HIDE DEF t, w, r
  <2> QED
    BY <1>1, RpcFields, ZenonT(40)
<1>6. client' = [client EXCEPT ![c] = y] /\ rpc' = [rpc EXCEPT ![c] = s]
  BY DEF Protocol, Clients, Waiting, SentRpc
<1>7. t = Method(type) /\ w = Serialize(Class(type), m) /\ p = WaitsIn(type)
  OBVIOUS
<1> HIDE DEF y, s, w, t, p
<1>8. IsClient(y)
  BY <1>1, <1>2, <1>4 DEF IsClient, ClientPC
<1>9. IsRpc(s)
  BY <1>1, <1>5 DEF IsRpc, RpcPC
<1>10. Agree(y, s)
  <2>1. IsSent(y, s, type, m)
    BY <1>4, <1>5, <1>7 DEF IsSent
  <2> QED
    BY <1>2, <1>3, <1>4, <1>5, <2>1 DEF Agree
<1> QED
  BY <1>3, <1>6, <1>8, <1>9, <1>10, ClientStep

\* A client has its reply, and goes on or ends.
LEMMA ReturnStep ==
  ASSUME Protocol, ServerUnchanged, NEW c \in Client, rpc[c].pc = "ok",
         client[c].pc \in {"produce", "consume", "ack"},
         NEW y, IsClient(y), y.pc \in {"run", "exited"},
         rpc' = [rpc EXCEPT ![c].pc = "idle", ![c].method = "", ![c].wire = <<>>],
         client' = [client EXCEPT ![c] = y]
  PROVE  Protocol'
<1> DEFINE x == client[c]
           r == rpc[c]
           s == IdleRpc(r)
<1>1. IsRpc(r) /\ Agree(x, r)
  BY DEF Protocol, Clients
<1>2. s = [pc |-> "idle", method |-> "", wire |-> <<>>, away |-> r.away]
  BY <1>1, RpcFields
<1>3. rpc' = [rpc EXCEPT ![c] = s]
  BY DEF Protocol, Clients, IdleRpc
<1> HIDE DEF s
<1>4. IsRpc(s)
  BY <1>1, <1>2 DEF IsRpc, RpcPC
<1>5. Agree(y, s)
  BY <1>1, <1>2 DEF Agree, IsRpc
<1> QED
  BY <1>3, <1>4, <1>5, ClientStep

\* A client ends, killed or with an error.
LEMMA EndStep ==
  ASSUME Protocol, NEW c \in Client, Exit(c) \/ Kill(c)
  PROVE  Protocol'
<1> DEFINE r == rpc[c]
           y == Exited(c)
<1>1. IsClient(client[c]) /\ IsRpc(r) /\ Agree(client[c], r)
  BY DEF Protocol, Clients
<1>2. IsClient(y) /\ y.pc = "exited"
  BY <1>1, ExitedClient DEF IsClient
<1>3. ServerUnchanged /\ client' = [client EXCEPT ![c] = y]
  BY DEF Exit, Kill
<1> HIDE DEF y
<1>4. CASE Exit(c)
  <2> DEFINE s == EndedRpc(r)
  <2>1. s = [pc |-> "idle", method |-> r.method, wire |-> <<>>, away |-> TRUE]
    BY <1>1, RpcFields
  <2>2. rpc' = [rpc EXCEPT ![c] = s] /\ r.pc # "arrived"
    BY <1>4 DEF Exit, Protocol, Clients, EndedRpc
  <2> HIDE DEF s
  <2>3. IsRpc(s) /\ Agree(y, s)
    BY <1>2, <2>1 DEF IsRpc, RpcPC, Agree
  <2> QED
    BY <1>2, <1>3, <2>2, <2>3, ClientStep
<1>5. CASE Kill(c)
  <2> DEFINE s == AwayRpc(r)
  <2>1. s = [pc |-> r.pc, method |-> r.method, wire |-> r.wire, away |-> TRUE]
    BY <1>1, RpcFields
  <2>2. rpc' = [rpc EXCEPT ![c] = s]
    BY <1>5 DEF Kill, Protocol, Clients, AwayRpc
  <2> HIDE DEF s
  <2>3. IsRpc(s)
    BY <1>1, <2>1 DEF IsRpc
  <2>4. Agree(y, s)
    <3>1. ASSUME r.pc = "sent" PROVE \E type \in RequestType : \E m : IsSent(y, s, type, m)
      BY <1>1, <2>1, <3>1 DEF Agree, IsSent
    <3> QED
      BY <1>2, <2>1, <3>1 DEF Agree
  <2> QED
    BY <1>2, <1>3, <2>1, <2>2, <2>3, <2>4, ClientStep
<1> QED
  BY <1>4, <1>5

\* The requests that clients make are messages of their class.
LEMMA NewRequests ==
  /\ IsMessage(ProduceRequest, NewProduceRequest)
  /\ IsMessage(ConsumeRequest, NewConsumeRequest)
  /\ IsMessage(ConsumeAckRequest, NewConsumeAckRequest)
  /\ \A extra \in Newer :
       /\ IsMessage(ProduceRequest, [NewProduceRequest EXCEPT !.unknown = extra])
       /\ IsMessage(ConsumeRequest, [NewConsumeRequest EXCEPT !.unknown = extra])
       /\ IsMessage(ConsumeAckRequest, [NewConsumeAckRequest EXCEPT !.unknown = extra])
<1>1. /\ IsMessage(ProduceRequest, Clear(ProduceRequest))
      /\ IsMessage(ConsumeRequest, Clear(ConsumeRequest))
      /\ IsMessage(ConsumeAckRequest, Clear(ConsumeAckRequest))
  BY ClassesWellFormed, ClearIsMessage
<1>2. ASSUME NEW extra \in Newer,
             NEW T \in {ProduceRequest, ConsumeRequest, ConsumeAckRequest}, WellFormed(T)
      PROVE  IsMessage(T, [Clear(T) EXCEPT !.unknown = extra])
  <2>1. \E S : extra \in Seq(S)
    BY NewerAssumption
  <2>2. \A i \in DOMAIN extra : ~Known(T, extra[i])
    BY NewerAssumption
  <2> QED
    BY <1>2, <2>1, <2>2, NewerIsMessage
<1>3. ASSUME NEW extra \in Newer
      PROVE  /\ IsMessage(ProduceRequest, [Clear(ProduceRequest) EXCEPT !.unknown = extra])
             /\ IsMessage(ConsumeRequest, [Clear(ConsumeRequest) EXCEPT !.unknown = extra])
             /\ IsMessage(ConsumeAckRequest, [Clear(ConsumeAckRequest) EXCEPT !.unknown = extra])
  BY <1>2, ClassesWellFormed
<1> QED
  BY <1>1, <1>3 DEF NewProduceRequest, NewConsumeRequest, NewConsumeAckRequest

LEMMA Stubs ==
  ASSUME NEW c, NEW m
  PROVE  /\ StubProduce(c, m) =>
              rpc' = [rpc EXCEPT ![c].pc = "sent", ![c].method = Method("REQUEST_PRODUCE"),
                                 ![c].wire = Serialize(Class("REQUEST_PRODUCE"), m)]
         /\ StubConsume(c, m) =>
              rpc' = [rpc EXCEPT ![c].pc = "sent", ![c].method = Method("REQUEST_CONSUME"),
                                 ![c].wire = Serialize(Class("REQUEST_CONSUME"), m)]
         /\ StubConsumeAck(c, m) =>
              rpc' = [rpc EXCEPT ![c].pc = "sent", ![c].method = Method("REQUEST_CONSUME_ACK"),
                                 ![c].wire = Serialize(Class("REQUEST_CONSUME_ACK"), m)]
<1>1. /\ Method("REQUEST_PRODUCE") = MethodName[0] /\ Method("REQUEST_CONSUME") = MethodName[1]
      /\ Method("REQUEST_CONSUME_ACK") = MethodName[2]
  BY DEF Method
<1>2. /\ Class("REQUEST_PRODUCE") = ProduceRequest /\ Class("REQUEST_CONSUME") = ConsumeRequest
      /\ Class("REQUEST_CONSUME_ACK") = ConsumeAckRequest
  BY DEF Class
<1> QED
  BY <1>1, <1>2 DEF StubProduce, StubConsume, StubConsumeAck, BlockingUnaryCall,
     SerializeProduceRequest, SerializeConsumeRequest, SerializeConsumeAckRequest

LEMMA SendKept ==
  ASSUME Protocol, NEW c \in Client, Send(c)
  PROVE  Protocol'
<1>1. IsClient(client[c]) /\ IsRpc(rpc[c]) /\ Agree(client[c], rpc[c])
  BY DEF Protocol, Clients
<1>2. /\ Class("REQUEST_PRODUCE") = ProduceRequest /\ Class("REQUEST_CONSUME") = ConsumeRequest
      /\ Class("REQUEST_CONSUME_ACK") = ConsumeAckRequest
      /\ WaitsIn("REQUEST_PRODUCE") = "produce" /\ WaitsIn("REQUEST_CONSUME") = "consume"
      /\ WaitsIn("REQUEST_CONSUME_ACK") = "ack"
  BY DEF Class, WaitsIn
<1>3. ASSUME NEW m, IsMessage(ProduceRequest, m), StubProduce(c, m), Wait(c, "produce", m),
             ServerUnchanged, client[c].pc = "run",
             client[c].program = "ProduceClient" => client[c].left > 0
      PROVE  Protocol'
  <2> DEFINE t == "REQUEST_PRODUCE"
  <2>1. t \in RequestType /\ Asks(t, m)
    BY <1>2, <1>3, SMTT(30) DEF Asks, RequestType
  <2>2. /\ rpc' = [rpc EXCEPT ![c].pc = "sent", ![c].method = Method(t),
                              ![c].wire = Serialize(Class(t), m)]
        /\ client' = [client EXCEPT ![c].pc = WaitsIn(t), ![c].request = m]
    BY <1>2, <1>3, Stubs DEF Wait
  <2> HIDE DEF t
  <2> QED
    BY <1>3, <2>1, <2>2, SendStep
<1>4. ASSUME NEW m, IsMessage(ConsumeRequest, m), StubConsume(c, m), Wait(c, "consume", m),
             ServerUnchanged, client[c].pc = "run", client[c].program # "ProduceClient"
      PROVE  Protocol'
  <2> DEFINE t == "REQUEST_CONSUME"
  <2>1. t \in RequestType /\ Asks(t, m)
    BY <1>2, <1>4, SMTT(30) DEF Asks, RequestType
  <2>2. /\ rpc' = [rpc EXCEPT ![c].pc = "sent", ![c].method = Method(t),
                              ![c].wire = Serialize(Class(t), m)]
        /\ client' = [client EXCEPT ![c].pc = WaitsIn(t), ![c].request = m]
    BY <1>2, <1>4, Stubs DEF Wait
  <2> HIDE DEF t
  <2> QED
    BY <1>4, <2>1, <2>2, SendStep
<1>5. ASSUME NEW m, IsMessage(ConsumeAckRequest, m), m.msg_id = client[c].msgId,
             StubConsumeAck(c, m), Wait(c, "ack", m),
             ServerUnchanged, client[c].pc = "run", client[c].program # "ProduceClient"
      PROVE  Protocol'
  <2> DEFINE t == "REQUEST_CONSUME_ACK"
  <2>1. t \in RequestType /\ Asks(t, m)
    BY <1>1, <1>2, <1>5, ZenonT(40) DEF Asks, RequestType, IsClient
  <2>2. /\ rpc' = [rpc EXCEPT ![c].pc = "sent", ![c].method = Method(t),
                              ![c].wire = Serialize(Class(t), m)]
        /\ client' = [client EXCEPT ![c].pc = WaitsIn(t), ![c].request = m]
    BY <1>2, <1>5, Stubs DEF Wait
  <2> HIDE DEF t
  <2> QED
    BY <1>5, <2>1, <2>2, SendStep
<1>6. CASE Produce(c)
  <2>1. PICK body, extra :
          /\ extra \in Newer
          /\ StubProduce(c, SetProduceRequest([NewProduceRequest EXCEPT !.unknown = extra],
                                              "topic", "topic", "*", body, 0))
          /\ Wait(c, "produce", SetProduceRequest([NewProduceRequest EXCEPT !.unknown = extra],
                                                  "topic", "topic", "*", body, 0))
    BY <1>6 DEF Produce
  <2> DEFINE n == [NewProduceRequest EXCEPT !.unknown = extra]
             m == SetProduceRequest(n, "topic", "topic", "*", body, 0)
  <2>2. IsMessage(ProduceRequest, n)
    BY <2>1, NewRequests
  <2>3. StubProduce(c, m) /\ Wait(c, "produce", m)
    BY <2>1
  <2> HIDE DEF n
  <2>4. IsMessage(ProduceRequest, m)
    BY <2>2, SetRequests
  <2> HIDE DEF m
  <2> QED
    BY <1>3, <1>6, <2>3, <2>4 DEF Produce, Running
<1>7. CASE Consume(c)
  <2>1. PICK extra :
          /\ extra \in Newer
          /\ StubConsume(c, SetConsumeRequest([NewConsumeRequest EXCEPT !.unknown = extra],
                                              "topic", "topic"))
          /\ Wait(c, "consume", SetConsumeRequest([NewConsumeRequest EXCEPT !.unknown = extra],
                                                  "topic", "topic"))
    BY <1>7 DEF Consume
  <2> DEFINE n == [NewConsumeRequest EXCEPT !.unknown = extra]
             m == SetConsumeRequest(n, "topic", "topic")
  <2>2. IsMessage(ConsumeRequest, n)
    BY <2>1, NewRequests
  <2>3. StubConsume(c, m) /\ Wait(c, "consume", m)
    BY <2>1
  <2> HIDE DEF n
  <2>4. IsMessage(ConsumeRequest, m)
    BY <2>2, SetRequests
  <2> HIDE DEF m
  <2> QED
    BY <1>4, <1>7, <2>3, <2>4 DEF Consume, Running
<1>8. CASE ConsumeAck(c)
  <2>1. PICK status, extra :
          /\ extra \in Newer
          /\ StubConsumeAck(c, SetConsumeAckRequest([NewConsumeAckRequest EXCEPT !.unknown = extra],
                                                    "topic", client[c].msgId, "topic", status))
          /\ Wait(c, "ack", SetConsumeAckRequest([NewConsumeAckRequest EXCEPT !.unknown = extra],
                                                 "topic", client[c].msgId, "topic", status))
    BY <1>8 DEF ConsumeAck
  <2> DEFINE n == [NewConsumeAckRequest EXCEPT !.unknown = extra]
             m == SetConsumeAckRequest(n, "topic", client[c].msgId, "topic", status)
  <2>2. IsMessage(ConsumeAckRequest, n)
    BY <2>1, NewRequests
  <2>3. StubConsumeAck(c, m) /\ Wait(c, "ack", m)
    BY <2>1
  <2> HIDE DEF n
  <2>4. IsMessage(ConsumeAckRequest, m) /\ m.msg_id = client[c].msgId
    BY <2>2, SetRequests
  <2> HIDE DEF m
  <2> QED
    BY <1>5, <1>8, <2>3, <2>4 DEF ConsumeAck, Running
<1>9. CASE PhpProduce(c)
  <2>1. PICK body, delay :
          LET set == PhpSetProduceRequest(NewProduceRequest, "topic", "topic", "*", body, delay)
          IN IF set.ok
             THEN StubProduce(c, set.msg) /\ Wait(c, "produce", set.msg)
             ELSE client' = [client EXCEPT ![c] = Exited(c)] /\ UNCHANGED rpc
    BY <1>9 DEF PhpProduce
  <2> DEFINE n == NewProduceRequest
             m == SetProduceRequest(n, "topic", "topic", "*", body, delay)
  <2>2. IsMessage(ProduceRequest, n)
    BY NewRequests
  <2>3. \/ StubProduce(c, m) /\ Wait(c, "produce", m)
        \/ client' = [client EXCEPT ![c] = Exited(c)] /\ UNCHANGED rpc
    BY <2>1 DEF PhpSetProduceRequest, Checked
  <2> HIDE DEF n
  <2>4. IsMessage(ProduceRequest, m)
    BY <2>2, SetRequests
  <2> HIDE DEF m
  <2>5. CASE StubProduce(c, m) /\ Wait(c, "produce", m)
    BY <1>3, <1>9, <2>4, <2>5 DEF PhpProduce, Running
  <2>6. CASE client' = [client EXCEPT ![c] = Exited(c)] /\ UNCHANGED rpc
    <3> DEFINE y == Exited(c)
               r == rpc[c]
    <3>1. IsClient(y) /\ y.pc = "exited"
      BY <1>1, ExitedClient DEF IsClient
    <3>2. ~r.away /\ r.pc = "idle"
      BY <1>1, <1>9 DEF PhpProduce, Running, Agree, IsRpc
    <3>3. client' = [client EXCEPT ![c] = y] /\ rpc' = [rpc EXCEPT ![c] = r]
      BY <2>6 DEF Protocol, Clients
    <3> HIDE DEF y
    <3>4. Agree(y, r) /\ ServerUnchanged
      BY <1>9, <3>1, <3>2 DEF Agree, PhpProduce
    <3> HIDE DEF r
    <3> QED
      BY <1>1, <3>1, <3>2, <3>3, <3>4, ClientStep DEF r
  <2> QED
    BY <2>3, <2>5, <2>6
<1>10. CASE PhpConsume(c)
  <2> DEFINE n == NewConsumeRequest
             m == SetConsumeRequest(n, "topic", "topic")
  <2>1. IsMessage(ConsumeRequest, n)
    BY NewRequests
  <2>2. StubConsume(c, m) /\ Wait(c, "consume", m)
    BY <1>10 DEF PhpConsume, PhpSetConsumeRequest, Checked
  <2> HIDE DEF n
  <2>3. IsMessage(ConsumeRequest, m)
    BY <2>1, SetRequests
  <2> HIDE DEF m
  <2> QED
    BY <1>4, <1>10, <2>2, <2>3 DEF PhpConsume, Running
<1>11. CASE PhpConsumeAck(c)
  <2> DEFINE n == NewConsumeAckRequest
             m == SetConsumeAckRequest(n, "topic", client[c].msgId, "topic", n.status)
  <2>1. IsMessage(ConsumeAckRequest, n)
    BY NewRequests
  <2>2. StubConsumeAck(c, m) /\ Wait(c, "ack", m)
    BY <1>11 DEF PhpConsumeAck, PhpSetConsumeAckRequest, Checked
  <2> HIDE DEF n
  <2>3. IsMessage(ConsumeAckRequest, m) /\ m.msg_id = client[c].msgId
    BY <2>1, SetRequests
  <2> HIDE DEF m
  <2> QED
    BY <1>5, <1>11, <2>2, <2>3 DEF PhpConsumeAck, Running
<1> QED
  BY <1>6, <1>7, <1>8, <1>9, <1>10, <1>11 DEF Send

\* A consumer that has parsed its reply can read the message it was given.
LEMMA ReplyRead ==
  ASSUME Protocol, NEW c \in Client, rpc[c].pc = "ok", client[c].pc = "consume",
         ParseConsumeReply(rpc[c].wire).ok
  PROVE  /\ ParseConsumeReply(rpc[c].wire).msg.msg_id \in MsgId \cup {""}
         /\ Readable(ParseConsumeReply(rpc[c].wire).msg.msg_id)
<1> DEFINE T == ConsumeReply
           p == ParseConsumeReply(rpc[c].wire)
<1>1. PICK m : Delivers(m) /\ rpc[c].wire = SerializeConsumeReply(m)
  BY DEF Protocol, Clients, Agree, IsRpc
<1>2. IsMessage(T, m) /\ WellFormed(T) /\ p = Parse(T, Serialize(T, m))
  BY <1>1, ClassesWellFormed DEF Delivers, SerializeConsumeReply, ParseConsumeReply
<1>3. 3 \in DOMAIN T /\ T[3].name = "body" /\ T[3].wire = Bytes
  <2>1. 3 \in DOMAIN T /\ T[3] = Str(3, "body")
    BY DEF ConsumeReply
  <2>2. Str(3, "body").name = "body" /\ Str(3, "body").wire = Bytes
    BY DEF Str
  <2> HIDE DEF T
  <2> QED
    BY <2>1, <2>2
<1>4. p.ok
  OBVIOUS
<1> HIDE DEF T, p
<1>5. /\ p.msg = m
      /\ p.ok <=> \A i \in DOMAIN T : T[i].wire = Bytes => m[T[i].name] \notin NotUtf8
  BY <1>2, RoundTrip
<1>6. m["body"] \notin NotUtf8
  BY <1>3, <1>4, <1>5
<1>7. m.msg_id \in MsgId \cup {""} /\ Readable(m.msg_id)
  BY <1>1, <1>6, MsgIdAssumption DEF Delivers, Readable
<1> QED
  BY <1>5, <1>7 DEF p

LEMMA ReturnKept ==
  ASSUME Protocol, NEW c \in Client, Return(c)
  PROVE  Protocol'
<1> DEFINE x == client[c]
<1>1. IsClient(x)
  BY DEF Protocol, Clients
<1>2. IsClient(Exited(c)) /\ Exited(c).pc = "exited"
  BY <1>1, ExitedClient DEF IsClient
<1>3. ASSUME NEW program, NEW pc \in {"produce", "consume", "ack"}, NEW p, Returned(c, program, pc, p),
             NEW y, IsClient(y), y.pc \in {"run", "exited"}, client' = [client EXCEPT ![c] = y]
      PROVE  Protocol'
  BY <1>3, ReturnStep DEF Returned
<1>4. CASE ProduceReturned(c)
  <2> DEFINE p == ParseProduceReply(rpc[c].wire)
             y == OneLess(x, "run")
  <2>1. Returned(c, "ProduceClient", "produce", p)
    BY <1>4 DEF ProduceReturned
  <2>2. y = [program |-> x.program, pc |-> "run", msgId |-> x.msgId, left |-> x.left - 1,
             request |-> <<>>]
    BY <1>1, ClientFields
  <2>3. client' = [client EXCEPT ![c] = y] \/ client' = [client EXCEPT ![c] = Exited(c)]
    <3>1. PICK pc \in {"run", "exited"} :
            client' = [client EXCEPT ![c] =
                         IF pc = "exited" THEN Exited(c)
                         ELSE [client[c] EXCEPT !.pc = pc, !.left = @ - 1, !.request = <<>>]]
      BY <1>4 DEF ProduceReturned
    <3> DEFINE a == Exited(c)
               b == OneLess(client[c], pc)
    <3>2. client' = [client EXCEPT ![c] = IF pc = "exited" THEN a ELSE b]
      BY <3>1 DEF OneLess
    <3> HIDE DEF a, b
    <3>3. CASE pc = "exited"
      BY <3>2, <3>3 DEF a
    <3>4. CASE pc = "run"
      <4>1. client' = [client EXCEPT ![c] = b]
        BY <3>2, <3>4
      <4> QED
        BY <3>4, <4>1 DEF b
    <3> QED
      BY <3>3, <3>4
  <2> HIDE DEF p, y
  <2>4. IsClient(y) /\ y.pc = "run"
    <3>1. x.left - 1 \in 0..Num
      <4>1. x.left > 0 /\ x.left \in 0..Num
        BY <1>1, <2>1 DEF IsClient, Returned
      <4> HIDE DEF x
      <4> QED
        BY <4>1, ClientAssumption
    <3> HIDE DEF x
    <3> QED
      BY <1>1, <2>2, <3>1 DEF IsClient, ClientPC
  <2> QED
    BY <1>2, <1>3, <2>1, <2>3, <2>4
<1>5. ASSUME NEW id, id \in MsgId \cup {""}, Readable(id), NEW y,
             y = WithMsg(x, id)
      PROVE  IsClient(y) /\ y.pc = "run"
  <2>1. y = [program |-> x.program, pc |-> "run", msgId |-> id, left |-> x.left, request |-> <<>>]
    BY <1>1, <1>5, ClientFields
  <2> HIDE DEF x
  <2>2. /\ y.program = x.program /\ y.pc = "run" /\ y.msgId = id /\ y.left = x.left
        /\ y = [program |-> y.program, pc |-> y.pc, msgId |-> y.msgId, left |-> y.left,
                request |-> y.request]
    BY <2>1
  <2> QED
    BY <1>1, <1>5, <2>2 DEF IsClient, ClientPC
<1>6. CASE ConsumeReturned(c)
  <2> DEFINE p == ParseConsumeReply(rpc[c].wire)
             id == IF p.msg.code = 0 THEN p.msg.msg_id ELSE x.msgId
             y == WithMsg(x, id)
  <2>1. Returned(c, "ConsumeClient", "consume", p)
    BY <1>6 DEF ConsumeReturned
  <2>2. id \in MsgId \cup {""} /\ Readable(id)
    BY <1>1, <2>1, ReplyRead DEF Returned, IsClient
  <2>3. client' = [client EXCEPT ![c] = y]
    BY <1>6 DEF ConsumeReturned, Protocol, Clients, WithMsg
  <2> HIDE DEF p, id
  <2>4. IsClient(y) /\ y.pc = "run"
    BY <1>5, <2>2
  <2> HIDE DEF y
  <2> QED
    BY <1>3, <2>1, <2>3, <2>4
<1>7. CASE AckReturned(c)
  <2> DEFINE y == WithMsg(x, "")
  <2>1. Returned(c, "ConsumeClient", "ack", ParseConsumeAckReply(rpc[c].wire))
    BY <1>7 DEF AckReturned
  <2>2. client' = [client EXCEPT ![c] = y]
    BY <1>7 DEF AckReturned, Protocol, Clients, WithMsg
  <2>3. IsClient(y) /\ y.pc = "run"
    BY <1>5, MsgIdAssumption DEF Readable
  <2> HIDE DEF y
  <2> QED
    BY <1>3, <2>1, <2>2, <2>3
<1>8. CASE PhpConsumeReturned(c)
  <2> DEFINE p == ParseConsumeReply(rpc[c].wire)
             id == p.msg.msg_id
             y == WithMsg(x, id)
  <2>1. Returned(c, "Consumer.php", "consume", p)
    BY <1>8 DEF PhpConsumeReturned
  <2>2. id \in MsgId \cup {""} /\ Readable(id)
    BY <2>1, ReplyRead DEF Returned
  <2>3. client' = [client EXCEPT ![c] = y] \/ client' = [client EXCEPT ![c] = Exited(c)]
    BY <1>8 DEF PhpConsumeReturned, Protocol, Clients, WithMsg
  <2> HIDE DEF p, id
  <2>4. IsClient(y) /\ y.pc = "run"
    BY <1>5, <2>2
  <2> HIDE DEF y
  <2> QED
    BY <1>2, <1>3, <2>1, <2>3, <2>4
<1>9. CASE PhpReturned(c)
  <2>1. client' = [client EXCEPT ![c] = Exited(c)]
    BY <1>9 DEF PhpReturned
  <2>2. CASE Returned(c, "Producer.php", "produce", ParseProduceReply(rpc[c].wire))
    BY <1>2, <1>3, <2>1, <2>2
  <2>3. CASE Returned(c, "Consumer.php", "ack", ParseConsumeAckReply(rpc[c].wire))
    BY <1>2, <1>3, <2>1, <2>3
  <2> QED
    BY <1>9, <2>2, <2>3 DEF PhpReturned
<1> QED
  BY <1>4, <1>6, <1>7, <1>8, <1>9, EndStep DEF Return

-----------------------------------------------------------------------------
(* The server's steps.                                                      *)

\* What an object is after the changes.
LEMMA CallFields ==
  ASSUME NEW x, IsCall(x), NEW a, NEW b
  PROVE  /\ Received(x, a, b).status = x.status /\ Received(x, a, b).request = a
         /\ Received(x, a, b).reply = x.reply /\ Received(x, a, b).client = b
         /\ Received(x, a, b).msgId = x.msgId
         /\ Sent(x, a, b).status = x.status /\ Sent(x, a, b).client = x.client
         /\ Sent(x, a, b).msgId = x.msgId
         /\ Delivered(x, a, b).status = "FINISH" /\ Delivered(x, a, b).reply = a
         /\ Delivered(x, a, b).client = x.client /\ Delivered(x, a, b).msgId = b
<1> DEFINE s == x.status
           t == x.type
           m == x.method
           r == x.request
           p == x.reply
           c == x.client
           i == x.msgId
<1>1. x = [status |-> s, type |-> t, method |-> m, request |-> r, reply |-> p, client |-> c,
           msgId |-> i]
  BY DEF IsCall
<1> HIDE DEF s, t, m, r, p, c, i
<1>2. ASSUME NEW z, z = [x EXCEPT !.request = a, !.client = b]
      PROVE  z.status = s /\ z.request = a /\ z.reply = p /\ z.client = b /\ z.msgId = i
  BY <1>1, <1>2
<1>3. ASSUME NEW z, z = [x EXCEPT !.request = a, !.reply = b]
      PROVE  z.status = s /\ z.client = c /\ z.msgId = i
  BY <1>1, <1>3
<1>4. ASSUME NEW z, z = [x EXCEPT !.reply = a, !.status = "FINISH", !.msgId = b]
      PROVE  z.status = "FINISH" /\ z.reply = a /\ z.client = c /\ z.msgId = b
  BY <1>1, <1>4
<1> QED
  BY <1>2, <1>3, <1>4 DEF Received, Sent, Delivered, s, p, c, i

LEMMA RepliedFields ==
  ASSUME NEW x, IsCall(x), NEW a
  PROVE  /\ Replied(x, a).status = "FINISH" /\ Replied(x, a).reply = a
         /\ Replied(x, a).client = x.client /\ Replied(x, a).msgId = x.msgId
<1> DEFINE s == x.status
           t == x.type
           m == x.method
           r == x.request
           p == x.reply
           c == x.client
           i == x.msgId
<1>1. x = [status |-> s, type |-> t, method |-> m, request |-> r, reply |-> p, client |-> c,
           msgId |-> i]
  BY DEF IsCall
<1> HIDE DEF s, t, m, r, p, c, i
<1>2. ASSUME NEW z, z = [x EXCEPT !.reply = a, !.status = "FINISH"]
      PROVE  z.status = "FINISH" /\ z.reply = a /\ z.client = c /\ z.msgId = i
  BY <1>1, <1>2
<1> QED
  BY <1>2 DEF Replied, c, i

\* What the invariant says of an object in each place.
LEMMA ObjectFacts ==
  ASSUME IInv, Protocol, NEW o \in Object
  PROVE  /\ IsCall(call[o]) /\ call[o].client \in Client \cup {NoClient}
         /\ call[o].msgId \in MsgId \cup {""}
         /\ call[o].status # "NONE" => call[o].type = o[1] /\ o[1] \in RequestType
         /\ o \in requested => IsReady(call[o], o[1]) /\ call[o].status = "PROCESS"
                               /\ o \notin finishing /\ o \notin Active
         /\ o \in producing => o[1] = "REQUEST_PRODUCE"
         /\ o \in producing \cup matching => call[o].status = "PROCESS" /\ o \in Active
         /\ o \in finishing => call[o].status = "FINISH" /\ o \in Active
         /\ \A e \in queue : e.tag = o => o \notin requested \cup finishing
         /\ o \in Active => /\ call[o].client \in Client /\ o \notin requested
                            /\ IsHeld(call[o], client[call[o].client], rpc[call[o].client], o[1])
<1> DEFINE st == Statuses(call)
<1>1. /\ st[o] = call[o].status
      /\ Apart(st, requested, finishing, producing, matching, queue)
  BY DEF IInv, Ownership, Sound, Statuses
<1> HIDE DEF st
<1>2. IsCall(call[o]) /\ o[1] \in RequestType /\ (call[o].status # "NONE" => call[o].type = o[1])
  BY ObjectShape DEF IInv, Calls, Classes
<1>3. /\ call[o].client \in Client \cup {NoClient} /\ call[o].msgId \in MsgId \cup {""}
      /\ o \in requested => IsReady(call[o], o[1])
      /\ o \in producing => o[1] = "REQUEST_PRODUCE"
      /\ o \in Active => /\ call[o].client \in Client
                         /\ IsHeld(call[o], client[call[o].client], rpc[call[o].client], o[1])
  BY DEF Protocol, HeldCalls
<1>4. /\ o \in requested => call[o].status = "PROCESS" /\ o \notin finishing
      /\ o \in producing \cup matching => call[o].status = "PROCESS" /\ o \notin requested
      /\ o \in finishing => call[o].status = "FINISH" /\ o \notin requested
      /\ \A e \in queue : e.tag = o => o \notin requested \cup finishing
  BY <1>1 DEF Apart
<1> QED
  BY <1>2, <1>3, <1>4 DEF Active

\* A step of the server that no RPC takes part in: an object stays as it is, begins to
\* wait for a request, is answered or is deleted.
LEMMA CallStep ==
  ASSUME IInv, Protocol, UNCHANGED <<client, rpc>>, Stored',
         requested' \subseteq Object, finishing' \subseteq Object, producing' \subseteq Object,
         \A o \in Object :
           \/ /\ call'[o] = call[o]
              /\ (o \in requested' <=> o \in requested) /\ (o \in finishing' <=> o \in finishing)
           \/ /\ o \in requested' /\ o \notin finishing'
              /\ IsReady(call'[o], o[1]) /\ call'[o].msgId \in MsgId \cup {""}
           \/ /\ o \in Active /\ o \notin requested'
              /\ call'[o].client = call[o].client /\ call'[o].msgId \in MsgId \cup {""}
              /\ IsHeld(call'[o], client[call[o].client], rpc[call[o].client], o[1])
           \/ /\ o \notin requested' /\ o \notin finishing' /\ call'[o].status = "NONE"
              /\ call'[o].client = NoClient /\ call'[o].msgId = "",
         \A o \in producing' : o \in producing \/ o[1] = "REQUEST_PRODUCE"
  PROVE  Protocol'
<1>1. ASSUME NEW o \in Active'
      PROVE  /\ o \in Active /\ call'[o].client = call[o].client
             /\ IsHeld(call'[o], client[call[o].client], rpc[call[o].client], o[1])
  <2>1. /\ o \in Object
        /\ (call'[o].status = "PROCESS" /\ o \notin requested') \/ o \in finishing'
    BY DEF Active
  <2>2. CASE /\ call'[o] = call[o]
             /\ (o \in requested' <=> o \in requested) /\ (o \in finishing' <=> o \in finishing)
    <3>1. o \in Active
      BY <2>1, <2>2 DEF Active
    <3>2. IsHeld(call[o], client[call[o].client], rpc[call[o].client], o[1])
      BY <3>1 DEF Protocol, HeldCalls
    <3> QED
      BY <2>2, <3>1, <3>2
  <2>3. CASE ~(/\ call'[o] = call[o]
               /\ (o \in requested' <=> o \in requested) /\ (o \in finishing' <=> o \in finishing))
    BY <2>1, <2>3
  <2> QED
    BY <2>2, <2>3
<1>2. Clients'
  BY DEF Protocol, Clients
<1>3. \A o \in Object : call'[o].client \in Client \cup {NoClient} /\ call'[o].msgId \in MsgId \cup {""}
  <2> SUFFICES ASSUME NEW o \in Object
               PROVE  call'[o].client \in Client \cup {NoClient} /\ call'[o].msgId \in MsgId \cup {""}
    OBVIOUS
  <2>1. call[o].client \in Client \cup {NoClient} /\ call[o].msgId \in MsgId \cup {""}
    BY DEF Protocol, HeldCalls
  <2> QED
    BY <2>1, MsgIdAssumption DEF IsReady
<1>4. ASSUME NEW o \in requested' PROVE IsReady(call'[o], o[1])
  <2>1. CASE o \in requested /\ call'[o] = call[o]
    BY <2>1 DEF Protocol, HeldCalls
  <2>2. CASE ~(o \in requested /\ call'[o] = call[o])
    BY <1>4, <2>2
  <2> QED
    BY <2>1, <2>2
<1>5. \A o \in producing' : o[1] = "REQUEST_PRODUCE"
  BY DEF Protocol, HeldCalls
<1>6. \A o \in Active' : call'[o].client \in Client
  BY <1>1 DEF Protocol, HeldCalls
<1>7. HeldCalls'
  <2>1. \A o \in Active' : IsHeld(call'[o], client'[call'[o].client], rpc'[call'[o].client], o[1])
    BY <1>1
  <2> QED
    BY <1>3, <1>4, <1>5, <1>6, <2>1 DEF HeldCalls
<1>8. OnePerClient'
  <2> SUFFICES ASSUME NEW o \in Active', NEW p \in Active', call'[o].client = call'[p].client
               PROVE  o = p
    BY DEF OnePerClient
  <2>1. o \in Active /\ p \in Active /\ call[o].client = call[p].client
    BY <1>1
  <2> QED
    BY <2>1 DEF Protocol, OnePerClient
<1> QED
  BY <1>2, <1>7, <1>8 DEF Protocol

\* A request arrives as it was sent, at an object of its class.
LEMMA ArriveKept ==
  ASSUME IInv, Protocol, NEW c \in Client, NEW o \in Object, Arrive(c, o), UNCHANGED client
  PROVE  Protocol'
<1> DEFINE x == client[c]
           r == rpc[c]
           y == call[o]
           p == ParseRequest(y.type, r.wire)
<1>1. IsClient(x) /\ IsRpc(r) /\ Agree(x, r) /\ r.pc = "sent"
  BY DEF Protocol, Clients, Arrive
<1>2. /\ o \in requested /\ IsCall(y) /\ IsReady(y, o[1]) /\ y.status = "PROCESS"
      /\ y.type = o[1] /\ o[1] \in RequestType /\ o \notin finishing
  BY ObjectFacts DEF Arrive
<1>3. PICK m : IsSent(x, r, o[1], m)
  <2>1. PICK type, m : type \in RequestType /\ IsSent(x, r, type, m)
    BY <1>1 DEF Agree
  <2>2. Method(type) = Method(o[1])
    BY <1>2, <2>1 DEF IsSent, Arrive, IsReady
  <2>3. type = o[1]
    BY <1>2, <2>1, <2>2, Methods
  <2> QED
    BY <2>1, <2>3
<1>4. p = Parse(Class(o[1]), Serialize(Class(o[1]), m))
  BY <1>2, <1>3, RequestClass DEF IsSent
<1>5. p.msg = m
  <2> DEFINE T == Class(o[1])
  <2>1. WellFormed(T) /\ IsMessage(T, m)
    BY <1>2, <1>3, RequestClass DEF IsSent, Asks
  <2>2. p = Parse(T, Serialize(T, m))
    BY <1>4
  <2> HIDE DEF T, p
  <2> QED
    BY <2>1, <2>2, RoundTrip
<1> HIDE DEF p
<1>6. CASE ~p.ok
  <2> DEFINE s == WireRpc(r, "failed", <<>>)
  <2>1. s = [pc |-> "failed", method |-> r.method, wire |-> <<>>, away |-> r.away]
    BY <1>1, WireFields
  <2>2. rpc' = [rpc EXCEPT ![c] = s] /\ client' = [client EXCEPT ![c] = x]
    BY <1>6 DEF Arrive, Protocol, Clients, WireRpc, p
  <2>3. ServerUnchanged
    BY <1>6 DEF Arrive, ServerUnchanged, workVars, p
  <2> HIDE DEF s
  <2>4. IsRpc(s)
    BY <1>1, <2>1 DEF IsRpc, RpcPC
  <2>5. Agree(x, s)
    BY <1>1, <2>1 DEF Agree
  <2> QED
    BY <1>1, <2>2, <2>3, <2>4, <2>5, ClientStep
<1>7. CASE p.ok
  <2> DEFINE s == WireRpc(r, "arrived", <<>>)
             z == Received(y, m, c)
  <2>1. s = [pc |-> "arrived", method |-> r.method, wire |-> <<>>, away |-> r.away]
    BY <1>1, WireFields
  <2>2. z.status = y.status /\ z.request = m /\ z.reply = y.reply /\ z.client = c
        /\ z.msgId = y.msgId
    <3> HIDE DEF y
    <3> QED
      BY <1>2, CallFields
  <2>3. /\ rpc' = [rpc EXCEPT ![c] = s] /\ call' = [call EXCEPT ![o] = z]
        /\ requested' = requested \ {o} /\ UNCHANGED <<finishing, producing, store>>
    BY <1>5, <1>7 DEF Arrive, Protocol, Clients, IInv, Calls, Received, workVars, WireRpc, p
  <2> HIDE DEF s, z
  <2>4. /\ rpc' = [d \in Client |-> rpc'[d]]
        /\ \A d \in Client : rpc'[d] = IF d = c THEN s ELSE rpc[d]
        /\ \A q \in Object : call'[q] = IF q = o THEN z ELSE call[q]
    BY <2>3 DEF Protocol, Clients, IInv, Calls
  <2> HIDE DEF x, r, y
  <2>5. IsRpc(s) /\ Agree(x, s)
    BY <1>1, <2>1 DEF IsRpc, RpcPC, Agree
  <2>6. Clients'
    <3>1. \A d \in Client : IsClient(client[d]) /\ IsRpc(rpc'[d]) /\ Agree(client[d], rpc'[d])
      BY <2>4, <2>5 DEF Protocol, Clients, x
    <3> QED
      BY <2>4, <3>1 DEF Protocol, Clients
  <2>7. IsHeld(z, x, s, o[1])
    BY <1>2, <1>3, <2>1, <2>2 DEF IsHeld, IsSent, Asks, IsReady
  <2>8. Active' = Active \cup {o}
    BY <1>2, <2>2, <2>3, <2>4 DEF Active
  <2>9. \A q \in Active : q # o /\ call[q].client # c /\ q \in Object
    <3>1. \A q \in Active : q \notin requested /\ rpc[call[q].client].pc = "arrived" /\ q \in Object
      BY ObjectFacts DEF IsHeld, Active
    <3> QED
      BY <1>1, <1>2, <3>1 DEF r
  <2>10. HeldCalls'
    <3>1. \A q \in Object : call'[q].client \in Client \cup {NoClient} /\ call'[q].msgId \in MsgId \cup {""}
      <4> SUFFICES ASSUME NEW q \in Object
                   PROVE  call'[q].client \in Client \cup {NoClient}
                          /\ call'[q].msgId \in MsgId \cup {""}
        OBVIOUS
      <4>1. CASE q = o
        BY <2>2, <2>4, <4>1, ObjectFacts DEF y
      <4>2. CASE q # o
        BY <2>4, <4>2, ObjectFacts
      <4> QED
        BY <4>1, <4>2
    <3>2. \A q \in requested' : IsReady(call'[q], q[1])
      <4>1. requested \subseteq Object
        BY DEF IInv, Ownership, Sound, Apart
      <4> QED
        BY <2>3, <2>4, <4>1, ZenonT(40) DEF Protocol, HeldCalls
    <3>3. \A q \in producing' : q[1] = "REQUEST_PRODUCE"
      BY <2>3 DEF Protocol, HeldCalls
    <3>4. ASSUME NEW q \in Active'
          PROVE  /\ call'[q].client \in Client
                 /\ IsHeld(call'[q], client[call'[q].client], rpc'[call'[q].client], q[1])
      <4>1. CASE q = o
        BY <2>2, <2>4, <2>7, <4>1 DEF x
      <4>2. CASE q # o
        <5>1. q \in Active /\ call'[q] = call[q] /\ call[q].client # c
          BY <2>4, <2>8, <2>9, <4>2
        <5>2. /\ call[q].client \in Client
              /\ IsHeld(call[q], client[call[q].client], rpc[call[q].client], q[1])
          BY <5>1 DEF Protocol, HeldCalls
        <5> QED
          BY <2>4, <5>1, <5>2
      <4> QED
        BY <4>1, <4>2
    <3> QED
      BY <3>1, <3>2, <3>3, <3>4 DEF HeldCalls
  <2>11. OnePerClient'
    <3> SUFFICES ASSUME NEW q \in Active', NEW t \in Active', call'[q].client = call'[t].client
                 PROVE  q = t
      BY DEF OnePerClient
    <3>1. \A a \in Active : call'[a] = call[a]
      BY <2>4, <2>9
    <3>2. call'[o].client = c
      BY <2>2, <2>4
    <3> QED
      BY <2>8, <2>9, <3>1, <3>2 DEF Protocol, OnePerClient
  <2>12. Stored'
    BY <2>3 DEF Protocol, Stored, UnreadableNotAcked
  <2> QED
    BY <2>6, <2>10, <2>11, <2>12 DEF Protocol
<1> QED
  BY <1>6, <1>7

\* Finish sends the reply to the client that has sent the request.
LEMMA SendReplyKept ==
  ASSUME IInv, Protocol, NEW o \in Object, SendReply(o), UNCHANGED client
  PROVE  Protocol'
<1> DEFINE y == call[o]
           c == y.client
           x == client[c]
           r == rpc[c]
           w == SerializeReply(y.type, y.reply)
           s == WireRpc(r, "ok", w)
           z == Sent(y, <<>>, <<>>)
<1>1. /\ o \in finishing /\ IsCall(y) /\ y.status = "FINISH" /\ y.type = o[1]
      /\ o[1] \in RequestType /\ o \in Active /\ c \in Client /\ IsHeld(y, x, r, o[1])
  BY ObjectFacts DEF SendReply
<1>2. IsClient(x) /\ IsRpc(r) /\ Agree(x, r)
  BY <1>1 DEF Protocol, Clients
<1>3. s = [pc |-> "ok", method |-> r.method, wire |-> w, away |-> r.away]
  BY <1>2, WireFields
<1>4. z.status = y.status /\ z.client = y.client /\ z.msgId = y.msgId
  <2> HIDE DEF y
  <2> QED
    BY <1>1, CallFields, SMTT(30)
<1>5. /\ rpc' = [rpc EXCEPT ![c] = s] /\ call' = [call EXCEPT ![o] = z]
      /\ finishing' = finishing \ {o} /\ UNCHANGED <<requested, producing, store>>
  BY <1>1 DEF SendReply, Protocol, Clients, IInv, Calls, Sent, workVars, WireRpc
<1>6. w = SerializeReply(y.type, y.reply)
  OBVIOUS
<1> HIDE DEF s, z, w
<1>7. /\ rpc' = [d \in Client |-> rpc'[d]]
      /\ \A d \in Client : rpc'[d] = IF d = c THEN s ELSE rpc[d]
      /\ \A q \in Object : call'[q] = IF q = o THEN z ELSE call[q]
  BY <1>1, <1>5 DEF Protocol, Clients, IInv, Calls
<1>8. IsRpc(s)
  BY <1>2, <1>3 DEF IsRpc, RpcPC
<1>9. Agree(x, s)
  <2>1. ASSUME ~r.away, x.pc = "consume"
        PROVE  Delivers(y.reply) /\ w = SerializeConsumeReply(y.reply)
    <3>1. o[1] = "REQUEST_CONSUME"
      BY <1>1, <2>1 DEF IsHeld, WaitsIn, RequestType
    <3> QED
      BY <1>1, <1>6, <3>1 DEF IsHeld, SerializeReply
  <2>2. ~r.away => x.pc \notin {"run", "exited"}
    BY <1>1, <1>2 DEF IsHeld, Agree
  <2> HIDE DEF x, r, y
  <2> QED
    BY <1>2, <1>3, <2>1, <2>2 DEF Agree
<1>10. Clients'
  <2>1. \A d \in Client : IsClient(client[d]) /\ IsRpc(rpc'[d]) /\ Agree(client[d], rpc'[d])
    BY <1>7, <1>8, <1>9 DEF Protocol, Clients
  <2> QED
    BY <1>7, <2>1 DEF Protocol, Clients
<1>11. Active' = Active \ {o}
  BY <1>1, <1>4, <1>5, <1>7 DEF Active
<1>12. \A q \in Active' : q \in Active /\ q # o /\ call'[q] = call[q] /\ call[q].client # c
  <2>1. Active \subseteq Object
    BY DEF Active
  <2> QED
    BY <1>1, <1>7, <1>11, <2>1 DEF Protocol, OnePerClient
<1>13. HeldCalls'
  <2>1. \A q \in Object : call'[q].client \in Client \cup {NoClient} /\ call'[q].msgId \in MsgId \cup {""}
    <3> SUFFICES ASSUME NEW q \in Object
                 PROVE  call'[q].client \in Client \cup {NoClient}
                        /\ call'[q].msgId \in MsgId \cup {""}
      OBVIOUS
    <3>1. CASE q = o
      BY <1>1, <1>4, <1>7, <3>1, ObjectFacts
    <3>2. CASE q # o
      BY <1>7, <3>2, ObjectFacts
    <3> QED
      BY <3>1, <3>2
  <2>2. \A q \in requested' : IsReady(call'[q], q[1])
    <3>1. requested \subseteq Object /\ o \notin requested
      BY <1>1, ObjectFacts DEF IInv, Ownership, Sound, Apart
    <3> QED
      BY <1>5, <1>7, <3>1, ZenonT(40) DEF Protocol, HeldCalls
  <2>3. \A q \in producing' : q[1] = "REQUEST_PRODUCE"
    BY <1>5 DEF Protocol, HeldCalls
  <2>4. ASSUME NEW q \in Active'
        PROVE  /\ call'[q].client \in Client
               /\ IsHeld(call'[q], client[call'[q].client], rpc'[call'[q].client], q[1])
    <3>1. q \in Active /\ call'[q] = call[q] /\ call[q].client # c
      BY <1>12
    <3>2. /\ call[q].client \in Client
          /\ IsHeld(call[q], client[call[q].client], rpc[call[q].client], q[1])
      BY <3>1 DEF Protocol, HeldCalls
    <3> QED
      BY <1>7, <3>1, <3>2
  <2> QED
    BY <2>1, <2>2, <2>3, <2>4 DEF HeldCalls
<1>14. OnePerClient'
  BY <1>12 DEF Protocol, OnePerClient
<1>15. Stored'
  BY <1>5 DEF Protocol, Stored, UnreadableNotAcked
<1> QED
  BY <1>10, <1>13, <1>14, <1>15 DEF Protocol

\* Another thread answers a call: the object z in place of o.
LEMMA AnswerKept ==
  ASSUME IInv, Protocol, NEW o \in Object, o \in producing \cup matching,
         NEW reply, NEW m, NEW z,
         z = Replied(call[o], reply) \/ (m \in MsgId /\ z = Delivered(call[o], reply, m)),
         call' = [call EXCEPT ![o] = z], finishing' = finishing \cup {o},
         UNCHANGED <<requested, rpc, client>>, producing' \subseteq producing, Stored',
         o[1] = "REQUEST_CONSUME" => Delivers(reply)
  PROVE  Protocol'
<1>1. /\ IsCall(call[o]) /\ o \in Active /\ o \notin requested /\ call[o].status = "PROCESS"
      /\ o \in producing => o[1] = "REQUEST_PRODUCE"
      /\ call[o].msgId \in MsgId \cup {""}
      /\ IsHeld(call[o], client[call[o].client], rpc[call[o].client], o[1])
  BY ObjectFacts
<1>2. /\ z.status = "FINISH" /\ z.reply = reply /\ z.client = call[o].client
      /\ z.msgId \in MsgId \cup {""}
  <2> DEFINE y == call[o]
  <2>1. IsCall(y) /\ y.msgId \in MsgId \cup {""}
    BY <1>1
  <2>2. z = Replied(y, reply) \/ (m \in MsgId /\ z = Delivered(y, reply, m))
    OBVIOUS
  <2> HIDE DEF y
  <2>3. CASE z = Replied(y, reply)
    BY <2>1, <2>3, RepliedFields DEF y
  <2>4. CASE m \in MsgId /\ z = Delivered(y, reply, m)
    <3>1. IsCall(y)
      BY <2>1
    <3>2. /\ Delivered(y, reply, m).status = "FINISH" /\ Delivered(y, reply, m).reply = reply
          /\ Delivered(y, reply, m).client = y.client /\ Delivered(y, reply, m).msgId = m
      BY <3>1, CallFields
    <3> QED
      BY <2>4, <3>2 DEF y
  <2> QED
    BY <2>2, <2>3, <2>4
<1>3. IsHeld(z, client[call[o].client], rpc[call[o].client], o[1])
  BY <1>1, <1>2 DEF IsHeld
<1>4. \A q \in Object : call'[q] = IF q = o THEN z ELSE call[q]
  BY DEF IInv, Calls
<1>5. requested \subseteq Object /\ finishing \subseteq Object /\ producing \subseteq Object
  BY DEF IInv, Ownership, Sound, Apart
<1>6. \A q \in Object :
        \/ /\ call'[q] = call[q]
           /\ (q \in requested' <=> q \in requested) /\ (q \in finishing' <=> q \in finishing)
        \/ /\ q \in Active /\ q \notin requested'
           /\ call'[q].client = call[q].client /\ call'[q].msgId \in MsgId \cup {""}
           /\ IsHeld(call'[q], client[call[q].client], rpc[call[q].client], q[1])
  BY <1>1, <1>2, <1>3, <1>4
<1>7. /\ requested' \subseteq Object /\ finishing' \subseteq Object /\ producing' \subseteq Object
      /\ \A q \in producing' : q \in producing
      /\ UNCHANGED <<client, rpc>>
  BY <1>5
<1> QED
  BY <1>6, <1>7, CallStep

\* process() and the next object of its class, object by object.
LEMMA ProcessAt ==
  ASSUME IInv, NEW o \in Object, call[o].status = "PROCESS", NEW type \in RequestType,
         Free(type) # {}, NEW r
  PROVE  LET n == NewObj(type)
         IN  /\ n \in Object /\ n # o /\ n[1] = type /\ call[n].status = "NONE"
             /\ \A q \in Object : WithNext(Finished(o, r), type)[q]
                   = IF q = n THEN New(type) ELSE IF q = o THEN Replied(call[o], r) ELSE call[q]
             /\ \A q \in Object : WithNext(call, type)[q] = IF q = n THEN New(type) ELSE call[q]
<1> DEFINE n == NewObj(type)
           x == New(type)
           z == Replied(call[o], r)
           c == Finished(o, r)
<1>1. n \in Object /\ n[1] = type /\ call[n].status = "NONE"
  BY NewObject
<1>2. c = [call EXCEPT ![o] = z]
  BY DEF Finished, Replied, IInv, Calls
<1>3. WithNext(c, type) = [c EXCEPT ![n] = x] /\ WithNext(call, type) = [call EXCEPT ![n] = x]
  BY DEF WithNext
<1>4. n # o
  BY <1>1
<1> HIDE DEF n, x, z, c
<1>5. c = [q \in Object |-> c[q]] /\ \A q \in Object : c[q] = IF q = o THEN z ELSE call[q]
  BY <1>2 DEF IInv, Calls
<1>6. \A q \in Object : WithNext(c, type)[q] = IF q = n THEN x ELSE IF q = o THEN z ELSE call[q]
  BY <1>3, <1>5
<1>7. \A q \in Object : WithNext(call, type)[q] = IF q = n THEN x ELSE call[q]
  BY <1>3 DEF IInv, Calls
<1> QED
  BY <1>1, <1>4, <1>6, <1>7 DEF n, x, z, c

\* process() with the next object of its class: an object is answered or handed over, and
\* the next one begins to wait.
LEMMA NextKept ==
  ASSUME IInv, Protocol, UNCHANGED <<client, rpc>>, Stored',
         NEW o \in Object, call[o].status = "PROCESS", o \in Active, o \notin finishing,
         NEW type \in RequestType, type = o[1], Free(type) # {},
         requested' = requested \cup {NewObj(type)},
         \/ /\ \E r : call' = WithNext(Finished(o, r), type)
            /\ finishing' = finishing \cup {o} /\ producing' \subseteq producing
            /\ o[1] # "REQUEST_CONSUME"
         \/ /\ call' = WithNext(call, type) /\ UNCHANGED finishing
            /\ producing' = producing \/ (producing' = producing \cup {o} /\ o[1] = "REQUEST_PRODUCE")
  PROVE  Protocol'
<1> DEFINE n == NewObj(type)
<1>1. requested' = requested \cup {n}
  OBVIOUS
<1>2. /\ IsCall(call[o]) /\ o \in Active /\ o \notin requested /\ o \notin finishing
      /\ call[o].msgId \in MsgId \cup {""}
      /\ IsHeld(call[o], client[call[o].client], rpc[call[o].client], o[1])
  BY ObjectFacts
<1>3. /\ n \in Object /\ n # o /\ n[1] = type /\ n \notin finishing
      /\ IsReady(New(type), n[1]) /\ New(type).msgId = ""
  <2>1. n \in Object /\ n # o /\ n[1] = type /\ call[n].status = "NONE"
    BY ProcessAt
  <2>2. n \notin finishing
    BY <2>1, ObjectFacts
  <2>3. New(type).method = Method(type)
    BY NewCall
  <2>4. New(type).client = NoClient /\ New(type).reply = NewReply(type) /\ New(type).msgId = ""
    BY NewCall
  <2> QED
    BY <2>1, <2>2, <2>3, <2>4 DEF IsReady
<1>4. requested \subseteq Object /\ finishing \subseteq Object /\ producing \subseteq Object
  BY DEF IInv, Ownership, Sound, Apart
<1>5. ASSUME NEW r, call' = WithNext(Finished(o, r), type), finishing' = finishing \cup {o},
             producing' \subseteq producing, o[1] # "REQUEST_CONSUME"
      PROVE  Protocol'
  <2> DEFINE z == Replied(call[o], r)
             x == New(type)
  <2>1. \A q \in Object : call'[q] = IF q = n THEN x ELSE IF q = o THEN z ELSE call[q]
    BY <1>5, ProcessAt
  <2>2. z.status = "FINISH" /\ z.client = call[o].client /\ z.msgId = call[o].msgId
    BY <1>2, RepliedFields
  <2>3. IsHeld(z, client[call[o].client], rpc[call[o].client], o[1])
    BY <1>2, <1>5, <2>2 DEF IsHeld
  <2>4. IsReady(x, n[1]) /\ x.msgId = ""
    BY <1>3
  <2> HIDE DEF n, x, z
  <2>5. \A q \in Object :
          \/ /\ call'[q] = call[q]
             /\ (q \in requested' <=> q \in requested) /\ (q \in finishing' <=> q \in finishing)
          \/ /\ q \in requested' /\ q \notin finishing'
             /\ IsReady(call'[q], q[1]) /\ call'[q].msgId \in MsgId \cup {""}
          \/ /\ q \in Active /\ q \notin requested'
             /\ call'[q].client = call[q].client /\ call'[q].msgId \in MsgId \cup {""}
             /\ IsHeld(call'[q], client[call[q].client], rpc[call[q].client], q[1])
    <3> SUFFICES ASSUME NEW q \in Object
                 PROVE
          \/ /\ call'[q] = call[q]
             /\ (q \in requested' <=> q \in requested) /\ (q \in finishing' <=> q \in finishing)
          \/ /\ q \in requested' /\ q \notin finishing'
             /\ IsReady(call'[q], q[1]) /\ call'[q].msgId \in MsgId \cup {""}
          \/ /\ q \in Active /\ q \notin requested'
             /\ call'[q].client = call[q].client /\ call'[q].msgId \in MsgId \cup {""}
             /\ IsHeld(call'[q], client[call[q].client], rpc[call[q].client], q[1])
      OBVIOUS
    <3>1. CASE q = n
      BY <1>1, <1>3, <1>5, <2>1, <2>4, <3>1
    <3>2. CASE q = o
      BY <1>1, <1>2, <1>3, <2>1, <2>2, <2>3, <3>2
    <3>3. CASE q # n /\ q # o
      BY <1>1, <1>5, <2>1, <3>3
    <3> QED
      BY <3>1, <3>2, <3>3
  <2>6. /\ requested' \subseteq Object /\ finishing' \subseteq Object /\ producing' \subseteq Object
        /\ \A q \in producing' : q \in producing
    BY <1>1, <1>3, <1>4, <1>5
  <2> QED
    BY <2>5, <2>6, CallStep
<1>6. ASSUME call' = WithNext(call, type), UNCHANGED finishing,
             producing' = producing \/ (producing' = producing \cup {o} /\ o[1] = "REQUEST_PRODUCE")
      PROVE  Protocol'
  <2> DEFINE x == New(type)
  <2>1. \A q \in Object : call'[q] = IF q = n THEN x ELSE call[q]
    BY <1>6, ProcessAt
  <2>2. IsReady(x, n[1]) /\ x.msgId = ""
    BY <1>3
  <2> HIDE DEF n, x
  <2>3. \A q \in Object :
          \/ /\ call'[q] = call[q]
             /\ (q \in requested' <=> q \in requested) /\ (q \in finishing' <=> q \in finishing)
          \/ /\ q \in requested' /\ q \notin finishing'
             /\ IsReady(call'[q], q[1]) /\ call'[q].msgId \in MsgId \cup {""}
    BY <1>1, <1>3, <1>6, <2>1, <2>2
  <2>4. /\ requested' \subseteq Object /\ finishing' \subseteq Object /\ producing' \subseteq Object
        /\ \A q \in producing' : q \in producing \/ q[1] = "REQUEST_PRODUCE"
    BY <1>1, <1>3, <1>4, <1>6
  <2> QED
    BY <2>3, <2>4, CallStep
<1> QED
  BY <1>5, <1>6

LEMMA RespondKept ==
  ASSUME IInv, Protocol, NEW o \in Object, Respond(o) \/ \E m \in MsgId : ResponseMsg(o, m),
         UNCHANGED client
  PROVE  Protocol'
<1>1. \A r : Finished(o, r) = [call EXCEPT ![o] = Replied(call[o], r)]
  BY DEF Finished, Replied, IInv, Calls
<1>2. /\ o \in producing => o[1] = "REQUEST_PRODUCE"
      /\ o \in producing \cup matching /\ o[1] = "REQUEST_CONSUME" => call[o].reply = NewConsumeReply
  <2>1. o \in producing \cup matching => call[o].status = "PROCESS" /\ o \in Active
    BY ObjectFacts
  <2>2. o \in Active => IsHeld(call[o], client[call[o].client], rpc[call[o].client], o[1])
    BY ObjectFacts
  <2>3. o \in producing => o[1] = "REQUEST_PRODUCE"
    BY ObjectFacts
  <2> QED
    BY <2>1, <2>2, <2>3 DEF IsHeld, NewReply
<1>3. UNCHANGED store => Stored'
  BY DEF Protocol, Stored, UnreadableNotAcked
<1>4. CASE SuccessFunc(o)
  <2> DEFINE r == SetProduceReply(call[o].reply, RESPONSE_SUCCESS, "produced", "")
             z == Replied(call[o], r)
  <2>1. /\ call' = [call EXCEPT ![o] = z] /\ o \in producing /\ producing' \subseteq producing
        /\ finishing' = finishing \cup {o} /\ UNCHANGED <<requested, rpc, store>>
    BY <1>1, <1>4 DEF SuccessFunc, Answer
  <2> HIDE DEF r
  <2>2. z = Replied(call[o], r)
    OBVIOUS
  <2> HIDE DEF z
  <2> QED
    BY <1>2, <1>3, <2>1, <2>2, AnswerKept
<1>5. CASE FailureFunc(o) /\ retryCount[o] + 1 > MaxRetry
  <2> DEFINE r == SetProduceReply(call[o].reply, RESPONSE_ERROR, "", "failed")
             z == Replied(call[o], r)
  <2>1. /\ call' = [call EXCEPT ![o] = z] /\ o \in producing /\ producing' \subseteq producing
        /\ finishing' = finishing \cup {o} /\ UNCHANGED <<requested, rpc, store>>
    BY <1>1, <1>5 DEF FailureFunc, Answer
  <2> HIDE DEF r
  <2>2. z = Replied(call[o], r)
    OBVIOUS
  <2> HIDE DEF z
  <2> QED
    BY <1>2, <1>3, <2>1, <2>2, AnswerKept
<1>6. CASE ResponseTimeOut(o)
  <2> DEFINE r == SetConsumeReply(call[o].reply, RESPONSE_TIMEOUT, "", "", "get msg timeout")
             z == Replied(call[o], r)
  <2>1. /\ call' = [call EXCEPT ![o] = z] /\ o \in matching /\ producing' \subseteq producing
        /\ finishing' = finishing \cup {o} /\ UNCHANGED <<requested, rpc, store>>
    BY <1>1, <1>6 DEF ResponseTimeOut, Answer
  <2>2. o[1] = "REQUEST_CONSUME" => Delivers(r)
    BY <1>2, <2>1, RepliesDeliver
  <2> HIDE DEF r
  <2>3. z = Replied(call[o], r)
    OBVIOUS
  <2> HIDE DEF z
  <2> QED
    BY <1>3, <2>1, <2>2, <2>3, AnswerKept
<1>7. ASSUME NEW m \in MsgId, ResponseMsg(o, m) PROVE Protocol'
  <2> DEFINE r == SetConsumeReply(call[o].reply, RESPONSE_SUCCESS, m, Body[m], "")
             z == Delivered(call[o], r, m)
  <2>1. /\ call' = [call EXCEPT ![o] = z] /\ o \in matching /\ producing' \subseteq producing
        /\ finishing' = finishing \cup {o} /\ UNCHANGED <<requested, rpc>>
    BY <1>7, ResponseMsgCall DEF ResponseMsg
  <2>2. o[1] = "REQUEST_CONSUME" => Delivers(r)
    BY <1>2, <2>1, RepliesDeliver
  <2>3. Stored'
    <3>1. store' = [store EXCEPT ![m] = "held"]
      BY <1>7 DEF ResponseMsg
    <3> QED
      BY <3>1 DEF Protocol, Stored, UnreadableNotAcked, Place
  <2> HIDE DEF r
  <2>4. z = Delivered(call[o], r, m)
    OBVIOUS
  <2> HIDE DEF z
  <2> QED
    BY <1>7, <2>1, <2>2, <2>3, <2>4, AnswerKept
<1>8. CASE FailureFunc(o) /\ ~(retryCount[o] + 1 > MaxRetry)
  <2> DEFINE type == "REQUEST_PRODUCE"
  <2>1. o \in producing /\ TryProduce(o) /\ UNCHANGED <<rpc, store>>
    BY <1>8 DEF FailureFunc
  <2>2. /\ call[o].status = "PROCESS" /\ o \in Active /\ o \notin finishing
        /\ type \in RequestType /\ type = o[1]
    BY <1>2, <2>1, ObjectFacts DEF RequestType
  <2>3. requested' = requested \cup {NewObj(type)} /\ Free(type) # {}
    <3>1. New(type).method # ""
      BY <2>2, NewCall
    <3> QED
      BY <2>1, <3>1 DEF TryProduce, RegisterNext
  <2>4. \/ /\ call' = WithNext(call, type) /\ producing' = producing \cup {o}
           /\ UNCHANGED finishing
        \/ \E r : /\ call' = WithNext(Finished(o, r), type)
                 /\ producing' = producing \ {o} /\ finishing' = finishing \cup {o}
    BY <2>1 DEF TryProduce
  <2> QED
    BY <1>3, <2>1, <2>2, <2>3, <2>4, NextKept
<1> QED
  BY <1>4, <1>5, <1>6, <1>7, <1>8 DEF Respond

\* What becomes of the messages: an ack reaches a message that its client could parse.
LEMMA ProcessStored ==
  ASSUME IInv, Protocol, NEW e, ProcessProduce(e) \/ ProcessConsume(e) \/ ProcessAck(e)
  PROVE  Stored'
<1>1. CASE UNCHANGED store
  BY <1>1 DEF Protocol, Stored, UnreadableNotAcked
<1>2. CASE ProcessAck(e)
  <2> DEFINE o == e.tag
             id == call[o].request.msg_id
             status == call[o].request.status
             found == id \in MsgId /\ store[id] = "held"
  <2>1. o \in Object /\ o \in Active /\ call[o].status = "PROCESS" /\ o[1] = "REQUEST_CONSUME_ACK"
    <3>1. e \in queue /\ call[o].status = "PROCESS" /\ call[o].type = "REQUEST_CONSUME_ACK"
      BY <1>2 DEF ProcessAck, Proceed
    <3>2. o \in Object
      BY <3>1 DEF IInv, Ownership, Sound, Apart
    <3> QED
      BY <3>1, <3>2, ObjectFacts DEF Active
  <2>2. Readable(id)
    <3>1. IsHeld(call[o], client[call[o].client], rpc[call[o].client], o[1])
      BY <2>1, ObjectFacts
    <3> QED
      BY <2>1, <3>1 DEF IsHeld
  <2>3. store' = [m \in MsgId |-> IF ~found \/ m # id THEN store[m]
                                  ELSE IF status = RECONSUME_LATER THEN "broker" ELSE "acked"]
    BY <1>2 DEF ProcessAck
  <2> HIDE DEF id, status, found
  <2>4. \A m \in MsgId : store[m] \in Place /\ (Body[m] \in NotUtf8 => store[m] # "acked")
    BY DEF Protocol, Stored, UnreadableNotAcked
  <2>5. \A m \in MsgId : store'[m] = store[m] \/ store'[m] = "broker" \/ (store'[m] = "acked" /\ m = id)
    BY <2>3
  <2>6. store' = [m \in MsgId |-> store'[m]]
    BY <2>3
  <2>7. store' \in [MsgId -> Place]
    <3>1. \A m \in MsgId : store'[m] \in Place
      BY <2>4, <2>5 DEF Place
    <3> QED
      BY <2>6, <3>1
  <2>8. UnreadableNotAcked'
    BY <2>2, <2>4, <2>5 DEF UnreadableNotAcked, Readable
  <2> QED
    BY <2>7, <2>8 DEF Stored
<1> QED
  BY <1>1, <1>2 DEF ProcessProduce, ProcessConsume

LEMMA ProcessKept ==
  ASSUME IInv, Protocol, NEW e, ProcessProduce(e) \/ ProcessConsume(e) \/ ProcessAck(e),
         UNCHANGED client
  PROVE  Protocol'
<1> DEFINE o == e.tag
           type == call[o].type
           n == NewObj(type)
<1>1. /\ e \in queue /\ o \in Object /\ call[o].status = "PROCESS"
      /\ type \in RequestType /\ type = o[1] /\ Free(type) # {} /\ UNCHANGED rpc
  <2>1. e \in queue /\ call[o].status = "PROCESS" /\ UNCHANGED rpc
    BY DEF ProcessProduce, ProcessConsume, ProcessAck, Proceed
  <2>2. type \in RequestType /\ Free(type) # {}
    BY DEF ProcessProduce, TryProduce, ProcessConsume, ProcessAck, Proceed, RequestType
  <2>3. o \in Object
    BY <2>1, SMTT(30) DEF IInv, Ownership, Sound, Apart
  <2> QED
    BY <2>1, <2>2, <2>3 DEF IInv, Classes
<1>2. requested' = requested \cup {n}
  <2>1. New(type).method # ""
    BY <1>1, NewCall
  <2> QED
    BY <2>1 DEF ProcessProduce, TryProduce, ProcessConsume, ProcessAck, Proceed, RegisterNext
<1>3. o \in Active /\ o \notin finishing
  <2>1. o \notin requested \cup finishing
    BY <1>1, ObjectFacts
  <2> QED
    BY <1>1, <2>1 DEF Active
<1>4. Stored'
  BY ProcessStored
<1>5. ASSUME \/ /\ \E r : call' = WithNext(Finished(o, r), type)
                /\ finishing' = finishing \cup {o} /\ producing' \subseteq producing
                /\ o[1] # "REQUEST_CONSUME"
             \/ /\ call' = WithNext(call, type) /\ UNCHANGED finishing
                /\ producing' = producing \/ (producing' = producing \cup {o} /\ o[1] = "REQUEST_PRODUCE")
      PROVE  Protocol'
  BY <1>1, <1>2, <1>3, <1>4, <1>5, NextKept
<1>6. CASE ProcessProduce(e)
  <2>1. type = "REQUEST_PRODUCE"
    BY <1>6 DEF ProcessProduce, Proceed
  <2>2. \/ /\ call' = WithNext(call, type) /\ producing' = producing \cup {o}
           /\ UNCHANGED finishing
        \/ \E r : /\ call' = WithNext(Finished(o, r), type)
                 /\ producing' = producing \ {o} /\ finishing' = finishing \cup {o}
    BY <1>6, <2>1 DEF ProcessProduce, TryProduce
  <2> QED
    BY <1>1, <1>5, <2>1, <2>2
<1>7. CASE ProcessConsume(e)
  BY <1>5, <1>7 DEF ProcessConsume, Proceed
<1>8. CASE ProcessAck(e)
  <2>1. type = "REQUEST_CONSUME_ACK" /\ UNCHANGED <<producing, matching>>
        /\ finishing' = finishing \cup {o}
    BY <1>8 DEF ProcessAck, Proceed, workVars
  <2>2. \E r : call' = WithNext(Finished(o, r), type)
    BY <1>8, <2>1 DEF ProcessAck
  <2> QED
    BY <1>1, <1>5, <2>1, <2>2
<1> QED
  BY <1>6, <1>7, <1>8

\* A call that is deleted had its reply sent.
LEMMA DelKept ==
  ASSUME IInv, Protocol, NEW e, Del(e) \/ Cancel(e), UNCHANGED client
  PROVE  Protocol'
<1> DEFINE o == e.tag
           u == Unused
<1>1. /\ e \in queue /\ call' = [call EXCEPT ![o] = u]
      /\ UNCHANGED <<requested, finishing, producing, rpc>>
  BY DEF Del, Cancel, Proceed, workVars
<1>2. o \in Object /\ o \notin requested \cup finishing
  <2>1. o \in Object
    BY <1>1 DEF IInv, Ownership, Sound, Apart
  <2> QED
    BY <1>1, <2>1, ObjectFacts
<1>3. u.status = "NONE" /\ u.client = NoClient /\ u.msgId = ""
  BY DEF Unused
<1> HIDE DEF u
<1>4. \A q \in Object : call'[q] = IF q = o THEN u ELSE call[q]
  BY <1>1, <1>2 DEF IInv, Calls
<1>5. Stored'
  <2>1. CASE UNCHANGED store
    BY <2>1 DEF Protocol, Stored, UnreadableNotAcked
  <2>2. CASE Cancel(e)
    <3> DEFINE id == call[o].msgId
    <3>1. store' = [m \in MsgId |-> IF m = id /\ store[m] = "held" THEN "broker" ELSE store[m]]
      BY <2>2 DEF Cancel
    <3> HIDE DEF id
    <3> QED
      BY <3>1 DEF Protocol, Stored, UnreadableNotAcked, Place
  <2> QED
    BY <2>1, <2>2 DEF Del
<1>6. \A q \in Object :
        \/ /\ call'[q] = call[q]
           /\ (q \in requested' <=> q \in requested) /\ (q \in finishing' <=> q \in finishing)
        \/ /\ q \notin requested' /\ q \notin finishing' /\ call'[q].status = "NONE"
           /\ call'[q].client = NoClient /\ call'[q].msgId = ""
  BY <1>1, <1>2, <1>3, <1>4
<1>7. /\ requested' \subseteq Object /\ finishing' \subseteq Object /\ producing' \subseteq Object
      /\ \A q \in producing' : q \in producing
      /\ UNCHANGED <<client, rpc>>
  BY <1>1 DEF IInv, Ownership, Sound, Apart
<1> QED
  BY <1>5, <1>6, <1>7, CallStep

-----------------------------------------------------------------------------
(* The requests and the replies, in every state.                            *)

\* Every client is running, and every object that exists waits for a request.
LEMMA InitProtocol ==
  ASSUME Init
  PROVE  Protocol
<1>1. PICK program \in Programs : client = [c \in Client |-> Start(program[c])]
  BY DEF Init
<1>2. rpc = [c \in Client |-> [pc |-> "idle", method |-> "", wire |-> <<>>, away |-> FALSE]]
  BY DEF Init, ServerInit
<1>3. Clients
  <2> SUFFICES ASSUME NEW c \in Client
               PROVE  IsClient(client[c]) /\ IsRpc(rpc[c]) /\ Agree(client[c], rpc[c])
    BY <1>1, <1>2 DEF Clients
  <2> DEFINE p == program[c]
             x == client[c]
             r == rpc[c]
  <2>1. p \in Program
    BY ClientAssumption
  <2>2. x = [program |-> p, pc |-> "run", msgId |-> "", left |-> Num, request |-> <<>>]
    BY <1>1 DEF Start
  <2>3. r = [pc |-> "idle", method |-> "", wire |-> <<>>, away |-> FALSE]
    BY <1>2
  <2> HIDE DEF p, x, r
  <2>4. IsClient(x) /\ x.pc = "run"
    <3>1. /\ x.program = p /\ x.pc = "run" /\ x.msgId = "" /\ x.left = Num
          /\ x = [program |-> x.program, pc |-> x.pc, msgId |-> x.msgId, left |-> x.left,
                  request |-> x.request]
      BY <2>2
    <3>2. Num \in 0..Num
      BY ClientAssumption
    <3>3. Readable("")
      BY MsgIdAssumption DEF Readable
    <3> QED
      BY <2>1, <3>1, <3>2, <3>3 DEF IsClient, ClientPC
  <2>5. IsRpc(r) /\ r.pc = "idle" /\ ~r.away
    BY <2>3 DEF IsRpc, RpcPC
  <2>6. Agree(x, r)
    BY <2>4, <2>5 DEF Agree
  <2> QED
    BY <2>4, <2>5, <2>6 DEF x, r
<1>4. \A o \in Object : o[1] \in RequestType
  BY DEF Object
<1>5. \A o \in Object : call[o] = IF o[2] = 1 THEN New(o[1]) ELSE Unused
  BY DEF Init, ServerInit
<1>6. /\ finishing = {} /\ producing = {}
      /\ requested = {o \in Object : call[o].method # ""}
  BY DEF Init, ServerInit
<1>7. /\ Unused.method = "" /\ Unused.status = "NONE" /\ Unused.client = NoClient
      /\ Unused.msgId = ""
  BY DEF Unused
<1>8. ASSUME NEW o \in Object
      PROVE  /\ call[o].client = NoClient /\ call[o].msgId = "" /\ o \notin Active
             /\ o \in requested => IsReady(call[o], o[1])
  <2>1. CASE o[2] = 1
    <3>1. call[o] = New(o[1])
      BY <1>5, <2>1
    <3>2. /\ New(o[1]).client = NoClient /\ New(o[1]).msgId = "" /\ New(o[1]).method # ""
          /\ IsReady(New(o[1]), o[1])
      BY <1>4, NewCall, ZenonT(40) DEF IsReady
    <3>3. o \in requested
      BY <1>6, <3>1, <3>2
    <3> QED
      BY <1>6, <3>1, <3>2, <3>3 DEF Active
  <2>2. CASE o[2] # 1
    <3>1. call[o] = Unused
      BY <1>5, <2>2
    <3> QED
      BY <1>6, <1>7, <3>1 DEF Active
  <2> QED
    BY <2>1, <2>2
<1>9. Active = {} /\ requested \subseteq Object
  BY <1>6, <1>8 DEF Active
<1>10. HeldCalls /\ OnePerClient
  <2>1. HeldCalls
    BY <1>6, <1>8, <1>9 DEF HeldCalls
  <2> QED
    BY <1>9, <2>1 DEF OnePerClient
<1>11. Stored
  <2>1. store = [m \in MsgId |-> "broker"]
    BY DEF Init, ServerInit
  <2> QED
    BY <2>1 DEF Stored, UnreadableNotAcked, Place
<1> QED
  BY <1>3, <1>10, <1>11 DEF Protocol

LEMMA StepProtocol ==
  ASSUME IInv, Protocol, [Next]_vars
  PROVE  Protocol'
<1>1. ASSUME UNCHANGED <<call, requested, finishing, producing, client, rpc>>, Stored'
      PROVE  Protocol'
  <2>1. Clients' /\ HeldCalls' /\ OnePerClient'
    BY <1>1 DEF Protocol, Clients, HeldCalls, OnePerClient, Active
  <2> QED
    BY <1>1, <2>1 DEF Protocol
<1>2. ASSUME NEW o \in Object, NEW c \in Client, Arrive(c, o), UNCHANGED client
      PROVE  Protocol'
  BY <1>2, ArriveKept
<1>3. ASSUME NEW o \in Object, SendReply(o), UNCHANGED client
      PROVE  Protocol'
  BY <1>3, SendReplyKept
<1>4. ASSUME NEW o \in Object, Handle(o), UNCHANGED client
      PROVE  Protocol'
  BY <1>4, ProcessKept, DelKept DEF Handle
<1>5. ASSUME NEW o \in Object, Respond(o) \/ \E m \in MsgId : ResponseMsg(o, m),
             UNCHANGED client
      PROVE  Protocol'
  BY <1>5, RespondKept
<1>6. ASSUME NEW m \in MsgId, AckTimeOut(m) \/ UnlockAll(m), UNCHANGED client
      PROVE  Protocol'
  <2>1. store' = [store EXCEPT ![m] = "broker"] \/ store' = [store EXCEPT ![m] = "unlocked"]
    BY <1>6 DEF AckTimeOut, UnlockAll
  <2>2. Stored'
    BY <2>1 DEF Protocol, Stored, UnreadableNotAcked, Place
  <2> QED
    BY <1>1, <1>6, <2>2 DEF AckTimeOut, UnlockAll, OnlyStore, workVars
<1>7. ASSUME NEW c \in Client, Send(c) \/ Return(c) \/ Kill(c)
      PROVE  Protocol'
  BY <1>7, SendKept, ReturnKept, EndStep
<1>8. CASE UNCHANGED vars
  <2>1. Stored'
    BY <1>8 DEF vars, serverVars, Protocol, Stored, UnreadableNotAcked
  <2> QED
    BY <1>1, <1>8, <2>1 DEF vars, serverVars
<1> QED
  BY <1>2, <1>3, <1>4, <1>5, <1>6, <1>7, <1>8 DEF Next, ServerNext

\* What every RPC carries: a request on the wire or in a call is what its client has
\* set, a reply of Consume names a message with its body, and a client that knows the
\* id of a message has parsed it.
THEOREM ProtocolInvariance == Spec => []Protocol
<1>1. Init => Protocol
  BY InitProtocol
<1>2. IInv /\ Protocol /\ [Next]_vars => Protocol'
  BY StepProtocol
<1> QED
  BY <1>1, <1>2, Invariance, PTL DEF Spec

\* The variables of the server, the RPCs and the clients have their types.
THEOREM TypeCorrect == Spec => []TypeOK
<1>1. ASSUME IInv, Protocol PROVE TypeOK
  <2>1. requested \subseteq Object /\ finishing \subseteq Object
        /\ producing \subseteq Object /\ matching \subseteq Object
        /\ queue \subseteq [tag : Object, ok : BOOLEAN]
    BY <1>1 DEF IInv, Ownership, Sound, Apart
  <2>2. \A o \in Object :
          CallOf(o) \in [status : CallStatus, type : RequestType \cup {""},
                         client : Client \cup {NoClient}, msgId : MsgId \cup {""}]
    <3> SUFFICES ASSUME NEW o \in Object
                 PROVE  CallOf(o) \in [status : CallStatus, type : RequestType \cup {""},
                          client : Client \cup {NoClient}, msgId : MsgId \cup {""}]
      OBVIOUS
    <3>1. call[o].status \in CallStatus /\ call[o].type \in RequestType \cup {""}
      BY <1>1, ObjectShape DEF IInv, Classes, CallStatus
    <3>2. call[o].client \in Client \cup {NoClient} /\ call[o].msgId \in MsgId \cup {""}
      BY <1>1, ObjectFacts
    <3> QED
      BY <3>1, <3>2 DEF CallOf
  <2>3. \A c \in Client : rpc[c].pc \in RpcPC /\ rpc[c].away \in BOOLEAN
    BY <1>1 DEF Protocol, Clients, IsRpc
  <2>4. \A c \in Client : /\ client[c].program \in Program
                          /\ client[c].pc \in ClientPC /\ client[c].left \in 0..Num
                          /\ client[c].msgId \in MsgId \cup {""}
    BY <1>1 DEF Protocol, Clients, IsClient
  <2>5. store \in [MsgId -> Place]
    BY <1>1 DEF Protocol, Stored
  <2>6. retryCount \in [Object -> 0..MaxRetry + 1]
    BY <1>1 DEF IInv, Counted
  <2> QED
    BY <2>1, <2>2, <2>3, <2>4, <2>5, <2>6 DEF TypeOK
<1> QED
  BY <1>1, Invariance, ProtocolInvariance, PTL

\* Serialised by the stub and parsed by the server at the object of its method, the
\* request that process() reads is the one the client has set.
THEOREM Intact == Spec => []RequestIntact
<1>1. ASSUME IInv, Protocol PROVE RequestIntact
  <2> SUFFICES ASSUME NEW o \in Object, call[o].status = "PROCESS", call[o].client # NoClient,
                      ~rpc[call[o].client].away
               PROVE  call[o].request = client[call[o].client].request
    BY DEF RequestIntact
  <2>1. o \notin requested
    BY <1>1, ObjectFacts DEF IsReady
  <2>2. IsHeld(call[o], client[call[o].client], rpc[call[o].client], o[1])
    BY <1>1, <2>1, ObjectFacts DEF Active
  <2> QED
    BY <2>2 DEF IsHeld
<1> QED
  BY <1>1, Invariance, ProtocolInvariance, PTL

\* A message that no client can parse is acknowledged by none: a client has only the
\* ids of messages that it has parsed, and acknowledges no other.
THEOREM Unacknowledged == Spec => []UnreadableNotAcked
<1>1. Protocol => UnreadableNotAcked
  BY DEF Protocol, Stored
<1> QED
  BY <1>1, ProtocolInvariance, PTL

===============================================================================
