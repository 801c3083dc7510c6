------------------------ MODULE ProduceCallDataProofs ------------------------
(***************************************************************************)
(* Proofs about ProduceCallData.tla: a call has one owner at a time, and   *)
(* is sent as often as its retries say.                                    *)
(***************************************************************************)
EXTENDS ProduceCallData, FiniteSetTheorems, TLAPS

\* How often the message of c was sent: once for each failure that was counted,
\* once if the producer has it, and once if it was sent with success.  A call
\* that nobody answered has retries left, one without a request has no sends, and
\* one that is processed has a key.
SendsCounted ==
  \A c \in Call :
    /\ sends[c] = retryCount[c] + (IF pc[c] = "sent" \/ reply[c] = "success" THEN 1 ELSE 0)
    /\ reply[c] = "none" <=> status[c] \in {"NONE", "PROCESS"}
    /\ reply[c] = "failed" => retryCount[c] = MaxRetry + 1
    /\ reply[c] # "failed" => retryCount[c] <= MaxRetry
    /\ (status[c] = "NONE" \/ tag[c] = "request") => retryCount[c] = 0
    /\ pc[c] # "idle" => key[c] \in Key

IInv == TypeOK /\ OwnedOnce /\ SendsCounted

-----------------------------------------------------------------------------
\* One call waits for a request at first.
LEMMA InitInv == Init => IInv
<1> SUFFICES ASSUME Init PROVE IInv
  OBVIOUS
<1>1. TypeOK
  <2>1. 0 \in 0..MaxRetry + 1
    BY CallAssumption
  <2>2. onHandler \in [Call -> BOOLEAN] /\ crashed \in BOOLEAN
    BY DEF Init
  <2>3. /\ status \in [Call -> Status] /\ tag \in [Call -> Tag] /\ pc \in [Call -> PC]
        /\ reply \in [Call -> Reply]
    BY DEF Init, Status, Tag, PC, Reply
  <2> QED
    BY <2>1, <2>2, <2>3 DEF Init, TypeOK
<1>2. OwnedOnce
  BY DEF Init, OwnedOnce
<1>3. SendsCounted
  BY CallAssumption DEF Init, SendsCounted
<1> QED
  BY <1>1, <1>2, <1>3 DEF IInv

\* The object that process() creates was not in use.
LEMMA FreshType ==
  ASSUME \E c \in Call : status[c] = "NONE"
  PROVE  Fresh \in Call /\ status[Fresh] = "NONE"
BY DEF Fresh

\* A request comes, on the completion queue's thread.
LEMMA ProcessInv ==
  ASSUME IInv, NEW c \in Call, ParamsError(c) \/ \E k \in Key : Process(c, k)
  PROVE  IInv'
<1> DEFINE d == Fresh
<1>1. d \in Call /\ status[d] = "NONE" /\ d # c /\ status[c] = "PROCESS"
  <2>1. \E e \in Call : status[e] = "NONE"
    BY DEF ParamsError, Process
  <2>2. tag[c] = "request"
    BY DEF ParamsError, Process
  <2> QED
    BY <2>1, <2>2, FreshType DEF IInv, TypeOK, OwnedOnce, Status
<1> HIDE DEF d
<1>2. CASE ParamsError(c)
  <2>1. TypeOK'
    BY <1>1, <1>2 DEF ParamsError, IInv, TypeOK, Status, Tag, Reply, d
  <2>2. OwnedOnce'
    BY <1>1, <1>2 DEF ParamsError, IInv, TypeOK, OwnedOnce, d
  <2>3. SendsCounted'
    BY <1>1, <1>2 DEF ParamsError, IInv, TypeOK, OwnedOnce, SendsCounted, d
  <2> QED
    BY <2>1, <2>2, <2>3 DEF IInv
<1>3. ASSUME NEW k \in Key, Process(c, k) PROVE IInv'
  <2>1. TypeOK'
    BY <1>1, <1>3 DEF Process, historyVars, IInv, TypeOK, Status, Tag, PC, d
  <2>2. OwnedOnce'
    BY <1>1, <1>3 DEF Process, IInv, TypeOK, OwnedOnce, d
  <2>3. SendsCounted'
    BY <1>1, <1>3 DEF Process, historyVars, IInv, TypeOK, OwnedOnce, SendsCounted, d
  <2> QED
    BY <2>1, <2>2, <2>3 DEF IInv
<1> QED
  BY <1>2, <1>3

\* A thread runs getProducer and send.
LEMMA SendInv ==
  ASSUME IInv, NEW c \in Call, GetProducerAndSend(c)
  PROVE  IInv'
<1> USE DEF IInv, TypeOK, OwnedOnce, SendsCounted, Step, historyVars, PC
<1>1. CASE FindHit(c) \/ FindMiss(c) \/ Start(c)
  BY <1>1 DEF FindHit, FindMiss, Start
<1>2. CASE StartFails(c)
  BY <1>2 DEF StartFails, callVars
<1>3. CASE Insert(c)
  <2>1. status[c] = "PROCESS"
    BY <1>3 DEF Insert, Status
  <2> QED
    BY <1>3, <2>1 DEF Insert
<1>4. CASE Send(c)
  BY <1>4 DEF Send, Status
<1>5. CASE SendThrows(c)
  <2>1. status[c] = "PROCESS" /\ tag[c] = "none"
    BY <1>5 DEF SendThrows, Status
  <2>2. TypeOK'
    BY <1>5 DEF SendThrows, Finish, Status, Tag, Reply
  <2>3. OwnedOnce'
    BY <1>5, <2>1 DEF SendThrows, Finish
  <2>4. SendsCounted'
    BY <1>5, <2>1 DEF SendThrows, Finish
  <2> QED
    BY <2>2, <2>3, <2>4
<1> QED
  BY <1>1, <1>2, <1>3, <1>4, <1>5 DEF GetProducerAndSend

\* The producer calls back: the success, the last failure, a failure to retry.
LEMMA CallbackInv ==
  ASSUME IInv, NEW c \in Call, SuccessFunc(c) \/ FailureFunc(c)
  PROVE  IInv'
<1>1. /\ pc[c] = "sent" /\ status[c] = "PROCESS" /\ tag[c] = "none" /\ reply[c] = "none"
      /\ retryCount[c] \in 0..MaxRetry
  <2>1. pc[c] = "sent"
    BY DEF SuccessFunc, Step, FailureFunc, Failed
  <2>2. status[c] = "PROCESS" /\ tag[c] = "none"
    BY <2>1 DEF IInv, TypeOK, OwnedOnce, Status
  <2>3. reply[c] = "none"
    BY <2>2 DEF IInv, SendsCounted
  <2> QED
    BY <2>1, <2>2, <2>3, CallAssumption DEF IInv, TypeOK, SendsCounted
<1>2. CASE SuccessFunc(c)
  <2>1. TypeOK'
    BY <1>2 DEF SuccessFunc, Step, Finish, IInv, TypeOK, Status, Tag, PC, Reply
  <2>2. OwnedOnce'
    BY <1>1, <1>2 DEF SuccessFunc, Step, Finish, IInv, TypeOK, OwnedOnce
  <2>3. SendsCounted'
    BY <1>1, <1>2 DEF SuccessFunc, Step, Finish, IInv, TypeOK, OwnedOnce, SendsCounted
  <2> QED
    BY <2>1, <2>2, <2>3 DEF IInv
<1>3. CASE FailureFunc(c) /\ retryCount[c] + 1 > MaxRetry
  <2>1. Failed(c, retryCount[c] + 1) /\ GiveUp(c)
    BY <1>3 DEF FailureFunc
  <2>2. TypeOK'
    BY <1>1, <2>1, CallAssumption
    DEF Failed, GiveUp, Finish, IInv, TypeOK, Status, Tag, PC, Reply
  <2>3. OwnedOnce'
    BY <1>1, <2>1 DEF Failed, GiveUp, Finish, IInv, TypeOK, OwnedOnce
  <2>4. SendsCounted'
    BY <1>1, <1>3, <2>1, CallAssumption
    DEF Failed, GiveUp, Finish, IInv, TypeOK, OwnedOnce, SendsCounted
  <2> QED
    BY <2>2, <2>3, <2>4 DEF IInv
<1>4. CASE FailureFunc(c) /\ ~(retryCount[c] + 1 > MaxRetry)
  <2> DEFINE d == Fresh
  <2>1. Failed(c, retryCount[c] + 1) /\ Retry(c)
    BY <1>4 DEF FailureFunc
  <2>2. d \in Call /\ status[d] = "NONE" /\ d # c
    BY <1>1, <2>1, FreshType DEF Retry, Create
  <2>3. /\ status' = [status EXCEPT ![d] = "PROCESS"]
        /\ tag' = [tag EXCEPT ![d] = "request"]
    BY <2>1 DEF Retry, Create
  <2> HIDE DEF d
  <2>4. TypeOK'
    BY <1>1, <1>4, <2>1, <2>2, <2>3, CallAssumption
    DEF Failed, Retry, IInv, TypeOK, Status, Tag, PC
  <2>5. OwnedOnce'
    BY <1>1, <2>1, <2>2, <2>3 DEF Failed, Retry, IInv, TypeOK, OwnedOnce
  <2>6. SendsCounted'
    BY <1>1, <1>4, <2>1, <2>2, <2>3, CallAssumption
    DEF Failed, Retry, IInv, TypeOK, OwnedOnce, SendsCounted
  <2> QED
    BY <2>4, <2>5, <2>6 DEF IInv
<1> QED
  BY <1>2, <1>3, <1>4

\* The event of Finish deletes the call.
LEMMA DelInv ==
  ASSUME IInv, NEW c \in Call, Del(c)
  PROVE  IInv'
<1>1. status[c] = "FINISH"
  BY DEF Del, IInv, TypeOK, OwnedOnce, Status
<1>2. TypeOK'
  BY DEF Del, IInv, TypeOK, Status, Tag, historyVars
<1>3. OwnedOnce'
  BY <1>1 DEF Del, IInv, TypeOK, OwnedOnce
<1>4. SendsCounted'
  BY <1>1 DEF Del, IInv, TypeOK, OwnedOnce, SendsCounted, historyVars
<1> QED
  BY <1>2, <1>3, <1>4 DEF IInv

\* Every step keeps the invariant.
LEMMA StepInv == IInv /\ [Next]_vars => IInv'
<1> SUFFICES ASSUME IInv, [Next]_vars PROVE IInv'
  OBVIOUS
<1>1. ASSUME NEW c \in Call, ParamsError(c) \/ \E k \in Key : Process(c, k) PROVE IInv'
  BY <1>1, ProcessInv
<1>2. ASSUME NEW c \in Call, GetProducerAndSend(c) PROVE IInv'
  BY <1>2, SendInv
<1>3. ASSUME NEW c \in Call, SuccessFunc(c) \/ FailureFunc(c) PROVE IInv'
  BY <1>3, CallbackInv
<1>4. ASSUME NEW c \in Call, Del(c) PROVE IInv'
  BY <1>4, DelInv
<1>5. CASE UNCHANGED vars
  BY <1>5 DEF vars, callVars, historyVars, IInv, TypeOK, OwnedOnce, SendsCounted
<1> QED
  BY <1>1, <1>2, <1>3, <1>4, <1>5 DEF Next

-----------------------------------------------------------------------------
\* The inductive invariant of the produce path.
THEOREM Invariance == Spec => []IInv
<1> QED
  BY InitInv, StepInv, PTL DEF Spec

\* TypeOK: every variable of the produce path keeps its type, whatever the
\* number of call objects, keys and retries.
THEOREM TypeCorrect == Spec => []TypeOK
<1>1. IInv => TypeOK
  BY DEF IInv
<1> QED
  BY <1>1, Invariance, PTL

\* OwnedOnce: no call object of the produce path is used by two parties, after it
\* was answered, or after it was deleted; del finds it in FINISH.
THEOREM Owned == Spec => []OwnedOnce
<1>1. IInv => OwnedOnce
  BY DEF IInv
<1> QED
  BY <1>1, Invariance, PTL

\* RetriesExhausted: a message is sent at most MAX_RETRY_COUNT + 1 times, and the
\* client is told of a failure of the broker after exactly so many sends.
THEOREM Exhausted == Spec => []RetriesExhausted
<1>1. IInv => RetriesExhausted
  <2> SUFFICES ASSUME IInv, NEW c \in Call
               PROVE  /\ sends[c] <= MaxRetry + 1
                      /\ reply[c] = "failed" => sends[c] = MaxRetry + 1
    BY DEF RetriesExhausted
  <2>1. retryCount[c] \in 0..MaxRetry + 1 /\ MaxRetry \in Nat
    BY CallAssumption DEF IInv, TypeOK
  <2>2. CASE reply[c] = "failed"
    <3>1. pc[c] # "sent"
      BY <2>2 DEF IInv, TypeOK, OwnedOnce, SendsCounted, Status
    <3> QED
      BY <2>1, <2>2, <3>1 DEF IInv, SendsCounted
  <2>3. CASE reply[c] # "failed"
    BY <2>1, <2>3 DEF IInv, SendsCounted
  <2> QED
    BY <2>2, <2>3
<1> QED
  BY <1>1, Invariance, PTL

-----------------------------------------------------------------------------
\* The call objects that wait for a request are counted with the invariant.
SInv == IInv /\ IsFiniteSet(Waiting) /\ IsFiniteSet(Retries) /\ SlotsAccounted

\* A request comes: its object waits no more, and the new one does.
LEMMA ProcessSlots ==
  ASSUME SInv, NEW c \in Call, ParamsError(c) \/ \E k \in Key : Process(c, k)
  PROVE  IsFiniteSet(Waiting)' /\ IsFiniteSet(Retries)' /\ SlotsAccounted'
<1> DEFINE d == Fresh
<1>1. /\ d \in Call /\ status[d] = "NONE" /\ tag[c] = "request"
      /\ tag' \in {[tag EXCEPT ![c] = "finish", ![d] = "request"],
                   [tag EXCEPT ![c] = "none", ![d] = "request"]}
      /\ UNCHANGED retryCount
  BY FreshType DEF ParamsError, Process
<1> HIDE DEF d
<1>2. tag[d] = "none"
  BY <1>1 DEF SInv, IInv, OwnedOnce
<1>3. Waiting' = (Waiting \ {c}) \cup {d} /\ c \in Waiting /\ d \notin Waiting
  BY <1>1, <1>2 DEF Waiting, SInv, IInv, TypeOK
<1>4. IsFiniteSet(Waiting) /\ Cardinality(Waiting) \in Nat
  BY FS_CardinalityType DEF SInv
<1>5. /\ IsFiniteSet(Waiting \ {c})
      /\ Cardinality(Waiting \ {c}) = Cardinality(Waiting) - 1
  BY <1>3, <1>4, FS_RemoveElement
<1>6. /\ IsFiniteSet(Waiting')
      /\ Cardinality(Waiting') = Cardinality(Waiting)
  BY <1>3, <1>4, <1>5, FS_AddElement
<1>7. Retries' = Retries
  BY <1>1 DEF Retries
<1> QED
  BY <1>6, <1>7 DEF SInv, SlotsAccounted

\* A failed send: an object more and a retry more, or the end of the call.
LEMMA FailureSlots ==
  ASSUME SInv, NEW c \in Call, FailureFunc(c)
  PROVE  IsFiniteSet(Waiting)' /\ IsFiniteSet(Retries)' /\ SlotsAccounted'
<1>1. /\ pc[c] = "sent" /\ tag[c] = "none" /\ status[c] = "PROCESS"
      /\ retryCount[c] \in 0..MaxRetry
      /\ retryCount' = [retryCount EXCEPT ![c] = retryCount[c] + 1]
      /\ \A e \in Call : retryCount[e] \in Nat
  <2>1. pc[c] = "sent" /\ retryCount' = [retryCount EXCEPT ![c] = retryCount[c] + 1]
    BY DEF FailureFunc, Failed
  <2>2. status[c] = "PROCESS" /\ tag[c] = "none"
    BY <2>1 DEF SInv, IInv, TypeOK, OwnedOnce, Status
  <2> QED
    BY <2>1, <2>2, CallAssumption DEF SInv, IInv, TypeOK, SendsCounted
<1>2. /\ \A e \in Call : retryCount'[e] = IF e = c THEN retryCount[c] + 1 ELSE retryCount[e]
  BY <1>1 DEF SInv, IInv, TypeOK
<1>3. CASE retryCount[c] + 1 > MaxRetry
  <2>1. Waiting' = Waiting
    BY <1>1, <1>3 DEF FailureFunc, GiveUp, Finish, Waiting, SInv, IInv, TypeOK
  <2>2. Retries' = Retries
    <3>1. ASSUME NEW e \in Call, NEW n \in 1..MaxRetry
          PROVE  n <= retryCount'[e] <=> n <= retryCount[e]
      BY <1>1, <1>2, <1>3, CallAssumption
    <3> QED
      BY <3>1 DEF Retries
  <2> QED
    BY <2>1, <2>2 DEF SInv, SlotsAccounted
<1>4. CASE ~(retryCount[c] + 1 > MaxRetry)
  <2> DEFINE d == Fresh
             r == <<c, retryCount[c] + 1>>
  <2>1. /\ d \in Call /\ status[d] = "NONE" /\ tag' = [tag EXCEPT ![d] = "request"]
    BY <1>4, FreshType DEF FailureFunc, Retry, Create
  <2> HIDE DEF d
  <2>2. Waiting' = Waiting \cup {d} /\ d \notin Waiting
    BY <2>1 DEF Waiting, SInv, IInv, TypeOK, OwnedOnce
  <2>3. r \in Call \X (1..MaxRetry) /\ r[1] = c /\ r[2] = retryCount[c] + 1
    BY <1>1, <1>4, CallAssumption
  <2>4. Retries' = Retries \cup {r} /\ r \notin Retries
    <3>1. ASSUME NEW e \in Call, NEW n \in 1..MaxRetry
          PROVE  n <= retryCount'[e] <=> n <= retryCount[e] \/ <<e, n>> = r
      BY <1>1, <1>2, CallAssumption
    <3>2. r \notin Retries
      BY <1>1, <2>3 DEF Retries
    <3> HIDE DEF r
    <3>3. ASSUME NEW p \in Call \X (1..MaxRetry)
          PROVE  p \in Retries' <=> p \in Retries \/ p = r
      <4>1. p[1] \in Call /\ p[2] \in 1..MaxRetry /\ p = <<p[1], p[2]>>
        OBVIOUS
      <4>2. p[2] <= retryCount'[p[1]] <=> p[2] <= retryCount[p[1]] \/ p = r
        BY <3>1, <4>1
      <4> QED
        BY <4>2 DEF Retries
    <3>4. Retries \subseteq Call \X (1..MaxRetry) /\ Retries' \subseteq Call \X (1..MaxRetry)
      BY DEF Retries
    <3> QED
      BY <2>3, <3>2, <3>3, <3>4
  <2> HIDE DEF r
  <2>5. /\ IsFiniteSet(Waiting) /\ Cardinality(Waiting) \in Nat
        /\ IsFiniteSet(Retries) /\ Cardinality(Retries) \in Nat
    BY FS_CardinalityType DEF SInv
  <2>6. IsFiniteSet(Waiting') /\ Cardinality(Waiting') = Cardinality(Waiting) + 1
    BY <2>2, <2>5, FS_AddElement
  <2>7. IsFiniteSet(Retries') /\ Cardinality(Retries') = Cardinality(Retries) + 1
    BY <2>4, <2>5, FS_AddElement
  <2> QED
    BY <2>5, <2>6, <2>7 DEF SInv, SlotsAccounted
<1> QED
  BY <1>3, <1>4

\* The other steps leave what waits for a request, and count no retry.
LEMMA OtherSlots ==
  ASSUME SInv,
         \/ UNCHANGED vars
         \/ \E c \in Call : GetProducerAndSend(c) \/ SuccessFunc(c) \/ Del(c)
  PROVE  IsFiniteSet(Waiting)' /\ IsFiniteSet(Retries)' /\ SlotsAccounted'
<1>1. UNCHANGED retryCount
  BY DEF GetProducerAndSend, FindHit, FindMiss, Start, StartFails, Insert, Send, SendThrows,
         SuccessFunc, Del, vars, callVars
<1>2. \A e \in Call : tag'[e] # tag[e] => tag[e] # "request" /\ tag'[e] # "request"
  <2>1. ASSUME NEW c \in Call, GetProducerAndSend(c)
        PROVE  \A e \in Call : tag'[e] # tag[e] => tag[e] # "request" /\ tag'[e] # "request"
    BY <2>1 DEF GetProducerAndSend, FindHit, FindMiss, Start, StartFails, Insert, Send,
                SendThrows, Step, Finish, callVars, SInv, IInv, TypeOK, OwnedOnce, Status
  <2>2. ASSUME NEW c \in Call, SuccessFunc(c)
        PROVE  \A e \in Call : tag'[e] # tag[e] => tag[e] # "request" /\ tag'[e] # "request"
    BY <2>2 DEF SuccessFunc, Step, Finish, SInv, IInv, TypeOK, OwnedOnce, Status
  <2>3. ASSUME NEW c \in Call, Del(c)
        PROVE  \A e \in Call : tag'[e] # tag[e] => tag[e] # "request" /\ tag'[e] # "request"
    BY <2>3 DEF Del, SInv, IInv, TypeOK
  <2> QED
    BY <2>1, <2>2, <2>3 DEF vars, callVars
<1>3. Waiting' = Waiting /\ Retries' = Retries
  BY <1>1, <1>2 DEF Waiting, Retries
<1> QED
  BY <1>3 DEF SInv, SlotsAccounted

\* SlotsAccounted: the completion queue waits for one request, and for one more for
\* every retry there was, however many calls, retries and threads: these objects are
\* neither used up nor freed.
THEOREM SlotsKept == Spec => []SlotsAccounted
<1>1. Init => IsFiniteSet(Waiting) /\ IsFiniteSet(Retries) /\ SlotsAccounted
  <2> SUFFICES ASSUME Init
               PROVE  IsFiniteSet(Waiting) /\ IsFiniteSet(Retries) /\ SlotsAccounted
    OBVIOUS
  <2>1. Waiting = {First} /\ Retries = {}
    BY CallAssumption DEF Init, Waiting, Retries
  <2>2. IsFiniteSet({First}) /\ Cardinality({First}) = 1
    BY FS_Singleton
  <2>3. IsFiniteSet({}) /\ Cardinality({}) = 0
    BY FS_EmptySet
  <2>4. IsFiniteSet(Waiting) /\ IsFiniteSet(Retries)
        /\ Cardinality(Waiting) = 1 /\ Cardinality(Retries) = 0
    BY <2>1, <2>2, <2>3
  <2>5. SlotsAccounted
    BY <2>4 DEF SlotsAccounted
  <2> QED
    BY <2>4, <2>5
<1>2. SInv /\ [Next]_vars => IsFiniteSet(Waiting)' /\ IsFiniteSet(Retries)' /\ SlotsAccounted'
  BY ProcessSlots, FailureSlots, OtherSlots DEF Next
<1> QED
  BY <1>1, <1>2, Invariance, PTL DEF Spec, SInv
=============================================================================
