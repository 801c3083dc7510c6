--------------------------- MODULE ProduceCallData ---------------------------
(***************************************************************************)
(* The produce path: ProduceCallData::process and its two callbacks,       *)
(* MsgWorker::produce and getProducer.  process() runs on the thread of    *)
(* the completion queue for a new request, and on a callback thread of the *)
(* RocketMQ producer for a retry.                                          *)
(*                                                                         *)
(* The producer is external: send() throws, or takes the message and calls *)
(* onSuccess or onException once.  A completion event of Finish, ok or not *)
(* ok, ends the call in the same way: one action stands for both.          *)
(***************************************************************************)
EXTENDS Naturals, FiniteSets

CONSTANTS
  Call,       \* ProduceCallData objects, created when needed (bound)
  First,      \* the one that HandleRpcs creates
  Key,        \* topic + group
  NoKey,      \* a request without topic, group, tag or body
  MaxRetry,   \* ROCKETMQ_PROXY_PRODUCE_MAX_RETRY_COUNT
  MaxRpc      \* bound: requests that arrive

ASSUME CallAssumption ==
  First \in Call /\ NoKey \notin Key /\ MaxRetry \in Nat /\ MaxRpc \in Nat

VARIABLES
  producers,   \* MsgWorker::producers, the keys that have a producer
  status,      \* CallDataBase::status_, with NONE before and DELETED after
  tag,         \* what the completion queue may report for a call
  key,         \* the request of a call
  pc,          \* process(): idle, a step of it, or sent and not called back
  onHandler,   \* does process() run on the completion queue's thread
  retryCount,
  reply,       \* history: what the client was told
  sends,       \* history: how often send() took the message
  crashed      \* a null producer was dereferenced

callVars    == <<status, tag, key, pc, onHandler, retryCount>>
historyVars == <<reply, sends>>
vars == <<producers, callVars, historyVars, crashed>>

Status == {"NONE", "PROCESS", "FINISH", "DELETED"}
Tag    == {"none", "request", "finish"}
PC     == {"idle", "find", "start", "insert", "send", "sent"}
Reply  == {"none", "success", "params", "thrown", "failed"}

TypeOK ==
  /\ producers \subseteq Key
  /\ status \in [Call -> Status]
  /\ tag \in [Call -> Tag]
  /\ key \in [Call -> Key \cup {NoKey}]
  /\ pc \in [Call -> PC]
  /\ onHandler \in [Call -> BOOLEAN]
  /\ retryCount \in [Call -> 0..MaxRetry + 1]
  /\ reply \in [Call -> Reply]
  /\ sends \in [Call -> Nat]
  /\ crashed \in BOOLEAN

Init ==
  /\ producers = {}
  /\ status = [c \in Call |-> IF c = First THEN "PROCESS" ELSE "NONE"]
  /\ tag = [c \in Call |-> IF c = First THEN "request" ELSE "none"]
  /\ key = [c \in Call |-> NoKey]
  /\ pc = [c \in Call |-> "idle"]
  /\ onHandler = [c \in Call |-> FALSE]
  /\ retryCount = [c \in Call |-> 0]
  /\ reply = [c \in Call |-> "none"]
  /\ sends = [c \in Call |-> 0]
  /\ crashed = FALSE

Processing(c) == pc[c] \in {"find", "start", "insert", "send"}
HandlerFree   == \A c \in Call : ~(Processing(c) /\ onHandler[c])
Arrived       == {c \in Call : pc[c] # "idle" \/ reply[c] # "none"}

-----------------------------------------------------------------------------
\* responder_.Finish: the reply r, FINISH, and the event that ends the call.
Finish(c, r) ==
  /\ reply' = [reply EXCEPT ![c] = r]
  /\ status' = [status EXCEPT ![c] = "FINISH"]
  /\ tag' = [tag EXCEPT ![c] = "finish"]

\* new ProduceCallData(service_, cq_): RequestProduce for another request.
Fresh == CHOOSE c \in Call : status[c] = "NONE"
Create ==
  /\ \E c \in Call : status[c] = "NONE"
  /\ status' = [status EXCEPT ![Fresh] = "PROCESS"]
  /\ tag' = [tag EXCEPT ![Fresh] = "request"]

\* process() for a request, on the completion queue's thread: one that lacks a
\* parameter, and one that does not.
ParamsError(c) ==
  /\ HandlerFree /\ tag[c] = "request" /\ Cardinality(Arrived) < MaxRpc
  /\ \E d \in Call : status[d] = "NONE"
  /\ status' = [status EXCEPT ![c] = "FINISH", ![Fresh] = "PROCESS"]
  /\ tag' = [tag EXCEPT ![c] = "finish", ![Fresh] = "request"]
  /\ reply' = [reply EXCEPT ![c] = "params"]
  /\ UNCHANGED <<producers, key, pc, onHandler, retryCount, sends, crashed>>

Process(c, k) ==
  /\ HandlerFree /\ tag[c] = "request" /\ Cardinality(Arrived) < MaxRpc
  /\ \E d \in Call : status[d] = "NONE"
  /\ status' = [status EXCEPT ![Fresh] = "PROCESS"]
  /\ tag' = [tag EXCEPT ![c] = "none", ![Fresh] = "request"]
  /\ key' = [key EXCEPT ![c] = k]
  /\ pc' = [pc EXCEPT ![c] = "find"]
  /\ onHandler' = [onHandler EXCEPT ![c] = TRUE]
  /\ UNCHANGED <<producers, retryCount, historyVars, crashed>>

-----------------------------------------------------------------------------
(* getProducer and send, on either thread.  producers is a std::map without *)
(* a lock: a find() while another thread inserts may miss what is there.    *)

Step(c, from, to) == pc[c] = from /\ pc' = [pc EXCEPT ![c] = to]

Inserting == \E c \in Call : pc[c] = "insert"

FindHit(c) ==
  /\ Step(c, "find", "send") /\ key[c] \in producers
  /\ UNCHANGED <<producers, status, tag, key, onHandler, retryCount, historyVars, crashed>>

FindMiss(c) ==
  /\ Step(c, "find", "start") /\ (key[c] \notin producers \/ Inserting)
  /\ UNCHANGED <<producers, status, tag, key, onHandler, retryCount, historyVars, crashed>>

Start(c) ==
  /\ Step(c, "start", "insert")
  /\ UNCHANGED <<producers, status, tag, key, onHandler, retryCount, historyVars, crashed>>

\* start() throws: getProducer returns nullptr, and produce dereferences it.
StartFails(c) ==
  /\ pc[c] = "start"
  /\ crashed' = TRUE
  /\ UNCHANGED <<producers, callVars, historyVars>>

Insert(c) ==
  /\ Step(c, "insert", "send")
  /\ producers' = producers \cup {key[c]}
  /\ UNCHANGED <<status, tag, key, onHandler, retryCount, historyVars, crashed>>

Send(c) ==
  /\ Step(c, "send", "sent")
  /\ sends' = [sends EXCEPT ![c] = @ + 1]
  /\ UNCHANGED <<producers, status, tag, key, onHandler, retryCount, reply, crashed>>

\* send() throws: the client is told, and there is no retry.
SendThrows(c) ==
  /\ Step(c, "send", "idle")
  /\ Finish(c, "thrown")
  /\ UNCHANGED <<producers, key, onHandler, retryCount, sends, crashed>>

GetProducerAndSend(c) ==
  \/ FindHit(c) \/ FindMiss(c) \/ Start(c) \/ StartFails(c) \/ Insert(c)
  \/ Send(c) \/ SendThrows(c)

-----------------------------------------------------------------------------
(* The callbacks.                                                           *)

SuccessFunc(c) ==
  /\ Step(c, "sent", "idle")
  /\ Finish(c, "success")
  /\ UNCHANGED <<producers, key, onHandler, retryCount, sends, crashed>>

\* The send failed for the n-th time.
Failed(c, n) ==
  /\ pc[c] = "sent"
  /\ retryCount' = [retryCount EXCEPT ![c] = n]
  /\ UNCHANGED <<producers, key, sends, crashed>>

\* process() for a retry: another ProduceCallData, and another send.
Retry(c) ==
  /\ Create
  /\ pc' = [pc EXCEPT ![c] = "find"]
  /\ onHandler' = [onHandler EXCEPT ![c] = FALSE]
  /\ UNCHANGED reply

GiveUp(c) ==
  /\ Finish(c, "failed")
  /\ pc' = [pc EXCEPT ![c] = "idle"]
  /\ UNCHANGED onHandler

\* Mutant: >= in place of >.
FailureFuncEarly(c) ==
  /\ Failed(c, retryCount[c] + 1)
  /\ IF retryCount[c] + 1 >= MaxRetry THEN GiveUp(c) ELSE Retry(c)

\* Mutant: the retry is not given up after the last reply.
FailureFuncNoElse(c) ==
  /\ Failed(c, retryCount[c] + 1)
  /\ IF retryCount[c] + 1 > MaxRetry
     THEN /\ Finish(c, "failed")
          /\ pc' = [pc EXCEPT ![c] = "find"]
          /\ UNCHANGED onHandler
     ELSE Retry(c)

\* Mutant: no new ProduceCallData is needed for a retry, so that none is created.
FailureFuncNoCreate(c) ==
  /\ Failed(c, retryCount[c] + 1)
  /\ IF retryCount[c] + 1 > MaxRetry THEN GiveUp(c)
     ELSE /\ pc' = [pc EXCEPT ![c] = "find"]
          /\ UNCHANGED <<status, tag, reply, onHandler>>

\* Mutant: the last failure is not answered.
FailureFuncSilent(c) ==
  /\ Failed(c, retryCount[c] + 1)
  /\ IF retryCount[c] + 1 > MaxRetry
     THEN /\ pc' = [pc EXCEPT ![c] = "idle"]
          /\ UNCHANGED <<status, tag, reply, onHandler>>
     ELSE Retry(c)

\* failureFunc, on a callback thread of the producer.
FailureFunc(c) ==
  /\ Failed(c, retryCount[c] + 1)
  /\ IF retryCount[c] + 1 > MaxRetry THEN GiveUp(c) ELSE Retry(c)

-----------------------------------------------------------------------------
\* The event of Finish: del, or cancel, which sets FINISH and comes to del.
Del(c) ==
  /\ HandlerFree /\ tag[c] = "finish"
  /\ status' = [status EXCEPT ![c] = "DELETED"]
  /\ tag' = [tag EXCEPT ![c] = "none"]
  /\ UNCHANGED <<producers, key, pc, onHandler, retryCount, historyVars, crashed>>

Next ==
  /\ ~crashed
  /\ \E c \in Call :
       \/ ParamsError(c) \/ (\E k \in Key : Process(c, k))
       \/ GetProducerAndSend(c)
       \/ SuccessFunc(c) \/ FailureFunc(c)
       \/ Del(c)

\* A thread that runs process() goes on, send() calls back, and the completion
\* queue's thread takes events.  Nothing makes clients send requests.
Fairness ==
  \A c \in Call :
    /\ WF_vars(~crashed /\ GetProducerAndSend(c))
    /\ WF_vars(~crashed /\ (SuccessFunc(c) \/ FailureFunc(c)))
    /\ WF_vars(~crashed /\ Del(c))

Spec == Init /\ [][Next]_vars

FairSpec == Spec /\ Fairness

-----------------------------------------------------------------------------
\* A call is in the hands of one party at a time: the completion queue (waiting
\* for a request, or for the end of Finish), a thread in process(), or the
\* producer with a callback that captured this.  The last three never hold a
\* call that was deleted or answered, though two threads pass it to and fro,
\* and del finds it in FINISH, as GPR_ASSERT says.
OwnedOnce ==
  \A c \in Call :
    /\ status[c] = "PROCESS" => \/ tag[c] = "request" /\ pc[c] = "idle"
                                \/ tag[c] = "none" /\ pc[c] # "idle"
    /\ status[c] = "FINISH" => tag[c] = "finish" /\ pc[c] = "idle"
    /\ status[c] \in {"NONE", "DELETED"} => tag[c] = "none" /\ pc[c] = "idle"

\* The client is told that the broker failed after MAX_RETRY_COUNT retries and no
\* earlier, whatever threads they ran on, and no message is sent more often.
RetriesExhausted ==
  \A c \in Call :
    /\ sends[c] <= MaxRetry + 1
    /\ reply[c] = "failed" => sends[c] = MaxRetry + 1

\* The completion queue always waits for another request, whatever happens to
\* those that came: for one more with every retry, and these never go away.
Waiting == {c \in Call : tag[c] = "request"}
Retries == {r \in Call \X (1..MaxRetry) : r[2] <= retryCount[r[1]]}
SlotsAccounted == Cardinality(Waiting) = 1 + Cardinality(Retries)

\* A request that came is answered, if the producer could be started.
ProduceAnswered ==
  \A c \in Call : pc[c] # "idle" ~> (reply[c] # "none" \/ crashed)
=============================================================================
