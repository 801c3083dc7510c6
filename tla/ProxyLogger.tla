----------------------------- MODULE ProxyLogger -----------------------------
(***************************************************************************)
(* ProxyLogger: the call and callback threads put log records in a queue   *)
(* (writeLog), one thread collects them in batches and sends each batch to *)
(* Elasticsearch, or appends it to the log file (loopConsumeLog, bulk).    *)
(*                                                                         *)
(* A record is the number of its writeLog call; its JSON text is left out. *)
(* Elasticsearch is external.  bulk() is what it makes of the answer: true *)
(* for {"errors": false}, false for an error or no answer, and an          *)
(* exception of the property tree for an answer that is not what it reads, *)
(* which nobody catches.                                                   *)
(***************************************************************************)
EXTENDS Naturals, Sequences

CONSTANTS
  Records,      \* bound: records written
  max,          \* records in a batch
  esErrorMax,
  Opened        \* BOOLEAN or a part of it: may fopen fail

ASSUME LoggerAssumption ==
  Records \in Nat /\ max \in Nat \ {0} /\ esErrorMax \in Nat /\ Opened \subseteq BOOLEAN

VARIABLES
  written,        \* how often writeLog was called
  logQueue,
  data,           \* the records of the batch; count is its length
  age,            \* time(0) - lastTime, up to 2
  esErrorCount,
  logFileOpened,
  pc,             \* loopConsumeLog, and what checkAndSendLog returns to
  out             \* history: what left the logger, in order, and where to

vars == <<written, logQueue, data, age, esErrorCount, logFileOpened, pc, out>>

Sink == {"es", "file", "nowhere"}
PC   == {"pop", "checkInner", "bulkInner", "checkOuter", "bulkOuter", "sleep", "terminated"}

TypeOK ==
  /\ written \in 0..Records
  /\ logQueue \in Seq(1..Records)
  /\ data \in Seq(1..Records) /\ Len(data) <= max
  /\ age \in 0..2
  /\ esErrorCount \in 0..esErrorMax
  /\ logFileOpened \in BOOLEAN
  /\ pc \in PC
  /\ out \in Seq([rec : 1..Records, sink : Sink])

Init ==
  /\ written = 0
  /\ logQueue = <<>>
  /\ data = <<>>
  /\ age = 0
  /\ esErrorCount = 0
  /\ logFileOpened \in Opened
  /\ pc = "pop"
  /\ out = <<>>

-----------------------------------------------------------------------------
WriteLog ==
  /\ written < Records /\ pc # "terminated"
  /\ written' = written + 1
  /\ logQueue' = Append(logQueue, written + 1)
  /\ UNCHANGED <<data, age, esErrorCount, logFileOpened, pc, out>>

\* Mutant: the batch is checked only when the queue is empty.
TryPopUnchecked ==
  /\ pc = "pop" /\ logQueue # <<>>
  /\ data' = Append(data, Head(logQueue))
  /\ logQueue' = Tail(logQueue)
  /\ UNCHANGED <<written, age, esErrorCount, logFileOpened, pc, out>>

TryPop ==
  /\ pc = "pop" /\ logQueue # <<>>
  /\ data' = Append(data, Head(logQueue))
  /\ logQueue' = Tail(logQueue)
  /\ pc' = "checkInner"
  /\ UNCHANGED <<written, age, esErrorCount, logFileOpened, out>>

QueueEmpty ==
  /\ pc = "pop" /\ logQueue = <<>>
  /\ pc' = "checkOuter"
  /\ UNCHANGED <<written, logQueue, data, age, esErrorCount, logFileOpened, out>>

-----------------------------------------------------------------------------
(* checkAndSendLog, in the inner loop after a record and in the outer one.  *)

Return(at) == pc' = IF at \in {"checkInner", "bulkInner"} THEN "pop" ELSE "sleep"

\* Mutant: a batch is not sent because of its age.
DueFull == Len(data) >= max
Due == Len(data) >= max \/ (age > 1 /\ data # <<>>)

NotDue ==
  /\ pc \in {"checkInner", "checkOuter"} /\ ~Due
  /\ Return(pc)
  /\ UNCHANGED <<written, logQueue, data, age, esErrorCount, logFileOpened, out>>

\* The batch leaves for s, and another one begins.
Leave(s) ==
  /\ out' = out \o [i \in DOMAIN data |-> [rec |-> data[i], sink |-> s]]
  /\ data' = <<>>
  /\ age' = 0

FileSink == IF logFileOpened THEN "file" ELSE "nowhere"

\* After esErrorMax errors, since the start of the process, the file only.
GivenUp ==
  /\ pc \in {"checkInner", "checkOuter"} /\ Due /\ esErrorCount >= esErrorMax
  /\ Leave(FileSink)
  /\ Return(pc)
  /\ UNCHANGED <<written, logQueue, esErrorCount, logFileOpened>>

\* bulk() begins; it may take a second.
Bulk ==
  /\ pc \in {"checkInner", "checkOuter"} /\ Due /\ esErrorCount < esErrorMax
  /\ pc' = IF pc = "checkInner" THEN "bulkInner" ELSE "bulkOuter"
  /\ UNCHANGED <<written, logQueue, data, age, esErrorCount, logFileOpened, out>>

BulkSucceeds ==
  /\ pc \in {"bulkInner", "bulkOuter"}
  /\ Leave("es")
  /\ Return(pc)
  /\ UNCHANGED <<written, logQueue, esErrorCount, logFileOpened>>

\* Mutant: the batch that could not be sent stays in data.
BulkFailsKept ==
  /\ pc \in {"bulkInner", "bulkOuter"}
  /\ out' = out \o [i \in DOMAIN data |-> [rec |-> data[i], sink |-> FileSink]]
  /\ esErrorCount' = esErrorCount + 1
  /\ age' = 0
  /\ Return(pc)
  /\ UNCHANGED <<written, logQueue, data, logFileOpened>>

BulkFails ==
  /\ pc \in {"bulkInner", "bulkOuter"}
  /\ Leave(FileSink)
  /\ esErrorCount' = esErrorCount + 1
  /\ Return(pc)
  /\ UNCHANGED <<written, logQueue, logFileOpened>>

\* read_json or get<bool> throws out of the thread: std::terminate.
BulkThrows ==
  /\ pc \in {"bulkInner", "bulkOuter"}
  /\ pc' = "terminated"
  /\ UNCHANGED <<written, logQueue, data, age, esErrorCount, logFileOpened, out>>

Wake ==
  /\ pc = "sleep"
  /\ pc' = "pop"
  /\ UNCHANGED <<written, logQueue, data, age, esErrorCount, logFileOpened, out>>

LoopConsumeLog ==
  \/ TryPop \/ QueueEmpty \/ NotDue \/ GivenUp \/ Bulk
  \/ BulkSucceeds \/ BulkFails \/ BulkThrows \/ Wake

Tick ==
  /\ pc # "terminated" /\ age < 2
  /\ age' = age + 1
  /\ UNCHANGED <<written, logQueue, data, esErrorCount, logFileOpened, pc, out>>

Next == WriteLog \/ LoopConsumeLog \/ Tick

Spec == Init /\ [][Next]_vars

FairSpec == Spec /\ WF_vars(LoopConsumeLog) /\ WF_vars(Tick)

-----------------------------------------------------------------------------
\* Every record written is, exactly once and in the order of the writeLog calls,
\* in what left the logger, in the batch, or in the queue; and none that left was
\* dropped if there is a file to keep it in.
RecordsAccounted ==
  /\ [i \in DOMAIN out |-> out[i].rec] \o data \o logQueue = [i \in 1..written |-> i]
  /\ logFileOpened => \A i \in DOMAIN out : out[i].sink # "nowhere"

\* A record does not stay in the logger: a batch that is not full is sent when it
\* is old, whether more records come or not, as long as the process lives.
RecordsLeave ==
  \A n \in 1..Records :
    written >= n ~> (Len(out) >= n \/ pc = "terminated")
=============================================================================
