-------------------------- MODULE ProxyLoggerProofs --------------------------
(***************************************************************************)
(* Proofs about ProxyLogger.tla, for any number of records, size of the    *)
(* batches and limit of errors: no record is lost, doubled or overtaken,   *)
(* and no batch grows beyond max.                                          *)
(***************************************************************************)
EXTENDS ProxyLogger, SequenceTheorems, TLAPS

\* The next record is popped only into a batch that has room, and bulk() is called
\* only while its errors may be counted.
Room ==
  /\ pc \in {"pop", "sleep"} => Len(data) < max
  /\ pc \in {"bulkInner", "bulkOuter"} => esErrorCount < esErrorMax

IInv == TypeOK /\ Room /\ RecordsAccounted

Entry == [rec : 1..Records, sink : Sink]

\* The records of the entries in o; those that left are Left(out).
Left(o) == [i \in DOMAIN o |-> o[i].rec]

Kept == logFileOpened => \A i \in DOMAIN out : out[i].sink # "nowhere"

-----------------------------------------------------------------------------
(* Sequences.                                                               *)

\* What leaves is a sequence of records.
LEMMA LeftSeq ==
  ASSUME NEW o \in Seq(Entry)
  PROVE  /\ Left(o) \in Seq(1..Records) /\ Len(Left(o)) = Len(o)
         /\ \A i \in 1..Len(o) : Left(o)[i] = o[i].rec
<1>1. Len(o) \in Nat /\ DOMAIN o = 1..Len(o)
  BY LenProperties
<1>2. \A i \in 1..Len(o) : o[i] \in Entry
  BY <1>1, ElementOfSeq
<1>3. \A i \in 1..Len(o) : o[i].rec \in 1..Records
  BY <1>2 DEF Entry
<1>4. Left(o) \in [1..Len(o) -> 1..Records]
  BY <1>1, <1>3 DEF Left
<1>5. Left(o) \in Seq(1..Records)
  <2> DEFINE f == Left(o)
             S == 1..Records
             n == Len(o)
  <2>1. n \in Nat /\ f \in [1..n -> S]
    BY <1>1, <1>4
  <2> HIDE DEF f, S, n
  <2>2. f \in Seq(S)
    BY <2>1, SeqDef
  <2> QED
    BY <2>2 DEF f, S
<1>6. Len(Left(o)) = Len(o)
  <2>1. Len(Left(o)) \in Nat /\ DOMAIN Left(o) = 1..Len(Left(o))
    BY <1>5, LenProperties
  <2> QED
    BY <1>1, <1>4, <2>1
<1> QED
  BY <1>1, <1>5, <1>6 DEF Left

\* The batch for a sink is a sequence of as many entries.
LEMMA BatchSeq ==
  ASSUME TypeOK, NEW s \in Sink
  PROVE  LET b == [i \in DOMAIN data |-> [rec |-> data[i], sink |-> s]]
         IN  /\ b \in Seq(Entry)
             /\ Len(b) = Len(data)
             /\ \A i \in 1..Len(data) : b[i].rec = data[i] /\ b[i].sink = s
<1> DEFINE b == [i \in DOMAIN data |-> [rec |-> data[i], sink |-> s]]
<1>1. Len(data) \in Nat /\ DOMAIN data = 1..Len(data)
  BY LenProperties DEF TypeOK
<1>2. \A i \in 1..Len(data) : data[i] \in 1..Records
  BY <1>1, ElementOfSeq DEF TypeOK
<1>3. b \in [1..Len(data) -> Entry]
  BY <1>1, <1>2 DEF Entry
<1>4. b \in Seq(Entry)
  BY <1>1, <1>3, SeqDef
<1>5. Len(b) = Len(data)
  BY <1>1, <1>3, <1>4, LenProperties
<1> QED
  BY <1>1, <1>4, <1>5

-----------------------------------------------------------------------------
(* What leaves, the batch and the queue, one after the other.               *)

\* A record goes from the queue to the batch.
LEMMA PopMoves ==
  ASSUME TypeOK, logQueue # <<>>
  PROVE  Left(out) \o Append(data, Head(logQueue)) \o Tail(logQueue)
           = Left(out) \o data \o logQueue
<1> DEFINE S == 1..Records
           r == Left(out)
           d == data
           q == logQueue
<1>0. r \in Seq(S) /\ d \in Seq(S) /\ q \in Seq(S) /\ q # <<>>
  <2>1. out \in Seq(Entry)
    BY DEF TypeOK, Entry
  <2> QED
    BY <2>1, LeftSeq DEF TypeOK
<1> HIDE DEF S, r, d, q
<1>1. Head(q) \in S /\ Tail(q) \in Seq(S) /\ <<Head(q)>> \in Seq(S)
  BY <1>0, HeadTailProperties
<1>2. q = <<Head(q)>> \o Tail(q)
  <2>1. Len(q) \in Nat /\ Len(q) # 0 /\ Len(<<Head(q)>>) = 1 /\ Len(Tail(q)) = Len(q) - 1
    BY <1>0, EmptySeq, LenProperties, HeadTailProperties
  <2>2. \A i \in 1..Len(Tail(q)) : Tail(q)[i] = q[i + 1]
    BY <1>0, HeadTailProperties
  <2>3. /\ <<Head(q)>> \o Tail(q) \in Seq(S)
        /\ Len(<<Head(q)>> \o Tail(q)) = Len(q)
        /\ \A i \in 1..Len(q) : (<<Head(q)>> \o Tail(q))[i] =
             IF i <= 1 THEN <<Head(q)>>[i] ELSE Tail(q)[i - 1]
    BY <1>1, <2>1, ConcatProperties
  <2>4. \A i \in 1..Len(q) : (<<Head(q)>> \o Tail(q))[i] = q[i]
    BY <2>1, <2>2, <2>3
  <2> QED
    BY <1>0, <2>3, <2>4, SeqEqual
<1>3. Append(d, Head(q)) = d \o <<Head(q)>>
  BY <1>0, <1>1, AppendIsConcat
<1> DEFINE a == r \o d
           x == <<Head(q)>>
           t == Tail(q)
<1>4. r \o Append(d, Head(q)) = a \o x
  BY <1>0, <1>1, <1>3, ConcatAssociative
<1>5. a \in Seq(S)
  BY <1>0, ConcatProperties
<1>6. x \in Seq(S) /\ t \in Seq(S) /\ q = x \o t
  BY <1>1, <1>2
<1> HIDE DEF a, x, t
<1>7. (a \o x) \o t = a \o (x \o t)
  BY <1>5, <1>6, ConcatAssociative, SMTT(30)
<1>8. (r \o Append(d, Head(q))) \o t = a \o q
  BY <1>4, <1>6, <1>7
<1> QED
  BY <1>8 DEF a, t, r, d, q

\* A record is written.
LEMMA WriteAppends ==
  ASSUME IInv, written + 1 \in 1..Records, written \in Nat
  PROVE  Left(out) \o data \o Append(logQueue, written + 1) = [i \in 1..(written + 1) |-> i]
<1> DEFINE S == 1..Records
           a == Left(out) \o data
           w == written
           q == logQueue
<1>0. /\ a \in Seq(S) /\ q \in Seq(S) /\ w \in Nat /\ w + 1 \in S
      /\ a \o q = [i \in 1..w |-> i]
  <2>1. out \in Seq(Entry) /\ data \in Seq(S) /\ q \in Seq(S)
    BY DEF IInv, TypeOK, Entry
  <2>2. Left(out) \in Seq(S)
    BY <2>1, LeftSeq
  <2>3. a \in Seq(S)
    BY <2>1, <2>2, ConcatProperties
  <2> QED
    BY <2>1, <2>3 DEF IInv, RecordsAccounted, Left
<1> HIDE DEF S, a, w, q
<1> DEFINE c == a \o Append(q, w + 1)
<1>1. Len(a) \in Nat /\ Len(q) \in Nat
  BY <1>0, LenProperties
<1>2. /\ a \o q \in Seq(S) /\ Len(a \o q) = Len(a) + Len(q)
      /\ \A i \in 1..Len(a) + Len(q) :
           (a \o q)[i] = IF i <= Len(a) THEN a[i] ELSE q[i - Len(a)]
  BY <1>0, ConcatProperties
<1>3. DOMAIN (a \o q) = 1..Len(a) + Len(q)
  BY <1>2, LenProperties
<1>4. Len(a) + Len(q) = w
  <2>1. 1..Len(a) + Len(q) = 1..w
    BY <1>0, <1>3
  <2> QED
    BY <1>0, <1>1, <2>1
<1>5. /\ Append(q, w + 1) \in Seq(S) /\ Len(Append(q, w + 1)) = Len(q) + 1
      /\ \A i \in 1..Len(q) : Append(q, w + 1)[i] = q[i]
      /\ Append(q, w + 1)[Len(q) + 1] = w + 1
  BY <1>0, AppendProperties
<1>6. /\ c \in Seq(S) /\ Len(c) = w + 1
      /\ \A i \in 1..w + 1 :
           c[i] = IF i <= Len(a) THEN a[i] ELSE Append(q, w + 1)[i - Len(a)]
  <2>1. Len(a) + (Len(q) + 1) = w + 1
    BY <1>1, <1>4
  <2> QED
    BY <1>0, <1>5, <2>1, ConcatProperties
<1>7. c \in [1..w + 1 -> S]
  BY <1>6, LenProperties
<1>8. \A i \in 1..w + 1 : c[i] = i
  <2>1. ASSUME NEW i \in 1..w PROVE c[i] = (a \o q)[i]
    BY <1>0, <1>1, <1>2, <1>4, <1>5, <1>6
  <2>2. c[w + 1] = w + 1
    BY <1>0, <1>1, <1>4, <1>5, <1>6
  <2>3. \A i \in 1..w : (a \o q)[i] = i
    BY <1>0
  <2>4. \A i \in 1..w + 1 : i \in 1..w \/ i = w + 1
    BY <1>0
  <2> HIDE DEF c
  <2> QED
    BY <2>1, <2>2, <2>3, <2>4
<1> HIDE DEF c
<1> QED
  BY <1>7, <1>8 DEF c, a, w, q

-----------------------------------------------------------------------------
LEMMA InitInv == Init => IInv
<1> SUFFICES ASSUME Init PROVE IInv
  OBVIOUS
<1>1. TypeOK
  BY LoggerAssumption, EmptySeq DEF Init, TypeOK, PC
<1>2. Room
  BY LoggerAssumption, EmptySeq DEF Init, Room
<1>3. RecordsAccounted
  <2>1. Left(out) = <<>>
    BY DEF Init, Left
  <2>2. Left(out) \o data \o logQueue = <<>>
    BY <2>1, ConcatEmptySeq, EmptySeq DEF Init
  <2>3. [i \in 1..written |-> i] = <<>>
    BY DEF Init
  <2>4. Kept
    BY EmptySeq, LenProperties DEF Init, Kept
  <2> QED
    BY <2>2, <2>3, <2>4 DEF RecordsAccounted, Left, Kept
<1> QED
  BY <1>1, <1>2, <1>3 DEF IInv

\* writeLog, on any thread.
LEMMA WriteInv ==
  ASSUME IInv, WriteLog
  PROVE  IInv'
<1>1. written + 1 \in 1..Records /\ written \in Nat
  BY LoggerAssumption DEF IInv, TypeOK, WriteLog
<1>2. TypeOK'
  BY <1>1, AppendProperties DEF IInv, TypeOK, WriteLog
<1>3. Room'
  BY DEF IInv, Room, WriteLog
<1>4. RecordsAccounted'
  <2>1. Left(out) \o data \o logQueue' = [i \in 1..written' |-> i]
    BY <1>1, WriteAppends DEF WriteLog
  <2>2. UNCHANGED <<out, data, logFileOpened>>
    BY DEF WriteLog
  <2> QED
    BY <2>1, <2>2 DEF Left, IInv, RecordsAccounted
<1> QED
  BY <1>2, <1>3, <1>4 DEF IInv

\* try_pop, and the record is appended to the batch.
LEMMA TryPopInv ==
  ASSUME IInv, TryPop
  PROVE  IInv'
<1>1. /\ data \in Seq(1..Records) /\ logQueue \in Seq(1..Records) /\ logQueue # <<>>
      /\ Len(data) \in Nat /\ Len(data) < max
  BY LenProperties DEF IInv, TypeOK, Room, TryPop
<1>2. Head(logQueue) \in 1..Records /\ Tail(logQueue) \in Seq(1..Records)
  BY <1>1, HeadTailProperties
<1>3. TypeOK'
  <2>1. data' \in Seq(1..Records) /\ Len(data') = Len(data) + 1
    BY <1>1, <1>2, AppendProperties DEF TryPop
  <2> QED
    BY <1>1, <1>2, <2>1, LoggerAssumption DEF IInv, TypeOK, TryPop, PC
<1>4. Room'
  BY DEF Room, TryPop
<1>5. RecordsAccounted'
  <2>1. Left(out) \o data' \o logQueue' = Left(out) \o data \o logQueue
    BY <1>1, PopMoves DEF IInv, TryPop
  <2> QED
    BY <2>1 DEF Left, IInv, RecordsAccounted, TryPop
<1> QED
  BY <1>3, <1>4, <1>5 DEF IInv

\* The batch leaves: the three ways out of checkAndSendLog that empty it.
LEMMA LeaveInv ==
  ASSUME IInv, NEW s \in Sink, s = "nowhere" => ~logFileOpened, Leave(s), Return(pc),
         esErrorCount' \in 0..esErrorMax, UNCHANGED <<written, logQueue, logFileOpened>>
  PROVE  IInv'
<1> DEFINE b == [i \in DOMAIN data |-> [rec |-> data[i], sink |-> s]]
<1>1. /\ b \in Seq(Entry) /\ Len(b) = Len(data)
      /\ \A i \in 1..Len(data) : b[i].rec = data[i] /\ b[i].sink = s
  BY BatchSeq DEF IInv
<1>2. out \in Seq(Entry) /\ out' = out \o b /\ data' = <<>>
  BY DEF IInv, TypeOK, Leave, Entry
<1>3. Len(out) \in Nat /\ Len(data) \in Nat /\ DOMAIN out = 1..Len(out)
  BY LenProperties DEF IInv, TypeOK
<1> HIDE DEF b
<1>4. /\ out' \in Seq(Entry) /\ Len(out') = Len(out) + Len(data)
      /\ \A i \in 1..Len(out) + Len(data) :
           out'[i] = IF i <= Len(out) THEN out[i] ELSE b[i - Len(out)]
  <2>1. /\ out \o b \in Seq(Entry) /\ Len(out \o b) = Len(out) + Len(b)
        /\ \A i \in 1..Len(out) + Len(b) :
             (out \o b)[i] = IF i <= Len(out) THEN out[i] ELSE b[i - Len(out)]
    <3> DEFINE o == out
               S == Entry
    <3>1. o \in Seq(S) /\ b \in Seq(S)
      BY <1>1, <1>2
    <3> HIDE DEF o, S
    <3>2. /\ o \o b \in Seq(S) /\ Len(o \o b) = Len(o) + Len(b)
          /\ \A i \in 1..Len(o) + Len(b) :
               (o \o b)[i] = IF i <= Len(o) THEN o[i] ELSE b[i - Len(o)]
      BY <3>1, ConcatProperties
    <3> QED
      BY <3>2 DEF o, S
  <2> QED
    BY <1>1, <1>2, <2>1
<1>5. DOMAIN out' = 1..Len(out) + Len(data)
  BY <1>4, LenProperties
<1>6. TypeOK'
  <2>1. pc' \in PC
    BY DEF Return, PC
  <2>2. data' \in Seq(1..Records) /\ Len(data') <= max
    BY <1>2, EmptySeq, LoggerAssumption
  <2> QED
    BY <1>4, <2>1, <2>2 DEF IInv, TypeOK, Leave, Entry
<1>7. Room'
  BY <1>2, EmptySeq, LoggerAssumption DEF Room, Return
<1>8. Left(out') = Left(out) \o data
  <2> DEFINE r == Left(out)
             S == 1..Records
             n == Len(out) + Len(data)
  <2>1. /\ r \in Seq(S) /\ Len(r) = Len(out) /\ data \in Seq(S)
        /\ \A i \in 1..Len(out) : r[i] = out[i].rec
    BY <1>2, LeftSeq DEF IInv, TypeOK
  <2>2. /\ Left(out') \in Seq(S) /\ Len(Left(out')) = n
        /\ \A i \in 1..n : Left(out')[i] = out'[i].rec
    BY <1>4, LeftSeq
  <2> HIDE DEF r, S
  <2>3. /\ r \o data \in Seq(S) /\ Len(r \o data) = Len(r) + Len(data)
        /\ \A i \in 1..Len(r) + Len(data) :
             (r \o data)[i] = IF i <= Len(r) THEN r[i] ELSE data[i - Len(r)]
    BY <2>1, ConcatProperties
  <2>4. ASSUME NEW i \in 1..n PROVE Left(out')[i] = (r \o data)[i]
    <3>1. CASE i <= Len(out)
      <4>1. i \in 1..Len(out) /\ out'[i] = out[i]
        BY <1>3, <1>4, <3>1
      <4> QED
        BY <2>1, <2>2, <2>3, <3>1, <4>1
    <3>2. CASE ~(i <= Len(out))
      <4>1. i - Len(out) \in 1..Len(data) /\ out'[i] = b[i - Len(out)]
        BY <1>3, <1>4, <3>2
      <4>2. out'[i].rec = data[i - Len(out)]
        BY <1>1, <4>1
      <4>3. (r \o data)[i] = data[i - Len(out)]
        BY <2>1, <2>3, <3>2
      <4> QED
        BY <2>2, <4>2, <4>3
    <3> QED
      BY <3>1, <3>2
  <2>5. Len(Left(out')) = Len(r \o data)
    BY <2>1, <2>2, <2>3
  <2>6. \A i \in 1..Len(Left(out')) : Left(out')[i] = (r \o data)[i]
    BY <2>2, <2>4
  <2>7. Left(out') = r \o data
    BY <2>2, <2>3, <2>5, <2>6, SeqEqual
  <2> QED
    BY <2>7 DEF r
<1>9. RecordsAccounted'
  <2>1. Left(out') \o data' \o logQueue' = Left(out) \o data \o logQueue
    <3>1. Left(out') \in Seq(1..Records)
      BY <1>4, LeftSeq
    <3>2. Left(out') \o <<>> = Left(out')
      BY <3>1, ConcatEmptySeq
    <3> QED
      BY <1>2, <1>8, <3>2
  <2>2. Kept'
    <3> SUFFICES ASSUME logFileOpened, NEW i \in 1..Len(out) + Len(data)
                 PROVE  out'[i].sink # "nowhere"
      BY <1>5 DEF Kept
    <3>1. CASE i <= Len(out)
      BY <1>3, <1>4, <3>1 DEF IInv, RecordsAccounted
    <3>2. CASE ~(i <= Len(out))
      <4>1. i - Len(out) \in 1..Len(data) /\ out'[i] = b[i - Len(out)]
        BY <1>3, <1>4, <3>2
      <4> QED
        BY <1>1, <4>1
    <3> QED
      BY <3>1, <3>2
  <2> QED
    BY <2>1, <2>2 DEF Left, Kept, IInv, RecordsAccounted
<1> QED
  BY <1>6, <1>7, <1>9 DEF IInv

\* Every step keeps the invariant.
LEMMA StepInv == IInv /\ [Next]_vars => IInv'
<1> SUFFICES ASSUME IInv, [Next]_vars PROVE IInv'
  OBVIOUS
<1>1. FileSink \in Sink /\ (FileSink = "nowhere" => ~logFileOpened) /\ "es" \in Sink
  BY DEF FileSink, Sink
<1>2. esErrorCount \in 0..esErrorMax /\ esErrorMax \in Nat
  BY LoggerAssumption DEF IInv, TypeOK
<1>3. CASE WriteLog
  BY <1>3, WriteInv
<1>4. CASE TryPop
  BY <1>4, TryPopInv
<1>5. CASE GivenUp
  BY <1>1, <1>2, <1>5, LeaveInv DEF GivenUp
<1>6. CASE BulkSucceeds
  BY <1>1, <1>2, <1>6, LeaveInv DEF BulkSucceeds
<1>7. CASE BulkFails
  <2>1. esErrorCount' \in 0..esErrorMax
    BY <1>2, <1>7 DEF BulkFails, IInv, Room
  <2> QED
    BY <1>1, <1>7, <2>1, LeaveInv DEF BulkFails
<1>8. CASE QueueEmpty \/ NotDue \/ Bulk \/ BulkThrows \/ Wake \/ Tick \/ UNCHANGED vars
  <2>1. UNCHANGED <<written, logQueue, data, esErrorCount, logFileOpened, out>>
    BY <1>8 DEF QueueEmpty, NotDue, Bulk, BulkThrows, Wake, Tick, vars
  <2>2. pc' \in PC /\ age' \in 0..2
    BY <1>8 DEF QueueEmpty, NotDue, Bulk, BulkThrows, Wake, Tick, vars, Return, PC, IInv, TypeOK
  <2>3. TypeOK'
    BY <2>1, <2>2 DEF IInv, TypeOK
  <2>4. Room'
    <3>1. Len(data) \in Nat /\ max \in Nat
      BY LenProperties, LoggerAssumption DEF IInv, TypeOK
    <3> QED
      BY <1>8, <2>1, <3>1
      DEF QueueEmpty, NotDue, Due, Return, Bulk, BulkThrows, Wake, Tick, vars, IInv, Room
  <2>5. RecordsAccounted'
    BY <2>1 DEF IInv, RecordsAccounted
  <2> QED
    BY <2>3, <2>4, <2>5 DEF IInv
<1> QED
  BY <1>3, <1>4, <1>5, <1>6, <1>7, <1>8 DEF Next, LoopConsumeLog

-----------------------------------------------------------------------------
\* The inductive invariant of the logger.
THEOREM Invariance == Spec => []IInv
<1> QED
  BY InitInv, StepInv, PTL DEF Spec

\* TypeOK: a batch has max records at most, however fast they are written.
THEOREM TypeCorrect == Spec => []TypeOK
<1>1. IInv => TypeOK
  BY DEF IInv
<1> QED
  BY <1>1, Invariance, PTL

\* RecordsAccounted: a record that is written is in one place, in order, and leaves
\* once, whatever bulk() answers; it is not dropped if there is a log file.
THEOREM Accounts == Spec => []RecordsAccounted
<1>1. IInv => RecordsAccounted
  BY DEF IInv
<1> QED
  BY <1>1, Invariance, PTL
=============================================================================
