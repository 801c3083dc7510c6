----------------------------- MODULE AtLeastOnce -----------------------------
(***************************************************************************)
(* What the consume path of the proxy promises, without calls, timeouts or *)
(* locks: the callback threads take batches from the broker, clients       *)
(* acknowledge messages that are held, and a batch is given back to the    *)
(* broker except for messages some client has acknowledged.                *)
(***************************************************************************)
EXTENDS Naturals, Sequences, FiniteSets

CONSTANTS
  MsgId,      \* message ids
  Thread,     \* threads that may hold a batch
  Batches,    \* the batches the broker may hand over
  Stored      \* how many copies of a message the broker has at first

VARIABLES
  broker,     \* copies of each message the broker may still hand over
  held,       \* the batch each thread holds, <<>> for none
  acked,      \* messages some client has acknowledged
  consumed    \* messages the broker was told are consumed

vars == <<broker, held, acked, consumed>>

Count(b, m) == Cardinality({i \in DOMAIN b : b[i] = m})
Ids(b)      == {b[i] : i \in DOMAIN b}

Init ==
  /\ broker = Stored
  /\ held = [t \in Thread |-> <<>>]
  /\ acked = {}
  /\ consumed = {}

\* A free thread takes a batch.
Take(t, b) ==
  /\ held[t] = <<>>
  /\ \A m \in MsgId : Count(b, m) <= broker[m]
  /\ broker' = [m \in MsgId |-> broker[m] - Count(b, m)]
  /\ held' = [held EXCEPT ![t] = b]
  /\ UNCHANGED <<acked, consumed>>

\* A client acknowledges a message that some thread holds.
Acknowledge(t, m) ==
  /\ m \in Ids(held[t])
  /\ acked' = acked \cup {m}
  /\ UNCHANGED <<broker, held, consumed>>

\* A thread gives its batch back: done is consumed, the rest is delivered again.
Settle(t, done) ==
  /\ held[t] # <<>>
  /\ done \subseteq acked
  /\ broker' = [m \in MsgId |-> IF m \in Ids(held[t]) \ done
                                THEN broker[m] + Count(held[t], m) ELSE broker[m]]
  /\ held' = [held EXCEPT ![t] = <<>>]
  /\ consumed' = consumed \cup done
  /\ UNCHANGED acked

Next ==
  \E t \in Thread :
    \/ \E b \in Batches : Take(t, b)
    \/ \E m \in MsgId : Acknowledge(t, m)
    \/ \E done \in SUBSET Ids(held[t]) : Settle(t, done)

Spec == Init /\ [][Next]_vars

-----------------------------------------------------------------------------
\* The copies of a message in the batches: which thread, and where in its batch.
Copies(m) == UNION {{t} \X {i \in DOMAIN held[t] : held[t][i] = m} : t \in Thread}

\* As long as no client has acknowledged a message, every copy of it is at the
\* broker or held by a thread: the proxy never loses one.
Conserved ==
  \A m \in MsgId \ acked : broker[m] + Cardinality(Copies(m)) = Stored[m]
=============================================================================
