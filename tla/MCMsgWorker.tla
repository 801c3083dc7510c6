----------------------------- MODULE MCMsgWorker -----------------------------
EXTENDS MsgWorker, TLC

\* Batches of one message, the default of the push consumer, and of two.
MCSingles == {<<m>> : m \in MsgId}
MCPairs   == MCSingles \cup {p \in MsgId \X MsgId : p[1] # p[2]}
MCOnce    == [m \in MsgId |-> 1]

MCSymmetry == Permutations(Call) \cup Permutations(Thread) \cup Permutations(MsgId)

=============================================================================
