--------------------------- MODULE MCConsumerUnit ---------------------------
EXTENDS ConsumerUnit, TLC

\* Batches of one message, the default of the push consumer, and of two.
MCBatches == {<<m>> : m \in MsgId} \cup {p \in MsgId \X MsgId : p[1] # p[2]}

MCSymmetry == Permutations(MsgId)
=============================================================================
