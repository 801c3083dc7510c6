------------------------ MODULE MCShutdownConsumer ------------------------
EXTENDS ShutdownConsumer, TLC

MCSymmetry == Permutations(Key) \cup Permutations(Unit) \cup Permutations(MsgId)
=============================================================================
