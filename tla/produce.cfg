SPECIFICATION FairSpec
CONSTANTS
  Call = {c1, c2, c3, c4, c5, c6, c7}
  First = c1
  Key = {k1, k2}
  NoKey = NoKey
  MaxRetry = 2
  MaxRpc = 2
INVARIANTS TypeOK OwnedOnce RetriesExhausted SlotsAccounted
PROPERTIES ProduceAnswered
CHECK_DEADLOCK FALSE
