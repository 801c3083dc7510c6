SPECIFICATION Spec
CONSTANTS
  MsgId = {m1, m2}
  Call = {c1, c2}
  Ack = {a1}
  Thread = {t1}
  NoCall = NoCall
  NoMsg = NoMsg
  NoAck = NoAck
  Batches <- MCPairs
  AckStatus = {"CONSUME_SUCCESS", "RECONSUME_LATER"}
  Stored <- MCOnce
  WaitTime = 1
  AckTime = 1
  InactiveTime = 2
  TimeCap = 2
INVARIANTS TypeOK NoSilentLoss BatchesAccounted CutShortOnlyInDelivery CopiesConserved
PROPERTIES AnsweredOnce ImplementsAtLeastOnce
SYMMETRY MCSymmetry
CHECK_DEADLOCK FALSE
