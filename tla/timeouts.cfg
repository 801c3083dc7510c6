SPECIFICATION FairSpec
CONSTANTS
  MsgId = {m1, m2}
  Call = {c1, c2}
  Ack = {}
  Thread = {t1}
  NoCall = NoCall
  NoMsg = NoMsg
  NoAck = NoAck
  Batches <- MCPairs
  AckStatus = {"CONSUME_SUCCESS", "RECONSUME_LATER"}
  Stored <- MCOnce
  WaitTime = 1
  AckTime = 1
  InactiveTime = 1
  TimeCap = 1
INVARIANTS WatchedUntilAcked
PROPERTIES BatchReleased EveryRequestAnswered
CHECK_DEADLOCK FALSE
