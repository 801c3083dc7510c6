SPECIFICATION Spec
CONSTANTS
  MsgId = {m1}
  Call = {c1, c2}
  Ack = {a1}
  Thread = {t1}
  NoCall = NoCall
  NoMsg = NoMsg
  NoAck = NoAck
  Batches <- MCSingles
  AckStatus = {"CONSUME_SUCCESS"}
  Stored <- MCOnce
  WaitTime = 1
  AckTime = 1
  InactiveTime = 1
  TimeCap = 1
INVARIANTS WatchedUntilAcked
CHECK_DEADLOCK FALSE
