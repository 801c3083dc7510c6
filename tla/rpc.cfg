SPECIFICATION FairSpec
CONSTANTS
  NotUtf8 = {"bytes"}
  Copies <- MCCopies
  MaxRetry = 1
  Client = {consumer, producer}
  consumer = consumer
  producer = producer
  Programs <- MCPrograms
  NoClient = NoClient
  MsgId = {"m1", "m2"}
  Body <- MCBody
  Num = 1
  AckStatus = {0, 1}
  Delay = {3}
  ProduceBody = {"text", "", "bytes"}
  Newer <- MCNewer
INVARIANTS TypeOK ReferencedOnce NextWaits RequestIntact UnreadableNotAcked
PROPERTIES RpcEnds
CHECK_DEADLOCK FALSE
