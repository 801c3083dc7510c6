SPECIFICATION FairSpec
CONSTANTS
  MsgId = {m1}
  Key = {k1}
  Unit = {u1, u2}
  Consuming = {k1}
  HandlerJob = {}
  Matcher = matcher
  Handler = handler
  NoKey = NoKey
  NoUnit = NoUnit
  NoMsg = NoMsg
PROPERTIES ShutdownCompletes RequestAnswered
CHECK_DEADLOCK FALSE
