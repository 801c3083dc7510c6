SPECIFICATION Spec
CONSTANTS
  MsgId = {m1}
  Key = {k1}
  Unit = {u1}
  Consuming = {k1}
  HandlerJob = {}
  Matcher = matcher
  Handler = handler
  NoKey = NoKey
  NoUnit = NoUnit
  NoMsg = NoMsg
INVARIANTS UnlockedNotConsumed
CHECK_DEADLOCK FALSE
