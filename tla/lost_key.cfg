SPECIFICATION Spec
CONSTANTS
  MsgId = {m1}
  Key = {k1, k2}
  Unit = {u1, u2}
  Consuming = {k1, k2}
  HandlerJob = {}
  Matcher = matcher
  Handler = handler
  NoKey = NoKey
  NoUnit = NoUnit
  NoMsg = NoMsg
INVARIANTS NotificationKept
SYMMETRY MCSymmetry
CHECK_DEADLOCK FALSE
