SPECIFICATION Spec
CONSTANTS
  MsgId = {m1}
  Key = {k1}
  Unit = {u1, u2}
  Consuming = {k1}
  HandlerJob = {"CONSUME_SUCCESS", "cancel"}
  Matcher = matcher
  Handler = handler
  NoKey = NoKey
  NoUnit = NoUnit
  NoMsg = NoMsg
INVARIANTS TypeOK ErasesOwnUnit RegisteredRuns NotificationKept
SYMMETRY MCSymmetry
CHECK_DEADLOCK FALSE
