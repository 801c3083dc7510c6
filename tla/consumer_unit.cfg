SPECIFICATION Spec
CONSTANTS
  MsgId = {m1, m2}
  Thread = {t1}
  Matcher = matcher
  Handler = handler
  NoThread = NoThread
  NoMsg = NoMsg
  Batches <- MCBatches
INVARIANTS TypeOK NoSilentLoss SettledBeforeReturn NoLostNotify
SYMMETRY MCSymmetry
