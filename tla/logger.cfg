SPECIFICATION FairSpec
CONSTANTS
  Records = 5
  max = 2
  esErrorMax = 2
  Opened = {TRUE, FALSE}
INVARIANTS TypeOK RecordsAccounted
PROPERTIES RecordsLeave
CHECK_DEADLOCK FALSE
