SPECIFICATION DHTSpec
CONSTANTS
  Obj = {o1, o2, o3}
  Id <- ThreeIds
  localId <- LocalAbove
  Base = 3
  Decoded <- UpperReplaced
  K = 1
  GoodnessTimeout = 0
  SilenceBeforeBad = 1
  Boot = 1
  SavedTime <- OnlyNull
  None = None
  MaxTime = 1
  MaxFailed = 1
  MaxOverlap = 2
SYMMETRY Symmetry
PROPERTIES AnsweringContactKept
CHECK_DEADLOCK FALSE
