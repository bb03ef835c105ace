SPECIFICATION Spec
CONSTANTS
  Obj = {o1, o2, o3}
  Id <- FourIds
  localId <- LocalLow
  Base = 4
  Decoded <- UpperReplaced
  K = 1
  GoodnessTimeout = 0
  SilenceBeforeBad = 1
  Boot = 1
  SavedTime <- OnlyNull
  None = None
  MaxTime = 2
  MaxFailed = 1
  MaxOverlap = 1
SYMMETRY Symmetry
INVARIANTS PlacedInRange
CHECK_DEADLOCK FALSE
