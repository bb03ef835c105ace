SPECIFICATION Spec
CONSTANTS
  Obj = {o1, o2, o3}
  Id <- WithAbove
  localId <- LocalZero
  Base = 3
  Decoded <- UpperReplaced
  K = 2
  GoodnessTimeout = 0
  SilenceBeforeBad = 1
  Boot = 1
  SavedTime <- NullOrBoot
  None = None
  MaxTime = 2
  MaxFailed = 1
  MaxOverlap = 1
SYMMETRY Symmetry
INVARIANTS PlacedInTextRange MapMatchesBuckets
PROPERTIES OnlyUnresponsiveEvicted InsertionAdvances
CHECK_DEADLOCK FALSE
