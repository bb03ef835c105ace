SPECIFICATION Spec
CONSTANTS
  Obj = {o1, o2, o3, o4}
  Id <- WithBound
  localId <- LocalZero
  Base = 3
  Decoded <- UpperReplaced
  K = 1
  GoodnessTimeout = 0
  SilenceBeforeBad = 1
  Boot = 1
  SavedTime <- OnlyNull
  None = None
  MaxTime = 1
  MaxFailed = 1
  MaxOverlap = 2
SYMMETRY Symmetry
INVARIANTS TypeOK Capacity CapturedBucketStillFullLeaf DisposedStaysEmpty PlacedInTextRange LowPlacedInRange
PROPERTIES ImplementsContacts
CHECK_DEADLOCK FALSE
