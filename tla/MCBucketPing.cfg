SPECIFICATION InOrderSpec
CONSTANTS
  Obj <- FourInOrder
  Id <- ThreeIds
  localId <- LocalAbove
  Base = 3
  Decoded <- UpperReplaced
  K = 2
  GoodnessTimeout = 0
  SilenceBeforeBad = 1
  Boot = 1
  SavedTime <- OnlyNull
  None = None
  MaxTime = 2
  MaxFailed = 1
  MaxOverlap = 2
INVARIANTS DHTTypeOK NoLostPing
PROPERTIES InsertionSettles
CHECK_DEADLOCK FALSE
