SPECIFICATION FairSpec
CONSTANTS
  Call = {c1, c2, c3}
  Tid = {t1, t2}
  HasTimeout = TRUE
  None = None
INVARIANTS TypeOK TimerOwnsEntry NoLostPromise NoLeakedEntry
PROPERTIES OneNoticePerQuery KeepsContract QuerySettles EntriesAreFreed
CHECK_DEADLOCK FALSE
