SPECIFICATION TrackerSpec
CONSTANTS
  Target = {t1, t2}
  Address = {a1, a2}
  Port = {p1}
  Secret = {s1, s2}
  MaxEntries = 1
  Ttl = 1
  MaxTime = 4
  None = None
SYMMETRY Symmetry
INVARIANTS TrackerTypeOK PeersAreRecent
PROPERTIES ImplementsPeerSets
CHECK_DEADLOCK FALSE
