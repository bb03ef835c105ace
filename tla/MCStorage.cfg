SPECIFICATION Spec
CONSTANTS
  Node = {n1, n2}
  Key = {k1}
  Salt = {x1}
  Seq <- ZeroOne
  Val = {v1, v2}
  Secret = {s1, s2}
  MaxEntries = 1
  Ttl = 0
  MaxTime = 2
  MaxPuts = 2
  None = None
SYMMETRY Symmetry
CONSTRAINTS NoneReturned OneBusy
INVARIANTS TypeOK StoredWasPut ResultWasPut  StoredIsFound
PROPERTIES ImplementsLastPut
CHECK_DEADLOCK FALSE
