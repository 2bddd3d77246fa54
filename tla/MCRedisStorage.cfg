SPECIFICATION StorageSpec
CONSTANTS
  Callers = {c1, c2}
  Keys = {k1}
  Pools = {p1}
  Conns = {d1, d2}
  None = None
  Ids = {s1}
  MaxPools = 1
  MaxConnections = 2
  MaxIdle = 2
  MaxCalls = 3
SYMMETRY Symmetry
INVARIANTS
  StorageTypeOK DeletedStaysDeleted FoundIsCurrent StoredIsFound
