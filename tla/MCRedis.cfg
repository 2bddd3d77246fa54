SPECIFICATION FairSpec
CONSTANTS
  Callers = {c1, c2}
  Keys = {k1, k2}
  Pools = {p1, p2}
  Conns = {d1, d2}
  None = None
  MaxPools = 1
  MaxConnections = 1
  MaxIdle = 1
  MaxCalls = 3
INVARIANTS
  TypeOK ConnectionLimit SlotsAreOwned NoCrossTalk ConnectionsAreOwned InUseIsExact
PROPERTY EveryCallReturns
