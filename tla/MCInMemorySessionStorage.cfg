SPECIFICATION Spec
CONSTANTS
  Callers = {c1, c2, c3}
  Ids = {i1, i2}
  States = {s1, s2}
  NoSession = NoSession
  Idle = Idle
  MaxAge = 1
  MaxTime = 2
SYMMETRY Symmetry
INVARIANT TypeOK
PROPERTIES ImplementsSessionStore LiveEntriesStay
