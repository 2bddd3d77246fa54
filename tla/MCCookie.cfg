SPECIFICATION Spec
CONSTANTS
  Requests = {r1, r2, r3}
  MaxTickets = 3
  Sizes = {1, 2, 3}
SYMMETRY Symmetry
INVARIANTS TypeOK NeverTorn PresentsLatest
