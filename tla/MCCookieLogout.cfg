SPECIFICATION Spec
CONSTANTS
  Requests = {r1, r2}
  MaxTickets = 2
  Sizes = {1, 2}
SYMMETRY Symmetry
PROPERTY LogoutClearsSession
