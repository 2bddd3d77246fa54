SPECIFICATION Spec
CONSTANTS
  Requests = {r1, r2}
  MaxTokens = 3
  Configurations <- LogoutConfigurations
SYMMETRY Symmetry
INVARIANT LogoutRemovesSession
