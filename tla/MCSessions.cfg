SPECIFICATION Spec
CONSTANTS
  Requests = {r1, r2}
  MaxTokens = 3
  Configurations <- SessionConfigurations
SYMMETRY Symmetry
INVARIANTS
  TypeOK RefreshTokenIsKept CleanLogoutIsFinal ForwardedIsEntitled
PROPERTIES StaysLoggedIn SessionsNeverRollBack
