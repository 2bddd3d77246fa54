SPECIFICATION Spec
CONSTANTS
  Requests = {r1, r2}
  k1 = k1
  k2 = k2
  e1 = e1
  RsaKids = {k1, k2}
  EcdsaKids = {e1}
  OtherKid = OtherKid
  NoOne = NoOne
  MinCache = 0
  MaxCache = 1
  Latency = 1
  MaxTime = 3
  KeySets <- SomeKeySets
  Tokens <- SomeTokens
SYMMETRY Symmetry
INVARIANTS TypeOK SettledTokensAreAccepted WithdrawnKeysAreRefused
PROPERTIES LoadsAreSpaced DiscoveryIsFinal
