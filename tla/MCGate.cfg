SPECIFICATION Spec
CONSTANTS
  Names = {"n", "m"}
  Values = {"x", "y", "z"}
  Words = {"v", "w", "p", "http", "https"}
  Families <- MCFamilies
INVARIANTS
  TypeOK
  VerdictMeetsAssertions
  RuleMeansWhatItSays
  ForwardedIsAllowed
  EntitledIsForwarded
  TargetsAreRegistered
  RegisteredIsFollowed
