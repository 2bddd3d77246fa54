SPECIFICATION Spec
CONSTANTS
  Requests = {r1, r2}
  MaxTokens = 2
  Configurations <- IntrospectionConfigurations
SYMMETRY Symmetry
INVARIANT EveryRequestIsAnswered
