SPECIFICATION Spec
CONSTANTS
  RawFeatures <- MCRawFeatures
  NumFeatures = 4
  Lengths = {0, 1, 2, 3}
INVARIANTS
  OneEntryPerFeature
  ScoresAreDifferences
  BalancedUpdate
