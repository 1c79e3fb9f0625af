SPECIFICATION Spec
CONSTANTS
  RawFeatures <- MCRawFeatures
  NumFeatures = 4
  Lengths = {2}
INVARIANT
  PositiveIsGold
