SPECIFICATION ScoringSpec
CONSTANTS
  Jobs <- TrainingJobs
  FeatureWeight = 1
  ExtraWeight = 2
  Scores = {0, 1}
  FieldWeights <- MCFieldWeights
  Modes = {"MaxViolation"}
  BlockSize = 2
  Unit = 27720
INVARIANT
  LossHasFeatures
