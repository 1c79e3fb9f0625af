SPECIFICATION ScoringSpec
CONSTANTS
  Jobs <- MCJobs
  FeatureWeight = 1
  ExtraWeight = 2
  Scores = {0, 1}
  FieldWeights <- MCFieldWeights
  Modes = {"Full", "FalloffBeam", "MaxViolation"}
  BlockSize = 2
  Unit = 27720
INVARIANTS
  NoNodeLost
  BeamsHoldScoredPaths
  BeamsHoldBestPaths
  ExtraScoresApplied
  ResultHasTopScore
  EveryWordComparedOnce
  ViolationsCompareSamePlace
  LossMeasuresDifference
  GoldInBeamIsSeen
  FeaturesOfOwnPath
  AnnotationDecides
  ConstraintsHonoured
  GoodCandidatesAreAllowed
  UpdateMatchesLoss
PROPERTY
  ImplementsBestPath
