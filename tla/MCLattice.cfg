SPECIFICATION TrainerSpec
CONSTANTS
  Homographs = 2
  Stage1 <- MCStage1
  Stage2 <- MCStage2
  Chunking <- MCChunking
  Inputs <- MCInputs
  Followers <- MCFollowers
  Corpus <- MCCorpus
  WordChoices <- MCWordChoices
INVARIANTS
  SeedsOfEveryWord
  PreparedIffCovered
  BoundariesHoldTheSeeds
  GoldPathIsTheExample
  GoldFixesConnectability
