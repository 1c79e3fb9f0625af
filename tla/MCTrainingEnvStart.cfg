SPECIFICATION FairSpec
CONSTANTS
  w1 = w1
  w2 = w2
  Null = Null
  Worker <- MCWorker
  Trainer <- AnyTrainer
  StartMayFail = TRUE
  CloseLimit = 0
  BatchSize = 1
  NumPartial = 0
  NumExamples = 1
  LastTerminated = TRUE
  BatchMaxIterations = 2
  MaxEpochs = 2
  MayFail = TRUE
PROPERTY StartFailureIsReported
CHECK_DEADLOCK FALSE
