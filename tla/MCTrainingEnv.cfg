SPECIFICATION FairSpec
CONSTANTS
  w1 = w1
  w2 = w2
  Null = Null
  Worker <- MCWorker
  Trainer <- AnyTrainer
  StartMayFail = FALSE
  CloseLimit = 0
  BatchSize = 3
  NumPartial = 1
  NumExamples = 4
  LastTerminated = TRUE
  BatchMaxIterations = 2
  MaxEpochs = 2
  MayFail = TRUE
INVARIANTS MainTouchesOnlyItsOwn BatchEndsQuiescent OneUpdatePerIteration EveryExampleLearnt
PROPERTY TrainingEnds
