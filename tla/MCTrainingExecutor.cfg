SPECIFICATION FairExecSpec
CONSTANTS
  w1 = w1
  w2 = w2
  t1 = t1
  t2 = t2
  t3 = t3
  t4 = t4
  t5 = t5
  Null = Null
  Worker <- MCWorker
  Trainer <- MCManyTrainers
  StartMayFail = TRUE
  CloseLimit = 2
INVARIANT OneHolder
PROPERTIES ImplementsTaskPool ShutdownEnds
CHECK_DEADLOCK FALSE
