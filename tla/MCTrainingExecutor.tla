------------------------- MODULE MCTrainingExecutor -------------------------
(***************************************************************************)
(* Instance of TrainingExecutor for TLC: two workers, and more trainers   *)
(* than the queues have room for.                                          *)
(***************************************************************************)
EXTENDS TrainingExecutor

CONSTANTS w1, w2, t1, t2, t3, t4, t5

MCWorker == {w1, w2}
MCManyTrainers == {t1, t2, t3, t4, t5}
=============================================================================
