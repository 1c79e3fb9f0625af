---------------------------- MODULE MCTrainingEnv ----------------------------
(***************************************************************************)
(* Instances of TrainingEnv for TLC.                                       *)
(***************************************************************************)
EXTENDS TrainingEnv

CONSTANTS w1, w2

MCWorker == {w1, w2}
==============================================================================
