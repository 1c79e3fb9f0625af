------------------------------- MODULE Scoring -------------------------------
(***************************************************************************)
(* The three users of a scored lattice: ordinary or partially annotated    *)
(* input (the analyser of jumanpp.cc), Trainer::compute                    *)
(* (core/training/trainer.cc), which compares the best path with a fully   *)
(* annotated one, and PartialTrainer::compute (partial_trainer.cc).  Both  *)
(* trainers read the beams and the best path when the analysis is over.    *)
(***************************************************************************)
EXTENDS Comparison, PartialTrainer

allVars == <<vars, lossVars, partialVars>>

\* The trainers score with the weights they learn, those of the features: there
\* is no additional scorer then (SoftConfidenceWeighted::scorers).
ASSUME ScoringUsers ==
  \A j \in Jobs : \A p \in j.problems :
    /\ p.user \in {"analysis", "partialInput", "fullTraining", "partialTraining"}
    /\ p.user \in {"fullTraining", "partialTraining"} => \A c \in j.configs : ~c.extra

ScoringInit == Init /\ CompareInit /\ PartialInit

Analyse ==
  /\ ScoreFull \/ ScoreGlobal \/ SkipBoundary \/ AdjustBoundary \/ RemakeEosBeam \/ FillIn
  /\ UNCHANGED <<lossVars, partialVars>>

Compare == CompareStep /\ UNCHANGED <<vars, partialVars>>

Correct == lat.user = "partialTraining" /\ PartialStep /\ UNCHANGED <<vars, lossVars>>

Finished ==
  /\ pc = "done"
  /\ lat.user = "fullTraining" => loss # -1
  /\ lat.user = "partialTraining" => stage = "finished"
  /\ UNCHANGED allVars

ScoringNext == Analyse \/ Compare \/ Correct \/ Finished

ScoringSpec == ScoringInit /\ [][ScoringNext]_allVars
===============================================================================
