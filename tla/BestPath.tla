------------------------------- MODULE BestPath -------------------------------
(***************************************************************************)
(* What an analysis promises (Analyzer::analyze and                        *)
(* AnalysisResult::fillTop1): one of the segmentations of the sentence     *)
(* and, when nothing has to be pruned, one with the best score.            *)
(***************************************************************************)
EXTENDS Integers, Sequences

VARIABLES sentence,   \* its segmentations, their scores, whether the beams
                      \* are wide enough to promise the best
          result      \* the segmentation chosen, as a sequence of one, or none

vars == <<sentence, result>>

BestOf(s) == {w \in s.ways : \A x \in s.ways : s.score[w] >= s.score[x]}

Init == result = <<>>

Choose ==
  /\ result = <<>>
  /\ \E w \in IF sentence.exact THEN BestOf(sentence) ELSE sentence.ways : result' = <<w>>
  /\ UNCHANGED sentence

Spec == Init /\ [][Choose]_vars
===============================================================================
