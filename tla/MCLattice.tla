------------------------------ MODULE MCLattice ------------------------------
(***************************************************************************)
(* Instances of TrainerPrepare for TLC: sentences of up to three           *)
(* characters with every dictionary and every assignment of characters to  *)
(* the classes of two makers, and training examples over them with every   *)
(* segmentation and every way in which a word may be known; afterwards     *)
(* short ones, on the same analyzer.                                       *)
(***************************************************************************)
EXTENDS TrainerPrepare

Sentences(n, statuses) ==
  [n : {n},
   trie : {t \in [{s \in (0 .. n) \X (0 .. n) : s[1] < s[2]} -> statuses] : IsTrie(n, t)},
   class : [Makers -> SUBSET (0 .. n - 1)]]

All == {"Ok", "NoLeaf", "NoNode"}

MCStage1 == <<"katakana">>
MCStage2 == <<"single">>
MCChunking == {"katakana"}
MCInputs == UNION {Sentences(n, All) : n \in 0 .. 3}
MCFollowers == Sentences(0, All) \cup Sentences(1, All)
MCCorpus ==
  Sentences(1, {"Ok", "NoNode"}) \cup Sentences(2, {"Ok", "NoNode"})
    \cup {inp \in Sentences(3, {"Ok", "NoNode"}) : inp.class["single"] \in {{}, {1}, 0 .. 2}}

\* A word known as the second homograph, an unknown one of a regular kind or
\* else of an allowed one, and one that nothing agrees with
MCWordChoices == {[regular |-> {Dic(2)}, allowed |-> {}],
                  [regular |-> {Unk("single")}, allowed |-> {Unk("katakana")}],
                  [regular |-> {}, allowed |-> {}]}
===============================================================================
