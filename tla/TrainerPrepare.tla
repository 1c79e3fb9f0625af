---------------------------- MODULE TrainerPrepare ----------------------------
(***************************************************************************)
(* Trainer::prepare (core/training/trainer.cc) with ensureNodes and        *)
(* nodeSeedExists (core/training/gold_example.h, gold_example.cc): the     *)
(* lattice of a training example, in which every word of the annotation is *)
(* a node, found among the seeds or added to them.  Sentences without an   *)
(* annotation are analysed as Analyzer::analyze does it.                   *)
(*                                                                         *)
(* A word of the annotation is abstracted to its span and the entries that *)
(* agree with it: regular ones (the same dictionary data, or a regular     *)
(* unknown word), else unknown-word patterns the specification allows.     *)
(***************************************************************************)
EXTENDS Analysis

CONSTANTS WordChoices,  \* the possible [regular, allowed] of a word
          Corpus        \* the sentences that may be annotated first

ASSUME TrainerConstants ==
  /\ \A inp \in Corpus : inp.n > 0
  /\ \A word \in WordChoices : \A e \in word.regular \cup word.allowed : e.kind \in {"dic", "unk"}

VARIABLES example,    \* example_; empty in an analysis
          goldPath    \* GoldenPath::goldPath

trainerVars == <<vars, example, goldPath>>

Gold(i) == [kind |-> "gold", id |-> i]

\* Where m words meet that cover n characters
Cuts(m, n) ==
  {cuts \in [0 .. m -> 0 .. n] : /\ cuts[0] = 0
                                 /\ cuts[m] = n
                                 /\ \A k \in 1 .. m : cuts[k - 1] < cuts[k]}

\* The examples of a sentence of n characters: words from 0 to n, end to end
Examples(n) ==
  UNION {{[k \in 1 .. m |-> [start |-> cuts[k - 1], end |-> cuts[k], word |-> words[k]]]
           : cuts \in Cuts(m, n), words \in [1 .. m -> WordChoices]} : m \in 1 .. n}

TrainerInit ==
  /\ Init
  /\ example \in {<<>>} \cup (IF input \in Corpus THEN Examples(input.n) ELSE {})
  /\ goldPath = <<>>

Annotated == example # <<>>

\* The functions of the analyzer that analyze and prepare call
AnalyzerStep ==
  /\ PrepareNodeSeeds \/ BuildLattice \/ InputTooLong \/ (SeedsPrepared /\ ~Annotated)
  /\ UNCHANGED <<example, goldPath>>

TrainerReset ==
  /\ ResetForInput
  /\ goldPath' = <<>>
  /\ UNCHANGED example

\* prepareNodeSeeds failed: the boundary descriptions are needed all the same.
SortDiscontinuous ==
  /\ pc = "discontinuous" /\ Annotated
  /\ seeds' = Sorted(seeds)
  /\ boundaries' = BoundaryInfo(seeds')
  /\ Goto("discPrepared")
  /\ UNCHANGED <<input, connectible, maxBoundaries, lattice, example, goldPath>>

\* Mutation of Matching: the span of the seed is not compared.
MatchingAnySpan(word, entries) ==
  LET slice == Slice(seeds, boundaries[word.start])
  IN {i \in DOMAIN slice : slice[i].entry \in entries}

\* The nodes at the start of a word that agree with it, by position from 1
Matching(word, entries) ==
  LET slice == Slice(seeds, boundaries[word.start])
  IN {i \in DOMAIN slice : slice[i].entry \in entries /\ slice[i].end = word.end}

\* The index, from 0, of the first of some positions
First(S) == (CHOOSE i \in S : \A j \in S : i <= j) - 1

\* Mutation of NodeSeedExists: the second pass is missing.
NodeSeedExistsRegularOnly(word) ==
  LET regular == Matching(word, word.word.regular)
  IN IF regular # {} THEN First(regular) ELSE -1

\* nodeSeedExists: the first regular node, else the first allowed one, else -1
NodeSeedExists(word) ==
  LET regular == Matching(word, word.word.regular)
      allowed == Matching(word, word.word.allowed)
  IN IF regular # {} THEN First(regular) ELSE IF allowed # {} THEN First(allowed) ELSE -1

\* ensureNodes: a word without a node becomes the last one at its boundary
\* once the seeds are sorted again.
EnsureNodes ==
  /\ pc \in {"prepared", "discPrepared"} /\ Annotated
  /\ LET found == [i \in DOMAIN example |-> NodeSeedExists(example[i])]
         missing == InOrder({i \in DOMAIN example : found[i] = -1})
     IN /\ goldPath' = [i \in DOMAIN example |->
                          Ptr(example[i].start + 2,
                              IF found[i] = -1 THEN boundaries[example[i].start].startCount
                              ELSE found[i])]
        /\ seeds' = seeds \o [k \in DOMAIN missing |->
                                Seed(Gold(missing[k]), example[missing[k]].start,
                                     example[missing[k]].end)]
        /\ Goto(IF missing # <<>> THEN "recheck"
                ELSE IF pc = "prepared" THEN "build" ELSE "failed")
  /\ UNCHANGED <<input, boundaries, connectible, maxBoundaries, lattice, example>>

CheckGold ==
  /\ pc = "recheck"
  /\ CheckConnectability
  /\ Goto(IF Connected(connectible') THEN "reprepare" ELSE "failed")
  /\ UNCHANGED <<input, boundaries, maxBoundaries, lattice, example, goldPath>>

PrepareAgain ==
  /\ pc = "reprepare"
  /\ PrepareBoundaries
  /\ Goto("build")
  /\ UNCHANGED <<example, goldPath>>

NextExample ==
  /\ NextSentence
  /\ IF Annotated THEN input'.n > 0 /\ example' \in Examples(input'.n) ELSE UNCHANGED example
  /\ UNCHANGED goldPath

TrainerNext ==
  \/ TrainerReset \/ AnalyzerStep \/ SortDiscontinuous \/ EnsureNodes
  \/ CheckGold \/ PrepareAgain \/ NextExample

TrainerSpec == TrainerInit /\ [][TrainerNext]_trainerVars

-------------------------------------------------------------------------------
\* The node that was added for a word has no other of its span beside it that
\* agrees with the word.
GoldOnlyIfMissing ==
  \A i \in DOMAIN seeds : seeds[i].entry.kind = "gold" =>
    LET word == example[seeds[i].entry.id].word
    IN \A j \in DOMAIN seeds : seeds[j].start = seeds[i].start /\ seeds[j].end = seeds[i].end =>
         seeds[j].entry \notin word.regular \cup word.allowed

\* The path of the annotation leads, word by word, to nodes of the same span
\* that agree with the word, also after seeds were added and sorted again, and
\* a node is added only for a word that no node agrees with.
GoldPathIsTheExample ==
  pc = "built" =>
    /\ Len(goldPath) = Len(example)
    /\ \A i \in DOMAIN example :
         LET node == NodeAt(goldPath[i])
         IN /\ node.start = example[i].start
            /\ node.end = example[i].end
            /\ node.entry \in example[i].word.regular \cup example[i].word.allowed \cup {Gold(i)}
    /\ GoldOnlyIfMissing

\* "That should have fixed any connectability errors": whatever the makers
\* found, an example that is not too long gets its lattice.
GoldFixesConnectability == Annotated => pc # "failed"
===============================================================================
