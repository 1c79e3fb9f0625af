------------------------------- MODULE Analysis -------------------------------
(***************************************************************************)
(* From a sentence to its lattice: the functions of AnalyzerImpl that      *)
(* Analyzer::analyze calls one after the other (core/analysis/analyzer.cc, *)
(* analyzer_impl.cc) and the makers of node seeds they call                *)
(* (dictionary_node_creator.cc, unk_nodes_creator.cc).                     *)
(*                                                                         *)
(* A sentence is abstracted to what the makers see of it: its length, the  *)
(* dictionary's answer for each of its substrings, and the positions whose *)
(* character is of a maker's class.                                        *)
(***************************************************************************)
EXTENDS LatticeBuilder

CONSTANTS Stage1, Stage2,  \* unknown-word makers, sequences of names
          Chunking,        \* the makers that join characters of their class
          Homographs,      \* number of entries of a dictionary word
          Inputs,          \* the sentences that may be analysed first
          Followers        \* the sentences that may be analysed after another

Makers == ToSet(Stage1 \o Stage2)

\* Traversing a trie never finds anything again once it left the trie.
IsTrie(n, trie) ==
  /\ trie \in [{s \in (0 .. n) \X (0 .. n) : s[1] < s[2]} -> {"Ok", "NoLeaf", "NoNode"}]
  /\ \A s \in DOMAIN trie : trie[s] = "NoNode" /\ s[2] < n => trie[<<s[1], s[2] + 1>>] = "NoNode"

\* A maker is an object of its own and belongs to one stage (UnkMakers).
ASSUME AnalysisConstants ==
  /\ Stage1 \in Seq(Makers) /\ Stage2 \in Seq(Makers)
  /\ IsInjective(Stage1 \o Stage2)
  /\ Chunking \subseteq Makers
  /\ Homographs \in Nat \ {0}
  /\ \A inp \in Inputs \cup Followers :
       /\ inp.n \in Nat
       /\ IsTrie(inp.n, inp.trie)
       /\ inp.class \in [Makers -> SUBSET (0 .. inp.n - 1)]

VARIABLES pc,     \* the function that runs next
          input   \* input_

vars == <<pc, input, builderVars>>

Goto(label) == pc' = label

Dic(k) == [kind |-> "dic", id |-> k]
Unk(m) == [kind |-> "unk", id |-> m]

Status(i, j) == input.trie[<<i, j>>]

(* The makers, as the sequences of seeds they append.  AllSpans are the    *)
(* substrings in the order in which the loops over start and end meet them.*)

AllSpans ==
  FlattenSeq([i \in 1 .. input.n |-> [k \in 1 .. input.n - i + 1 |-> <<i - 1, i - 1 + k>>]])

InClass(m, s) == \A p \in s[1] .. s[2] - 1 : p \in input.class[m]

\* The traversal from the start of a span got as far as its last character.
Traversed(s) == \A j \in s[1] + 1 .. s[2] - 1 : Status(s[1], j) # "NoNode"
WordFound(s) == Traversed(s) /\ Status(s[1], s[2]) = "Ok"

\* Mutation of DicSeeds: the traversal goes on only behind a whole word.
DicSeedsStopEarly ==
  FlattenSeq([k \in DOMAIN AllSpans |->
    LET s == AllSpans[k]
    IN IF \A j \in s[1] + 1 .. s[2] : Status(s[1], j) = "Ok"
       THEN [h \in 1 .. Homographs |-> Seed(Dic(h), s[1], s[2])] ELSE <<>>])

\* DictionaryNodeCreator: every entry of every word
DicSeeds ==
  FlattenSeq([k \in DOMAIN AllSpans |->
    LET s == AllSpans[k]
    IN IF WordFound(s) THEN [h \in 1 .. Homographs |-> Seed(Dic(h), s[1], s[2])] ELSE <<>>])

UnkSeeds(m, spans) == [k \in DOMAIN spans |-> Seed(Unk(m), spans[k][1], spans[k][2])]

\* Mutation of ChunkSeeds: known words are taken for unknown ones too.
ChunkSeedsWithWords(m) == UnkSeeds(m, Where(AllSpans, LAMBDA s : InClass(m, s)))

\* ChunkingUnkMaker: every run of characters of the class, words left out
ChunkSeeds(m) ==
  UnkSeeds(m, Where(AllSpans, LAMBDA s : InClass(m, s) /\ ~WordFound(s)))

\* Mutation of SingleSeeds: a character that begins a word is left out.
SingleSeedsNoPrefix(m) ==
  UnkSeeds(m, Where(AllSpans, LAMBDA s : /\ s[2] = s[1] + 1
                                             /\ InClass(m, s)
                                             /\ Status(s[1], s[2]) = "NoNode"))

\* SingleUnkMaker: every character of the class that is not itself a word
SingleSeeds(m) ==
  UnkSeeds(m, Where(AllSpans, LAMBDA s : /\ s[2] = s[1] + 1
                                             /\ InClass(m, s)
                                             /\ Status(s[1], s[2]) # "Ok"))

MakerSeeds(m) == IF m \in Chunking THEN ChunkSeeds(m) ELSE SingleSeeds(m)
StageSeeds(stage) == FlattenSeq([k \in DOMAIN stage |-> MakerSeeds(stage[k])])

-------------------------------------------------------------------------------

Init ==
  /\ BuilderInit
  /\ input \in Inputs
  /\ pc = "reset"

\* resetForInput, for a sentence that is not too long
ResetForInput ==
  /\ pc = "reset"
  /\ lattice' = <<>>
  /\ BuilderReset(input.n)
  /\ Goto("dic")
  /\ UNCHANGED <<input, connectible>>

\* Mutation of InputTooLong: the length is looked at before the reset.
InputTooLongNoReset ==
  /\ pc = "reset"
  /\ Goto("rejected")
  /\ UNCHANGED <<input, builderVars>>

\* resetForInput, for a sentence over the limit: the lattice is gone, the
\* builder keeps what it had.
InputTooLong ==
  /\ pc = "reset"
  /\ lattice' = <<>>
  /\ Goto("rejected")
  /\ UNCHANGED <<input, seeds, boundaries, connectible, maxBoundaries>>

\* The steps of prepareNodeSeeds
AppendSeeds(new) ==
  /\ seeds' = seeds \o new
  /\ UNCHANGED <<input, boundaries, connectible, maxBoundaries, lattice>>

MakeNodeSeedsFromDic ==
  /\ pc = "dic"
  /\ AppendSeeds(DicSeeds)
  /\ Goto("unk1")

MakeUnkNodes1 ==
  /\ pc = "unk1"
  /\ AppendSeeds(StageSeeds(Stage1))
  /\ Goto("check1")

Check1 ==
  /\ pc = "check1"
  /\ CheckConnectability
  /\ Goto(IF Connected(connectible') THEN "prepare" ELSE "unk2")
  /\ UNCHANGED <<input, boundaries, maxBoundaries, lattice>>

MakeUnkNodes2 ==
  /\ pc = "unk2"
  /\ AppendSeeds(StageSeeds(Stage2))
  /\ Goto("check2")

Check2 ==
  /\ pc = "check2"
  /\ CheckConnectability
  /\ Goto(IF Connected(connectible') THEN "prepare" ELSE "discontinuous")
  /\ UNCHANGED <<input, boundaries, maxBoundaries, lattice>>

PrepareBoundaries ==
  /\ boundaries' = BoundaryInfo(seeds)
  /\ UNCHANGED <<input, seeds, connectible, maxBoundaries, lattice>>

Prepare ==
  /\ pc = "prepare"
  /\ PrepareBoundaries
  /\ Goto("prepared")

PrepareNodeSeeds ==
  MakeNodeSeedsFromDic \/ MakeUnkNodes1 \/ Check1 \/ MakeUnkNodes2 \/ Check2 \/ Prepare

\* The steps of buildLattice
BuildBos ==
  /\ pc = "build"
  /\ MakeBos
  /\ Goto("boundaries")
  /\ UNCHANGED <<input, seeds, boundaries, connectible, maxBoundaries>>

BuildBoundary ==
  /\ pc = "boundaries"
  /\ Len(lattice) - 2 < input.n
  /\ ConstructSingleBoundary(Len(lattice) - 2)
  /\ UNCHANGED <<pc, input, seeds, boundaries, maxBoundaries>>

BuildEos ==
  /\ pc = "boundaries"
  /\ Len(lattice) - 2 = input.n
  /\ MakeEos
  /\ Goto("ends")
  /\ UNCHANGED <<input, seeds, boundaries, connectible, maxBoundaries>>

BuildEnds ==
  /\ pc = "ends"
  /\ FillEnds
  /\ Goto("built")
  /\ UNCHANGED <<input, seeds, boundaries, connectible, maxBoundaries>>

BuildLattice == BuildBos \/ BuildBoundary \/ BuildEos \/ BuildEnds

\* Analyzer::analyze goes on after prepareNodeSeeds only if it succeeded.
SeedsPrepared ==
  /\ pc \in {"prepared", "discontinuous"}
  /\ Goto(IF pc = "prepared" THEN "build" ELSE "failed")
  /\ UNCHANGED <<input, builderVars>>

\* The next sentence: the analyzer is used again, whatever became of the last.
NextSentence ==
  /\ pc \in {"built", "failed", "rejected"}
  /\ input' \in Followers
  /\ Goto("reset")
  /\ UNCHANGED builderVars

Next ==
  \/ ResetForInput \/ InputTooLong \/ PrepareNodeSeeds \/ SeedsPrepared
  \/ BuildLattice \/ NextSentence

Spec == Init /\ [][Next]_vars

-------------------------------------------------------------------------------

Clean == pc \notin {"reset", "failed", "rejected"}

\* The boundaries of the sentence that some chain of seeds leads to: the
\* definition checkConnectability has to agree with.
Reached ==
  LET from[k \in 0 .. input.n] ==
        IF k = 0 THEN {0}
        ELSE from[k - 1] \cup {sd.end : sd \in {x \in ToSet(seeds) : x.start \in from[k - 1]}}
  IN from[input.n]

\* Does each character have the class of some maker of stage 2?
FallbackApplies ==
  \A p \in 0 .. input.n - 1 : \E k \in DOMAIN Stage2 : p \in input.class[Stage2[k]]

\* prepareNodeSeeds succeeds exactly if some sequence of seeds covers the
\* whole sentence (checkConnectability's single pass finds it), and, whatever
\* the dictionary holds and whatever stage 1 made, it does if all the
\* characters are of the class of some maker of stage 2.
PreparedIffCovered ==
  /\ pc \in {"prepare", "prepared", "build", "boundaries", "ends", "built"} => input.n \in Reached
  /\ pc \in {"unk2", "discontinuous"} => input.n \notin Reached
  /\ FallbackApplies => pc # "discontinuous"

UnknownWordsAreUnknown ==
  \A i \in DOMAIN seeds : seeds[i].entry.kind = "unk" =>
    /\ Status(seeds[i].start, seeds[i].end) # "Ok"
    /\ \A j \in DOMAIN seeds : seeds[j] = seeds[i] => j = i

AllWordsAreCandidates ==
  \A s \in DOMAIN input.trie : input.trie[s] = "Ok" =>
    \A h \in 1 .. Homographs : Seed(Dic(h), s[1], s[2]) \in ToSet(seeds)

\* Every word of the sentence is a candidate, with all of its entries, and
\* unknown-word nodes of the two kinds of makers modelled never compete with the
\* dictionary: none spans exactly a word of it, and no span is made twice.
SeedsOfEveryWord ==
  /\ Clean => UnknownWordsAreUnknown
  /\ Clean /\ pc # "dic" => AllWordsAreCandidates

\* When the lattice is built, boundary b + 2 starts exactly the seeds that
\* start at b, each once, and the last one starts EOS only.
StartsAreTheSeeds ==
  pc = "built" =>
    /\ Len(lattice) = input.n + 3
    /\ \A b \in 0 .. input.n - 1 : Boundary(b + 2).starts = StartingAt(seeds, b)
    /\ Boundary(input.n + 2).starts = <<Eos(input.n)>>

\* The assertion of computeScoresFull that all endings are filled, and what
\* it is for: at every boundary there is room for exactly the nodes that end
\* there, and exactly those were entered, each once, BOS at the first.
EndsAreTheNodesEndingThere ==
  pc = "built" =>
    \A idx \in 1 .. input.n + 2 :
      LET ends == Boundary(idx).ends
      IN /\ Len(ends) = Boundary(idx).endNodes
         /\ Len(ends) = Cardinality(ToSet(ends))
         /\ \A k \in DOMAIN ends : NodeAt(ends[k]).end = (IF idx <= 2 THEN 0 ELSE idx - 2)
         /\ Len(ends) = (IF idx <= 2 THEN 1 ELSE Count(seeds, LAMBDA sd : sd.end = idx - 2))

\* Both sides of every boundary: no seed is lost or doubled between the seeds
\* and the lattice, on either end, and a failed analysis leaves no lattice that
\* the output could take for its own.
BoundariesHoldTheSeeds ==
  /\ StartsAreTheSeeds
  /\ EndsAreTheNodesEndingThere
  /\ pc \in {"failed", "rejected"} => lattice = <<>>
===============================================================================
