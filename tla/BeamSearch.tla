------------------------------ MODULE BeamSearch ------------------------------
(***************************************************************************)
(* Scoring a built lattice: AnalyzerImpl::computeScoresFull and            *)
(* computeScoresGbeam (core/analysis/analyzer_impl.cc) with the beams of   *)
(* ScoreProcessor (core/analysis/score_processor.cc), and the extraction   *)
(* of the best path by AnalysisPath::fillIn (analysis_result.cc).          *)
(*                                                                         *)
(* The nodes of the lattice are numbered in the order of the sorted seeds, *)
(* 0 is BOS and the last one EOS.  A beam element is a pointer to an       *)
(* element of the beam of the node on its left (ConnectionPtr::previous)   *)
(* and the score of the whole path; the fake elements that fill a beam up  *)
(* are left out of it.  Feature scores are a function of three successive  *)
(* nodes, those of the additional scorer (the RNN) another.  The analysis  *)
(* of partially annotated text has a plugin that takes from the scores of  *)
(* nodes that violate the annotation.                                      *)
(***************************************************************************)
EXTENDS PartialExample

CONSTANTS Jobs,              \* [problems, configs]: lattices, with their scores, and
                             \* the beam settings with which they are scored
          FeatureWeight,     \* scoreWeights[0]
          ExtraWeight        \* scoreWeights[1]

\* A node of a lattice; EOS has no characters.
WordAt(problem, r) ==
  IF r > Len(problem.nodes) THEN [start |-> problem.n, end |-> problem.n, data |-> <<>>]
  ELSE problem.nodes[r]

EndAt(problem, l) == IF l = 0 THEN 0 ELSE problem.nodes[l].end

\* The trigrams of a lattice: nodes that follow each other, after BOS and -1
Linked(problem) ==
  LET last == Len(problem.nodes)
  IN {t \in (-1 .. last) \X (0 .. last) \X (1 .. last + 1) :
        /\ EndAt(problem, t[2]) = WordAt(problem, t[3]).start
        /\ IF t[2] = 0 THEN t[1] = -1
           ELSE t[1] # -1 /\ EndAt(problem, t[1]) = WordAt(problem, t[2]).start}

\* Some words in a row cover the sentence.
Covered(problem) ==
  \E cuts \in SUBSET (0 .. problem.n) :
    /\ {0, problem.n} \subseteq cuts
    /\ \A c \in cuts \ {problem.n} :
         \E r \in DOMAIN problem.nodes : problem.nodes[r].start = c /\ problem.nodes[r].end \in cuts

\* The lattices that buildLattice makes: of a sentence with characters, whose
\* words are not empty and lead from its start to its end; all that follows
\* each other has a score.
ASSUME LatticeConstants ==
  \A p \in UNION {j.problems : j \in Jobs} :
    /\ p.n \in Nat \ {0}
    /\ p.nodes \in Seq([start : 0 .. p.n, end : 0 .. p.n, data : Seq(Nat)])
    /\ \A r \in DOMAIN p.nodes : p.nodes[r].start < p.nodes[r].end
    /\ Covered(p)
    /\ p.score \in [Linked(p) -> Int]
    /\ p.extra \in [Linked(p) -> Int]

\* A partially annotated sentence is the text of its lines, one after the other.
ASSUME AnnotationConstants ==
  \A p \in UNION {j.problems : j \in Jobs} : AnnotationOf(p.lines, p.n)

\* What initScorers lets pass: additional scorers need a global beam, and a
\* right check needs a right beam.
ASSUME BeamConstants ==
  /\ \A c \in UNION {j.configs : j \in Jobs} :
                        /\ c.beam \in Nat \ {0}
                        /\ {c.global, c.check, c.right} \subseteq Nat
                        /\ c.extra \in BOOLEAN
                        /\ c.extra => c.global > 0
                        /\ c.check > 0 => c.right > 0
  /\ {FeatureWeight, ExtraWeight} \subseteq Int

VARIABLES lat,    \* the lattice: its length, nodes and scores; who asked for it
          cfg,    \* the configuration
          pc,     \* the phase: "score", "adjust", "remake", "fill", "done"
          bnd,    \* the boundary of the sentence that is next in the phase
          beams,  \* the beam of every node
          gbeam,  \* the global beam of every boundary
          path    \* AnalysisPath::elems_

vars == <<lat, cfg, pc, bnd, beams, gbeam, path>>

Bos == 0
Eos == Len(lat.nodes) + 1
NodeIds == 0 .. Eos
Start(r) == IF r = Eos THEN lat.n ELSE lat.nodes[r].start

\* The nodes to the right and to the left of a boundary
Right(b) == {r \in 1 .. Eos : Start(r) = b}
Left(b) == IF b = 0 THEN {Bos} ELSE {l \in 1 .. Eos - 1 : lat.nodes[l].end = b}

\* A beam element; the one of BOS points at the first of the two BOS nodes.
Element(left, beam, total) == [left |-> left, beam |-> beam, total |-> total]
BosElement == Element(-1, 1, 0)

\* Mutation of T2: the best predecessor of the left node, whatever the beam.
T2OfTop(c) == beams[c.left][1].left

\* The node before the left node of a candidate (t2 of the trigrams)
T2(c) == beams[c.left][c.beam].left

\* The score of a node after two others: its features, less what the plugin
\* takes (applyPluginToFullBeam, applyPluginToPrescores, applyPluginToGbeam)
TrigramScore(t) == lat.score[t] - lat.penalty[t[3]]

FeatureScore(c, r) == TrigramScore(<<T2(c), c.left, r>>)
WeightedScore(c, r) ==
  FeatureWeight * FeatureScore(c, r) + ExtraWeight * lat.extra[<<T2(c), c.left, r>>]

\* The elements of the beams to the left of a boundary, with their scores
Candidates(b) ==
  UNION {{Element(l, k, beams[l][k].total) : k \in DOMAIN beams[l]} : l \in Left(b)}

\* Mutation of Extended: the score of the last connection only.
ExtendedLocally(c, r) == Element(c.left, c.beam, FeatureScore(c, r))

Extended(c, r) == Element(c.left, c.beam, c.total + FeatureScore(c, r))

\* Mutation of Better: the smaller score comes first.
Worse(x, y) ==
  \/ x.total < y.total
  \/ x.total = y.total /\ x.left > y.left
  \/ x.total = y.total /\ x.left = y.left /\ x.beam > y.beam

\* The order of packed BeamCandidates: by score, then left node, then beam
Better(x, y) ==
  \/ x.total > y.total
  \/ x.total = y.total /\ x.left > y.left
  \/ x.total = y.total /\ x.left = y.left /\ x.beam > y.beam

Prefix(s, k) == SubSeq(s, 1, IF k < Len(s) THEN k ELSE Len(s))

\* processBeamCandidates: the best so many candidates, in order; in place i is
\* the one that i - 1 others are better than.
Best(S, k) ==
  [i \in 1 .. (IF k < Cardinality(S) THEN k ELSE Cardinality(S)) |->
     CHOOSE c \in S : Cardinality({d \in S : Better(d, c)}) = i - 1]

\* makeT0Beam orders by score only: among equals any order may come out.
BestBeams(S, k) ==
  LET size == IF k < Cardinality(S) THEN k ELSE Cardinality(S)
  IN {s \in [1 .. size -> S] :
        /\ \A i, j \in 1 .. size : i < j => s[i] # s[j] /\ s[i].total >= s[j].total
        /\ \A c \in S \ ToSet(s) : \A i \in 1 .. size : s[i].total >= c.total}

-------------------------------------------------------------------------------

\* A lattice, with its annotation read, and the plugin if there is one
Prepared(problem) ==
  LET example == ReadExample(problem.lines)
  IN [n |-> problem.n, nodes |-> problem.nodes, score |-> problem.score, extra |-> problem.extra,
      user |-> problem.user, lines |-> problem.lines, example |-> example,
      penalty |-> [r \in 1 .. Len(problem.nodes) + 1 |->
                     IF problem.user = "partialInput"
                     THEN PluginPenalty(CheckViolation(example, WordAt(problem, r))) ELSE 0]]

Init ==
  /\ \E job \in Jobs : /\ \E problem \in job.problems : lat = Prepared(problem)
                       /\ cfg \in job.configs
  /\ pc = "score"
  /\ bnd = 0
  /\ beams = [r \in NodeIds |-> IF r = Bos THEN <<BosElement>> ELSE <<>>]
  /\ gbeam = [b \in 0 .. lat.n |-> <<>>]
  /\ path = <<>>

NextBoundary(label) ==
  IF bnd < lat.n THEN bnd' = bnd + 1 /\ pc' = pc ELSE bnd' = 1 /\ pc' = label

\* computeScoresFull, one boundary: makeBeams for each of its nodes
ScoreFull ==
  /\ pc = "score"
  /\ cfg.global = 0
  /\ beams' = [r \in NodeIds |->
                 IF r \in Right(bnd) THEN Best({Extended(c, r) : c \in Candidates(bnd)}, cfg.beam)
                 ELSE beams[r]]
  /\ NextBoundary("fill")
  /\ UNCHANGED <<lat, cfg, gbeam, path>>

\* The sum of the scores by which makeT0cutoffBeam compares nodes
Prescore(head, r) == FoldLeft(LAMBDA sum, c : sum + FeatureScore(c, r), 0, head)

\* The nodes that are combined with the whole global beam: all, or as many as
\* the right beam holds of those that score best with the head of the global
\* beam (nth_element: among equals, any).
Keepable(head) ==
  IF cfg.check = 0 \/ Cardinality(Right(bnd)) <= cfg.right THEN {Right(bnd)}
  ELSE {keep \in SUBSET Right(bnd) :
          /\ Cardinality(keep) = cfg.right
          /\ \A x \in keep, y \in Right(bnd) \ keep : Prescore(head, x) >= Prescore(head, y)}

\* Mutation of HeadSize: as many as there are nodes beyond the right beam.
HeadSizeOfRest(global) ==
  LET nodes == Cardinality(Right(bnd))
      rest == IF nodes > cfg.right THEN nodes - cfg.right - 1 ELSE 0
  IN IF rest < Len(global) THEN rest ELSE Len(global)

\* fullBeamApplySize
HeadSize(global) ==
  CHOOSE k \in {cfg.check, Cardinality(Right(bnd)), Len(global)} :
    k <= cfg.check /\ k <= Cardinality(Right(bnd)) /\ k <= Len(global)

\* computeScoresGbeam, one boundary: the global beam of its left side, and
\* from it a beam for each of its nodes; a boundary without nodes is skipped.
ScoreGlobal ==
  /\ pc = "score"
  /\ cfg.global > 0
  /\ Right(bnd) # {}
  /\ LET global == Best(Candidates(bnd), cfg.global)
         head == Prefix(global, HeadSize(global))
         From(keep, r) == IF r \in keep THEN ToSet(global) ELSE ToSet(head)
     IN /\ gbeam' = [gbeam EXCEPT ![bnd] = global]
        /\ \E keep \in Keepable(head) :
             \E new \in [Right(bnd) -> UNION {BestBeams({Extended(c, r) : c \in From(keep, r)}, cfg.beam)
                                               : r \in Right(bnd)}] :
               /\ \A r \in Right(bnd) :
                    new[r] \in BestBeams({Extended(c, r) : c \in From(keep, r)}, cfg.beam)
               /\ beams' = [r \in NodeIds |-> IF r \in Right(bnd) THEN new[r] ELSE beams[r]]
  /\ NextBoundary(IF cfg.extra THEN "adjust" ELSE "fill")
  /\ UNCHANGED <<lat, cfg, path>>

SkipBoundary ==
  /\ pc = "score"
  /\ cfg.global > 0
  /\ Right(bnd) = {}
  /\ NextBoundary("fill")
  /\ UNCHANGED <<lat, cfg, beams, gbeam, path>>

\* Mutation of Adjusted: the old total is kept as the base.
AdjustedInPlace(l, k) ==
  LET el == beams[l][k] IN [el EXCEPT !.total = el.total + WeightedScore(el, l)]

\* adjustBeamScores, one boundary: the elements of its global beam get the
\* score of all scorers, on top of that of the element they point at.
Adjusted(l, k) ==
  LET el == beams[l][k]
  IN [el EXCEPT !.total = beams[el.left][el.beam].total + WeightedScore(el, l)]

AdjustBoundary ==
  /\ pc = "adjust"
  /\ beams' = [l \in NodeIds |-> [k \in DOMAIN beams[l] |->
                 IF \E i \in DOMAIN gbeam[bnd] : gbeam[bnd][i].left = l /\ gbeam[bnd][i].beam = k
                 THEN Adjusted(l, k) ELSE beams[l][k]]]
  /\ NextBoundary("remake")
  /\ UNCHANGED <<lat, cfg, gbeam, path>>

\* A candidate of the last global beam with the total adjusted since
Remade(c) ==
  Element(c.left, c.beam, beams[c.left][c.beam].total + WeightedScore(c, Eos))

\* remakeEosBeam: EOS gets a new beam from the adjusted global beam.
RemakeEosBeam ==
  /\ pc = "remake"
  /\ \E new \in BestBeams({Remade(c) : c \in ToSet(gbeam[lat.n])}, cfg.beam) :
       beams' = [beams EXCEPT ![Eos] = new]
  /\ pc' = "fill"
  /\ UNCHANGED <<lat, cfg, bnd, gbeam, path>>

\* Mutation of Trace: the beam of the pointer is forgotten on the way.
TraceOfTops(node, place) ==
  LET words[r \in 1 .. Eos] ==
        IF Start(r) = 0 THEN <<>>
        ELSE <<beams[r][1].left>> \o words[beams[r][1].left]
  IN words[node]

\* The nodes before each beam element, followed back along the pointers up to
\* the node that starts the sentence
Traces ==
  LET words[r \in 1 .. Eos] ==
        [k \in DOMAIN beams[r] |->
           IF Start(r) = 0 THEN <<>>
           ELSE <<beams[r][k].left>> \o words[beams[r][k].left][beams[r][k].beam]]
  IN words

Trace(node, place) == Traces[node][place]

\* AnalysisPath::fillIn: the words of the best element of EOS, last one first
FillIn ==
  /\ pc = "fill"
  /\ path' = Trace(Eos, 1)
  /\ pc' = "done"
  /\ UNCHANGED <<lat, cfg, bnd, beams, gbeam>>

Done == pc = "done" /\ UNCHANGED vars

Next == ScoreFull \/ ScoreGlobal \/ SkipBoundary \/ AdjustBoundary \/ RemakeEosBeam
        \/ FillIn \/ Done

Spec == Init /\ [][Next]_vars

-------------------------------------------------------------------------------
(* What the beams are compared with: all the paths of the lattice          *)

\* Every way from the start of the sentence to a node, the last word first
Histories ==
  LET to[r \in 1 .. Eos] ==
        IF Start(r) = 0 THEN {<<>>}
        ELSE UNION {{<<l>> \o h : h \in to[l]} : l \in Left(Start(r))}
  IN to

SumTo(f, n) ==
  LET sum[i \in 0 .. n] == IF i = 0 THEN 0 ELSE sum[i - 1] + f[i]
  IN sum[n]

\* The nodes of a path that ends with node r, and before it BOS and -1
Way(history, r) == <<-1, Bos>> \o Append(Reverse(history), r)

\* The sum of f over the trigrams of a path that ends with node r
SumOver(f(_), history, r) ==
  LET nodes == Way(history, r)
  IN SumTo([i \in 1 .. Len(history) + 1 |-> f(<<nodes[i], nodes[i + 1], nodes[i + 2]>>)],
           Len(history) + 1)

PathScore(history, r) == SumOver(TrigramScore, history, r)
AllScores(history, r) ==
  FeatureWeight * PathScore(history, r) + ExtraWeight * SumOver(LAMBDA t : lat.extra[t], history, r)

Processed == IF pc = "score" THEN {r \in 1 .. Eos : Start(r) < bnd} ELSE 1 .. Eos

\* Nothing but the previous node counts, so that the best ways to a node go
\* through the best ways to the nodes before it.
FirstOrder ==
  LET trigrams == DOMAIN lat.score
  IN Cardinality({<<t[2], t[3], TrigramScore(t)>> : t \in trigrams})
       = Cardinality({<<t[2], t[3]>> : t \in trigrams})

\* The configurations in which the beams lose nothing that matters
Exact ==
  /\ ~cfg.extra
  /\ \/ cfg.global = 0
     \/ cfg.check = 0 /\ cfg.global >= cfg.beam * Len(lat.nodes)
  /\ FirstOrder

-------------------------------------------------------------------------------

TypeOK ==
  /\ pc \in {"score", "adjust", "remake", "fill", "done"}
  /\ bnd \in 0 .. lat.n
  /\ \A r \in NodeIds \ {Bos} : \A k \in DOMAIN beams[r] :
       /\ k <= cfg.beam
       /\ beams[r][k].left \in Left(Start(r))
       /\ beams[r][k].beam \in DOMAIN beams[beams[r][k].left]
       /\ beams[r][k].total \in Int
  /\ \A b \in 0 .. lat.n : Len(gbeam[b]) <= cfg.global

\* Pruning never cuts a node off: a node whose boundary has been scored has an
\* element in its beam exactly when some path of the lattice leads to it.  The
\* global beam, the right check and the right beam decide how many ways to a
\* node are compared, never whether there is one, and EOS is always reached.
NoNodeLost ==
  \A r \in Processed : beams[r] # <<>> <=> Histories[r] # {}

\* Until the additional scorers come in, a beam is sorted, its elements are
\* different paths of the lattice, and the total of each is the sum of the
\* scores of its path: the trigram of an element is scored with the node two
\* places back on its own path, not on another one of the same beam.
BeamsHoldScoredPaths ==
  pc \in {"score", "adjust"} /\ ~(pc = "adjust" /\ bnd > 1) =>
    \A r \in Processed : \A i \in DOMAIN beams[r] :
      /\ Trace(r, i) \in Histories[r]
      /\ beams[r][i].total = PathScore(Trace(r, i), r)
      /\ \A j \in 1 .. i - 1 : /\ beams[r][j].total >= beams[r][i].total
                               /\ Trace(r, j) # Trace(r, i)

\* When scores depend on neighbours only and the global beam is off or wide
\* enough, a beam holds the best paths to its node: it is full unless there are
\* fewer paths, and no path outside it is better than one inside.
BeamsHoldBestPaths ==
  Exact =>
    \A r \in Processed :
      LET inside == {Trace(r, i) : i \in DOMAIN beams[r]}
      IN /\ Len(beams[r]) = cfg.beam \/ inside = Histories[r]
         /\ \A x \in inside, y \in Histories[r] \ inside : PathScore(x, r) >= PathScore(y, r)

\* adjustBeamScores changes totals that other elements point at, boundary after
\* boundary: when it is over, every element of a global beam has the weighted
\* score of all scorers over its whole path.
AdjustedTotals ==
  cfg.extra /\ pc \in {"remake", "fill", "done"} =>
    \A b \in 1 .. lat.n : \A i \in DOMAIN gbeam[b] :
      LET l == gbeam[b][i].left
          k == gbeam[b][i].beam
      IN beams[l][k].total = AllScores(Trace(l, k), l)

\* The beam of EOS after remakeEosBeam: the best elements of the last global
\* beam by the scores of all scorers, each with the score of its path.
EosBeamRemade ==
  cfg.extra /\ pc \in {"fill", "done"} =>
    LET ways == {<<c.left>> \o Trace(c.left, c.beam) : c \in ToSet(gbeam[lat.n])}
        chosen == {Trace(Eos, k) : k \in DOMAIN beams[Eos]}
    IN /\ chosen \subseteq ways
       /\ \A k \in DOMAIN beams[Eos] : beams[Eos][k].total = AllScores(Trace(Eos, k), Eos)
       /\ \A w \in ways \ chosen, c \in chosen : AllScores(c, Eos) >= AllScores(w, Eos)

\* What the additional scorers leave behind, in the words and at EOS
ExtraScoresApplied == AdjustedTotals /\ EosBeamRemade

\* The result is a segmentation of the whole sentence, the one whose score the
\* first element of EOS carries.
ResultHasTopScore ==
  pc = "done" =>
    /\ path \in Histories[Eos]
    /\ beams[Eos][1].total =
         IF cfg.extra THEN AllScores(path, Eos) ELSE PathScore(path, Eos)

-------------------------------------------------------------------------------
(* The abstract analysis: see BestPath.                                    *)

Segmentations == Histories[Eos]

\* In the exact configurations the analysis, with all its beams, picks a best
\* segmentation of the sentence in one step.
Analysed == INSTANCE BestPath WITH
  sentence <- [ways |-> Segmentations,
               score |-> [h \in Segmentations |-> PathScore(h, Eos)],
               exact |-> Exact],
  result <- IF pc = "done" THEN <<path>> ELSE <<>>

ImplementsBestPath == Analysed!Spec
===============================================================================
