--------------------------- MODULE BeamSearchProofs ---------------------------
(***************************************************************************)
(* The inductive invariant of BeamSearch, for every lattice, all scores,   *)
(* any widths of the beams and any weights of the scorers.                 *)
(*                                                                         *)
(* It says of every beam how its elements relate to the beams to the left  *)
(* of its node (MadeOf, ScoredOf, CompleteOf), of every global beam that   *)
(* all it has made comes from it (FromGlobal), and how far the additional  *)
(* scorers have come (AdjustedOK, RemadeOK).  It says nothing of whole     *)
(* paths: an element is never changed once another one points at it,       *)
(* except by adjustBeamScores, which goes from left to right.  What holds  *)
(* of paths follows, in any one state, by going back along the pointers:   *)
(* the second half of the module, with the properties of BeamSearch and    *)
(* the step simulation of BestPath.                                        *)
(*                                                                         *)
(* Paths, their scores and the traces of elements are recursive functions  *)
(* over the nodes.  None of the provers takes a predicate for a parameter, *)
(* so that the induction is about sets: the numbers of which something     *)
(* holds are all of them if 0 is one and the successor of each is one.     *)
(***************************************************************************)
EXTENDS BeamSearch, FiniteSetTheorems, SequenceTheorems, WellFoundedInduction, TLAPS

Elements == [left : Int, beam : Nat, total : Int]

\* Better is a strict order and decides between any two different elements.
LEMMA BetterIsOrder ==
  /\ \A x \in Elements : ~Better(x, x)
  /\ \A x, y \in Elements : x = y \/ Better(x, y) \/ Better(y, x)
  /\ \A x, y, z \in Elements : Better(x, y) /\ Better(y, z) => Better(x, z)
  /\ \A x, y \in Elements : Better(x, y) => x.total >= y.total
BY DEF Elements, Better

\* The number of elements that are better is different for every element of a
\* finite set, and every number up to the size of the set is that of one.
LEMMA Ranks ==
  ASSUME NEW S \in SUBSET Elements, IsFiniteSet(S)
  PROVE  LET rank == [c \in S |-> Cardinality({d \in S : Better(d, c)})]
         IN /\ rank \in [S -> 0 .. Cardinality(S) - 1]
            /\ \A c, d \in S : Better(d, c) => rank[d] < rank[c]
            /\ \A c, d \in S : rank[c] = rank[d] => c = d
            /\ \A i \in 0 .. Cardinality(S) - 1 : \E c \in S : rank[c] = i
<1>. DEFINE Above(c) == {d \in S : Better(d, c)}
            rank == [c \in S |-> Cardinality(Above(c))]
<1>1. Cardinality(S) \in Nat
  BY FS_CardinalityType
<1>2. ASSUME NEW c \in S
      PROVE  IsFiniteSet(Above(c)) /\ Cardinality(Above(c)) \in 0 .. Cardinality(S) - 1
  <2>1. Above(c) \in SUBSET S /\ c \notin Above(c)
    BY BetterIsOrder
  <2>2. IsFiniteSet(Above(c)) /\ Cardinality(Above(c)) <= Cardinality(S)
        /\ Cardinality(Above(c)) # Cardinality(S)
    BY <2>1, FS_Subset
  <2>3. Cardinality(Above(c)) \in Nat
    BY <2>2, FS_CardinalityType
  <2>4. QED
    BY <1>1, <2>2, <2>3
<1>3. rank \in [S -> 0 .. Cardinality(S) - 1]
  BY <1>2
<1>4. ASSUME NEW c \in S, NEW d \in S, Better(d, c)
      PROVE  rank[d] < rank[c]
  <2>1. Above(d) \in SUBSET Above(c) /\ d \in Above(c) /\ d \notin Above(d)
    BY <1>4, BetterIsOrder
  <2>2. Cardinality(Above(d)) <= Cardinality(Above(c))
        /\ Cardinality(Above(d)) # Cardinality(Above(c))
    BY <2>1, <1>2, FS_Subset
  <2>3. rank[c] = Cardinality(Above(c)) /\ rank[d] = Cardinality(Above(d))
    OBVIOUS
  <2>. HIDE DEF rank, Above
  <2>4. QED
    BY <2>2, <2>3, <1>2
<1>5. ASSUME NEW c \in S, NEW d \in S, rank[c] = rank[d]
      PROVE  c = d
  <2>1. rank[c] \in Int /\ rank[d] \in Int
    BY <1>3
  <2>. HIDE DEF rank
  <2>2. ~Better(c, d) /\ ~Better(d, c)
    BY <2>1, <1>4, <1>5
  <2>3. QED
    BY <2>2, BetterIsOrder
<1>. HIDE DEF rank
<1>6. ASSUME NEW i \in 0 .. Cardinality(S) - 1
      PROVE  \E c \in S : rank[c] = i
  <2>1. rank \in Injection(S, 0 .. Cardinality(S) - 1)
    BY <1>3, <1>5 DEF Injection, IsInjective
  <2>2. IsFiniteSet(0 .. Cardinality(S) - 1) /\ Cardinality(0 .. Cardinality(S) - 1) = Cardinality(S)
    BY <1>1, FS_Interval
  <2>3. rank \in Surjection(S, 0 .. Cardinality(S) - 1)
    BY <2>1, <2>2, FS_Injection
  <2>4. QED
    BY <2>3 DEF Surjection
<1>7. QED
  BY <1>3, <1>4, <1>5, <1>6 DEF rank

\* What is true of a beam made of a finite set of elements, however the equal
\* ones are ordered
LEMMA BestBeamsProperties ==
  ASSUME NEW S \in SUBSET Elements, IsFiniteSet(S), NEW k \in Nat \ {0},
         NEW s \in BestBeams(S, k)
  PROVE  /\ s \in Seq(Elements) /\ DOMAIN s = 1 .. Len(s)
         /\ Len(s) <= k
         /\ \A i \in DOMAIN s : s[i] \in S
         /\ \A i, j \in DOMAIN s : s[i] = s[j] => i = j
         /\ \A i, j \in DOMAIN s : i < j => s[i].total >= s[j].total
         /\ s # <<>> <=> S # {}
         /\ \A c \in S : \/ \E i \in DOMAIN s : s[i] = c
                         \/ Len(s) = k /\ \A i \in DOMAIN s : s[i].total >= c.total
         /\ Cardinality(S) <= k => \A c \in S : \E i \in DOMAIN s : s[i] = c
<1>. DEFINE size == IF k < Cardinality(S) THEN k ELSE Cardinality(S)
<1>1. Cardinality(S) \in Nat /\ size \in Nat /\ size <= k
  BY FS_CardinalityType
<1>2. s \in [1 .. size -> S]
  BY DEF BestBeams
<1>3. \A i, j \in 1 .. size : i < j => s[i] # s[j] /\ s[i].total >= s[j].total
  BY DEF BestBeams
<1>4. \A c \in S \ ToSet(s) : \A i \in 1 .. size : s[i].total >= c.total
  BY DEF BestBeams
<1>5. size = 0 <=> S = {}
  BY <1>1, FS_EmptySet
<1>. HIDE DEF size
<1>6. s \in Seq(Elements) /\ Len(s) = size /\ DOMAIN s = 1 .. size
  BY <1>1, <1>2
<1>7. \A i, j \in DOMAIN s : s[i] = s[j] => i = j
  BY <1>1, <1>3, <1>6
<1>8. s # <<>> <=> S # {}
  BY <1>1, <1>5, <1>6, EmptySeq
<1>9. ASSUME size = Cardinality(S)
      PROVE  \A c \in S : \E i \in DOMAIN s : s[i] = c
  <2>1. s \in Injection(1 .. size, S)
    BY <1>2, <1>6, <1>7 DEF Injection, IsInjective
  <2>2. Cardinality(1 .. size) = Cardinality(S)
    BY <1>1, <1>9, FS_Interval
  <2>3. s \in Surjection(1 .. size, S)
    BY <2>1, <2>2, FS_Injection
  <2>4. QED
    BY <2>3, <1>6 DEF Surjection
<1>10. ASSUME NEW c \in S, ~ \E i \in DOMAIN s : s[i] = c
       PROVE  Len(s) = k /\ \A i \in DOMAIN s : s[i].total >= c.total
  <2>1. c \notin ToSet(s)
    BY <1>10 DEF ToSet
  <2>2. size # Cardinality(S)
    BY <1>9, <1>10
  <2>3. QED
    BY <2>1, <2>2, <1>1, <1>4, <1>6 DEF size
<1>11. Cardinality(S) <= k => size = Cardinality(S)
  BY <1>1 DEF size
<1>12. QED
  BY <1>1, <1>2, <1>3, <1>6, <1>7, <1>8, <1>9, <1>10, <1>11

\* The beams that processBeamCandidates makes are of that kind, those that are
\* as long as the set has elements hold them all.
LEMMA BestIsBestBeam ==
  ASSUME NEW S \in SUBSET Elements, IsFiniteSet(S), NEW k \in Nat
  PROVE  Best(S, k) \in BestBeams(S, k)
<1>. DEFINE rank == [c \in S |-> Cardinality({d \in S : Better(d, c)})]
            size == IF k < Cardinality(S) THEN k ELSE Cardinality(S)
            s == Best(S, k)
<1>1. Cardinality(S) \in Nat /\ size \in Nat /\ size <= Cardinality(S)
  BY FS_CardinalityType
<1>2. /\ rank \in [S -> 0 .. Cardinality(S) - 1]
      /\ \A c, d \in S : Better(d, c) => rank[d] < rank[c]
      /\ \A c, d \in S : rank[c] = rank[d] => c = d
      /\ \A i \in 0 .. Cardinality(S) - 1 : \E c \in S : rank[c] = i
  BY Ranks
<1>. HIDE DEF rank
<1>3. \A c \in S : rank[c] = Cardinality({d \in S : Better(d, c)})
  BY DEF rank
<1>. DEFINE Place(c, i) == Cardinality({d \in S : Better(d, c)}) = i - 1
<1>4. s = [i \in 1 .. size |-> CHOOSE c \in S : Place(c, i)]
  BY DEF Best
<1>. HIDE DEF size, s
<1>5. \A i \in 1 .. size : s[i] \in S /\ rank[s[i]] = i - 1
  <2>1. \A i \in 1 .. size : \E c \in S : Place(c, i)
    BY <1>1, <1>2, <1>3
  <2>. HIDE DEF Place
  <2>2. \A i \in 1 .. size : s[i] \in S /\ Place(s[i], i)
    BY <2>1, <1>4
  <2>3. QED
    BY <2>2, <1>3 DEF Place
<1>6. s \in [1 .. size -> S]
  BY <1>4, <1>5
<1>7. ASSUME NEW i \in 1 .. size, NEW c \in S, rank[c] > i - 1
      PROVE  s[i].total >= c.total
  <2>1. s[i] \in S /\ rank[s[i]] = i - 1 /\ rank[c] \in Int
    BY <1>2, <1>5
  <2>2. s[i] # c /\ ~Better(c, s[i])
    BY <2>1, <1>2, <1>7
  <2>3. QED
    BY <2>1, <2>2, BetterIsOrder
<1>8. \A i, j \in 1 .. size : i < j => s[i] # s[j] /\ s[i].total >= s[j].total
  BY <1>1, <1>5, <1>7
<1>9. ASSUME NEW c \in S \ ToSet(s), NEW i \in 1 .. size
      PROVE  s[i].total >= c.total
  <2>1. \A j \in 1 .. size : s[j] # c
    BY <1>6 DEF ToSet
  <2>2. rank[c] \in 0 .. Cardinality(S) - 1
    BY <1>2
  <2>3. ~(rank[c] < size)
    <3>1. SUFFICES ASSUME rank[c] < size PROVE FALSE
      OBVIOUS
    <3>2. rank[c] + 1 \in 1 .. size
      BY <1>1, <2>2, <3>1
    <3>3. rank[s[rank[c] + 1]] = rank[c]
      BY <1>5, <2>2, <3>2
    <3>4. QED
      BY <1>2, <1>5, <2>1, <3>2, <3>3
  <2>4. QED
    BY <1>1, <1>7, <2>2, <2>3
<1>10. QED
  BY <1>6, <1>8, <1>9 DEF BestBeams, size, s

-------------------------------------------------------------------------------
(* The inductive invariant                                                 *)


\* The lattice and the configuration, which never change
InputOK ==
  /\ lat.n \in Nat \ {0}
  /\ lat.nodes \in Seq([start : 0 .. lat.n, end : 0 .. lat.n, data : Seq(Nat)])
  /\ \A r \in DOMAIN lat.nodes : lat.nodes[r].start < lat.nodes[r].end
  /\ Covered(lat)
  /\ lat.score \in [Linked(lat) -> Int]
  /\ lat.extra \in [Linked(lat) -> Int]
  /\ lat.penalty \in [1 .. Len(lat.nodes) + 1 -> Int]
  /\ cfg.beam \in Nat \ {0}
  /\ cfg.global \in Nat
  /\ cfg.check \in Nat
  /\ cfg.right \in Nat
  /\ cfg.extra \in BOOLEAN
  /\ cfg.extra => cfg.global > 0
  /\ cfg.check > 0 => cfg.right > 0

PhaseOK ==
  /\ pc \in {"score", "adjust", "remake", "fill", "done"}
  /\ bnd \in 0 .. lat.n
  /\ pc \in {"adjust", "remake"} => cfg.extra
  /\ pc = "adjust" => bnd >= 1

TypesOK ==
  /\ beams \in [NodeIds -> Seq(Elements)]
  /\ beams[Bos] = <<BosElement>>
  /\ \A r \in 1 .. Eos : r \notin Processed => beams[r] = <<>>
  /\ gbeam \in [0 .. lat.n -> Seq(Elements)]

\* An element that points into the beams to the left of a boundary
Points(el, b) == el.left \in Left(b) /\ el.beam \in DOMAIN beams[el.left]

SamePlace(x, y) == x.left = y.left /\ x.beam = y.beam

\* s is a beam for node r: it points to the left, nowhere twice, and is empty
\* only if all the beams there are.
MadeOf(s, r) ==
  /\ Len(s) <= cfg.beam
  /\ \A k \in DOMAIN s : Points(s[k], Start(r))
  /\ \A j, k \in DOMAIN s : SamePlace(s[j], s[k]) => j = k
  /\ s # <<>> <=> \E l \in Left(Start(r)) : beams[l] # <<>>

\* Its totals extend those it points at, and they are in order.
ScoredOf(s, r) ==
  /\ \A k \in DOMAIN s :
       s[k].total = beams[s[k].left][s[k].beam].total + FeatureScore(s[k], r)
  /\ \A j, k \in DOMAIN s : j < k => s[j].total >= s[k].total

\* What is left out of it is no better than what is in it.
CompleteOf(s, r) ==
  \A c \in Candidates(Start(r)) :
    \/ \E k \in DOMAIN s : SamePlace(s[k], c)
    \/ Len(s) = cfg.beam /\ \A k \in DOMAIN s : s[k].total >= Extended(c, r).total

\* Totals are those of the features alone.
Pure == cfg.extra => pc = "score" \/ (pc = "adjust" /\ bnd = 1)

Wide ==
  /\ ~cfg.extra
  /\ \/ cfg.global = 0
     \/ cfg.check = 0 /\ cfg.global >= cfg.beam * Len(lat.nodes)

BeamsOK ==
  \A r \in Processed : /\ MadeOf(beams[r], r)
                       /\ Pure => ScoredOf(beams[r], r)
                       /\ Wide => CompleteOf(beams[r], r)

\* With a global beam, all that is in a beam comes from it.
FromGlobal(s, g) ==
  /\ s = <<>> <=> g = <<>>
  /\ \A k \in DOMAIN s : \E i \in DOMAIN g : SamePlace(g[i], s[k])

GlobalOK ==
  /\ \A b \in 0 .. lat.n : /\ Len(gbeam[b]) <= cfg.global
                           /\ \A i \in DOMAIN gbeam[b] : Points(gbeam[b][i], b)
  /\ cfg.global > 0 => \A r \in Processed : FromGlobal(beams[r], gbeam[Start(r)])

\* The boundaries whose global beams have been adjusted
AdjustedSoFar ==
  IF ~cfg.extra \/ pc = "score" THEN {}
  ELSE IF pc = "adjust" THEN 1 .. bnd - 1 ELSE 1 .. lat.n

\* The total of an element of node l is that of all scorers on top of the one
\* it points at.
Weighted(el, l) == el.total = beams[el.left][el.beam].total + WeightedScore(el, l)

AdjustedOK ==
  \A b \in AdjustedSoFar : \A i \in DOMAIN gbeam[b] :
    Weighted(beams[gbeam[b][i].left][gbeam[b][i].beam], gbeam[b][i].left)

RemadeOK ==
  cfg.extra /\ pc \in {"fill", "done"} =>
    beams[Eos] \in BestBeams({Remade(c) : c \in ToSet(gbeam[lat.n])}, cfg.beam)

ResultOK == pc = "done" => path = Trace(Eos, 1)

IInv == /\ InputOK /\ PhaseOK /\ TypesOK /\ BeamsOK /\ GlobalOK /\ AdjustedOK
        /\ RemadeOK /\ ResultOK

-------------------------------------------------------------------------------
(* Lattices                                                                *)

\* Words begin before they end, so that the nodes to the left of a boundary
\* start before it.
LEMMA NodesOfLattice ==
  ASSUME InputOK
  PROVE  /\ lat.n \in Nat \ {0} /\ Eos \in Nat \ {0} /\ Bos = 0
         /\ Start(Eos) = lat.n /\ Left(0) = {Bos}
         /\ \A r \in 1 .. Eos : Start(r) \in 0 .. lat.n
         /\ \A b \in 0 .. lat.n : \A l \in Left(b) :
              /\ l \in NodeIds /\ l < Eos /\ l \in Nat
              /\ b = 0 <=> l = Bos
              /\ l # Bos => l \in 1 .. Eos /\ Start(l) < b /\ Start(l) \in 0 .. lat.n
              /\ l # Bos => lat.nodes[l].end = b
         /\ \A b : Right(b) \subseteq 1 .. Eos /\ (\A r \in Right(b) : Start(r) = b)
         /\ Eos \in Right(lat.n)
         /\ NodeIds = 0 .. Eos
<1>. DEFINE W == [start : 0 .. lat.n, end : 0 .. lat.n, data : Seq(Nat)]
<1>1. lat.n \in Nat \ {0} /\ lat.nodes \in Seq(W)
      /\ \A r \in DOMAIN lat.nodes : lat.nodes[r].start < lat.nodes[r].end
  BY DEF InputOK
<1>2. Len(lat.nodes) \in Nat /\ DOMAIN lat.nodes = 1 .. Len(lat.nodes)
  BY <1>1
<1>3. \A r \in 1 .. Len(lat.nodes) : lat.nodes[r] \in W
  <2>. HIDE DEF W
  <2>1. QED
    BY <1>1, ElementOfSeq
<1>4. \A r \in 1 .. Len(lat.nodes) : lat.nodes[r].start \in 0 .. lat.n
  BY <1>3
<1>5. Eos \in Nat \ {0} /\ Bos = 0 /\ Start(Eos) = lat.n /\ Left(0) = {Bos}
  BY <1>2 DEF Eos, Bos, Start, Left
<1>6. \A r \in 1 .. Eos : Start(r) \in 0 .. lat.n
  BY <1>1, <1>2, <1>4 DEF Eos, Start
<1>7. ASSUME NEW b \in 0 .. lat.n, NEW l \in Left(b)
      PROVE  /\ l \in NodeIds /\ l < Eos /\ l \in Nat
             /\ b = 0 <=> l = Bos
             /\ l # Bos => l \in 1 .. Eos /\ Start(l) < b /\ Start(l) \in 0 .. lat.n
             /\ l # Bos => lat.nodes[l].end = b
  <2>1. CASE b = 0
    BY <2>1, <1>5 DEF NodeIds
  <2>2. CASE b # 0
    <3>1. l \in 1 .. Eos - 1 /\ lat.nodes[l].end = b
      BY <2>2 DEF Left
    <3>2. l \in 1 .. Len(lat.nodes) /\ l # Eos
      BY <3>1, <1>2 DEF Eos
    <3>3. Start(l) < b
      BY <3>1, <3>2, <1>1, <1>2 DEF Start
    <3>4. QED
      BY <2>2, <3>1, <3>2, <3>3, <1>5, <1>6 DEF NodeIds
  <2>3. QED
    BY <2>1, <2>2
<1>8. \A b : Right(b) \subseteq 1 .. Eos /\ (\A r \in Right(b) : Start(r) = b)
  BY DEF Right
<1>9. Eos \in Right(lat.n)
  BY <1>5 DEF Right
<1>10. QED
  BY <1>1, <1>5, <1>6, <1>7, <1>8, <1>9 DEF NodeIds, Bos

\* Three nodes that follow each other have scores.
LEMMA TrigramsHaveScores ==
  ASSUME InputOK,
         NEW r \in 1 .. Eos, NEW l \in Left(Start(r)),
         NEW a, IF l = Bos THEN a = -1 ELSE a \in Left(Start(l))
  PROVE  <<a, l, r>> \in Linked(lat) /\ TrigramScore(<<a, l, r>>) \in Int
         /\ lat.extra[<<a, l, r>>] \in Int
<1>1. Start(r) \in 0 .. lat.n /\ l \in Nat /\ l < Eos /\ Eos \in Nat
  BY NodesOfLattice
<1>2. WordAt(lat, r).start = Start(r)
  BY NodesOfLattice, <1>1 DEF WordAt, Start, Eos
<1>3. EndAt(lat, l) = Start(r)
  BY NodesOfLattice, <1>1 DEF EndAt
<1>4. IF l = Bos THEN a = -1
      ELSE /\ a \in Nat /\ a < Eos /\ EndAt(lat, a) = Start(l)
           /\ WordAt(lat, l).start = Start(l)
  <2>1. CASE l # Bos
    <3>1. Start(l) \in 0 .. lat.n /\ l \in 1 .. Eos - 1
      BY <1>1, <2>1, NodesOfLattice
    <3>2. a \in Nat /\ a < Eos /\ EndAt(lat, a) = Start(l)
      BY <2>1, <3>1, NodesOfLattice DEF EndAt
    <3>3. WordAt(lat, l).start = Start(l)
      BY <3>1, <1>1 DEF WordAt, Start, Eos
    <3>4. QED
      BY <2>1, <3>2, <3>3
  <2>2. QED
    BY <2>1
<1>5. /\ <<a, l, r>> \in (-1 .. Len(lat.nodes)) \X (0 .. Len(lat.nodes)) \X (1 .. Len(lat.nodes) + 1)
      /\ EndAt(lat, l) = WordAt(lat, r).start
      /\ IF l = 0 THEN a = -1 ELSE a # -1 /\ EndAt(lat, a) = WordAt(lat, l).start
  BY <1>1, <1>2, <1>3, <1>4 DEF Eos, Bos
<1>6. <<a, l, r>> \in Linked(lat)
  BY <1>5 DEF Linked
<1>7. lat.score[<<a, l, r>>] \in Int /\ lat.extra[<<a, l, r>>] \in Int
  BY <1>6 DEF InputOK
<1>8. lat.penalty[r] \in Int
  BY DEF InputOK, Eos
<1>9. QED
  BY <1>6, <1>7, <1>8 DEF TrigramScore

\* The nodes that lie to one side of a boundary are finitely many.
LEMMA SidesAreFinite ==
  ASSUME InputOK
  PROVE  /\ \A b \in 0 .. lat.n : IsFiniteSet(Left(b))
         /\ \A b : IsFiniteSet(Right(b)) /\ Cardinality(Right(b)) \in Nat
                   /\ (Cardinality(Right(b)) = 0 => Right(b) = {})
<1>1. IsFiniteSet(0 .. Eos) /\ IsFiniteSet(1 .. Eos)
  BY NodesOfLattice, FS_Interval
<1>2. \A b \in 0 .. lat.n : Left(b) \subseteq 0 .. Eos
  BY NodesOfLattice
<1>3. \A b : IsFiniteSet(Right(b))
  BY <1>1, FS_Subset DEF Right
<1>4. QED
  BY <1>1, <1>2, <1>3, FS_Subset, FS_CardinalityType, FS_EmptySet

-------------------------------------------------------------------------------
(* The input                                                               *)

\* What the constants promise of the problems and configurations holds of the
\* prepared lattice, whose plugin penalties are numbers.
LEMMA InitInputOK == Init => InputOK
<1>. SUFFICES ASSUME Init PROVE InputOK
  OBVIOUS
<1>1. PICK job \in Jobs : (\E q \in job.problems : lat = Prepared(q)) /\ cfg \in job.configs
  BY DEF Init
<1>2. PICK p \in job.problems : lat = Prepared(p)
  BY <1>1
<1>3. p \in UNION {j.problems : j \in Jobs} /\ cfg \in UNION {j.configs : j \in Jobs}
  BY <1>1, <1>2
<1>4. /\ p.n \in Nat \ {0}
      /\ p.nodes \in Seq([start : 0 .. p.n, end : 0 .. p.n, data : Seq(Nat)])
      /\ \A r \in DOMAIN p.nodes : p.nodes[r].start < p.nodes[r].end
      /\ Covered(p)
      /\ p.score \in [Linked(p) -> Int]
      /\ p.extra \in [Linked(p) -> Int]
  BY <1>3, LatticeConstants
<1>5. lat.n = p.n /\ lat.nodes = p.nodes /\ lat.score = p.score /\ lat.extra = p.extra
  BY <1>2 DEF Prepared
<1>6. Covered(lat) /\ Linked(lat) = Linked(p)
  <2>1. Covered(lat)
    <3>1. PICK cuts \in SUBSET (0 .. p.n) :
            /\ {0, p.n} \subseteq cuts
            /\ \A c \in cuts \ {p.n} :
                 \E r \in DOMAIN p.nodes : p.nodes[r].start = c /\ p.nodes[r].end \in cuts
      BY <1>4 DEF Covered
    <3>2. /\ cuts \in SUBSET (0 .. lat.n) /\ {0, lat.n} \subseteq cuts
          /\ \A c \in cuts \ {lat.n} :
               \E r \in DOMAIN lat.nodes : lat.nodes[r].start = c /\ lat.nodes[r].end \in cuts
      BY <3>1, <1>5
    <3>3. QED
      BY <3>2 DEF Covered
  <2>2. \A l : EndAt(lat, l) = EndAt(p, l) /\ WordAt(lat, l) = WordAt(p, l)
    BY <1>5 DEF EndAt, WordAt
  <2>3. Linked(lat) = Linked(p)
    BY <1>5, <2>2 DEF Linked
  <2>4. QED
    BY <2>1, <2>3
<1>7. lat.penalty \in [1 .. Len(lat.nodes) + 1 -> Int]
  <2>1. \A v : PluginPenalty(v) \in Int
    BY DEF PluginPenalty
  <2>. DEFINE Taken(r) == IF p.user = "partialInput"
                          THEN PluginPenalty(CheckViolation(ReadExample(p.lines), WordAt(p, r))) ELSE 0
  <2>2. lat.penalty = [r \in 1 .. Len(p.nodes) + 1 |-> Taken(r)]
    BY <1>2 DEF Prepared
  <2>3. \A r : Taken(r) \in Int
    BY <2>1
  <2>. HIDE DEF Taken
  <2>4. QED
    BY <2>2, <2>3, <1>5
<1>8. /\ cfg.beam \in Nat \ {0} /\ cfg.global \in Nat /\ cfg.check \in Nat /\ cfg.right \in Nat
      /\ cfg.extra \in BOOLEAN /\ (cfg.extra => cfg.global > 0) /\ (cfg.check > 0 => cfg.right > 0)
  BY <1>3, BeamConstants
<1>9. QED
  BY <1>4, <1>5, <1>6, <1>7, <1>8 DEF InputOK

\* Nothing changes the lattice or the configuration.
LEMMA NextKeepsInput ==
  ASSUME [Next]_vars
  PROVE  lat' = lat /\ cfg' = cfg
BY DEF Next, vars, ScoreFull, ScoreGlobal, SkipBoundary, AdjustBoundary, RemakeEosBeam, FillIn, Done

\* Facts about any beam, processed or not
LEMMA BeamFacts ==
  ASSUME InputOK, TypesOK, BeamsOK, NEW l \in NodeIds
  PROVE  /\ beams[l] \in Seq(Elements) /\ Len(beams[l]) \in Nat
         /\ DOMAIN beams[l] = 1 .. Len(beams[l]) /\ Len(beams[l]) <= cfg.beam
         /\ \A k \in DOMAIN beams[l] : /\ beams[l][k] \in Elements
                                       /\ beams[l][k].total \in Int
                                       /\ l = Bos => beams[l][k] = BosElement /\ k = 1
                                       /\ l # Bos => l \in Processed /\ Points(beams[l][k], Start(l))
<1>1. beams[l] \in Seq(Elements) /\ cfg.beam \in Nat \ {0}
  BY DEF TypesOK, InputOK
<1>2. Len(beams[l]) \in Nat /\ DOMAIN beams[l] = 1 .. Len(beams[l])
      /\ \A k \in DOMAIN beams[l] : beams[l][k] \in Elements
  <2>. HIDE DEF Elements
  <2>1. QED
    BY <1>1, ElementOfSeq
<1>3. \A k \in DOMAIN beams[l] : beams[l][k].total \in Int
  BY <1>2 DEF Elements
<1>4. CASE l = Bos
  <2>1. beams[l] = <<BosElement>>
    BY <1>4 DEF TypesOK
  <2>2. QED
    BY <1>1, <1>2, <1>3, <1>4, <2>1
<1>5. CASE l # Bos
  <2>1. l \in 1 .. Eos
    BY <1>5, NodesOfLattice
  <2>2. CASE l \in Processed
    BY <1>1, <1>2, <1>3, <1>5, <2>2 DEF BeamsOK, MadeOf
  <2>3. CASE l \notin Processed
    <3>1. beams[l] = <<>>
      BY <2>1, <2>3 DEF TypesOK
    <3>2. Len(beams[l]) = 0 /\ DOMAIN beams[l] = {}
      BY <1>2, <3>1
    <3>3. QED
      BY <1>1, <1>2, <3>2
  <2>4. QED
    BY <2>2, <2>3
<1>6. QED
  BY <1>4, <1>5

\* What points to the left of a node has a score with it, that of the node two
\* places back on its own path.
LEMMA PointersHaveScores ==
  ASSUME InputOK, TypesOK, BeamsOK,
         NEW r \in 1 .. Eos, NEW el, Points(el, Start(r))
  PROVE  /\ <<T2(el), el.left, r>> \in Linked(lat)
         /\ IF el.left = Bos THEN T2(el) = -1 ELSE T2(el) \in Left(Start(el.left))
         /\ FeatureScore(el, r) \in Int
         /\ lat.extra[<<T2(el), el.left, r>>] \in Int
         /\ WeightedScore(el, r) \in Int
         /\ beams[el.left][el.beam].total \in Int
         /\ beams[el.left][el.beam] \in Elements
<1>1. Start(r) \in 0 .. lat.n
  BY NodesOfLattice
<1>2. el.left \in Left(Start(r)) /\ el.left \in NodeIds /\ el.beam \in DOMAIN beams[el.left]
  BY <1>1, NodesOfLattice DEF Points
<1>3. IF el.left = Bos THEN beams[el.left][el.beam] = BosElement
      ELSE Points(beams[el.left][el.beam], Start(el.left))
  BY <1>2, BeamFacts
<1>4. IF el.left = Bos THEN T2(el) = -1 ELSE T2(el) \in Left(Start(el.left))
  BY <1>3 DEF T2, Points, BosElement, Element
<1>5. /\ <<T2(el), el.left, r>> \in Linked(lat) /\ TrigramScore(<<T2(el), el.left, r>>) \in Int
      /\ lat.extra[<<T2(el), el.left, r>>] \in Int
  BY <1>2, <1>4, TrigramsHaveScores
<1>6. FeatureScore(el, r) \in Int
  BY <1>5 DEF FeatureScore
<1>7. FeatureWeight \in Int /\ ExtraWeight \in Int
  BY BeamConstants
<1>8. WeightedScore(el, r) \in Int
  BY <1>5, <1>6, <1>7 DEF WeightedScore
<1>9. beams[el.left][el.beam].total \in Int /\ beams[el.left][el.beam] \in Elements
  BY <1>2, BeamFacts
<1>10. QED
  BY <1>4, <1>5, <1>6, <1>8, <1>9

\* The candidates of a boundary are the elements of the beams to its left,
\* each with the total it has there; there are at most a beam full for a node.
LEMMA CandidatesOfBoundary ==
  ASSUME InputOK, TypesOK, BeamsOK, NEW b \in 0 .. lat.n
  PROVE  /\ Candidates(b) \in SUBSET Elements
         /\ \A c \in Candidates(b) : Points(c, b) /\ c.total = beams[c.left][c.beam].total
         /\ \A c, d \in Candidates(b) : SamePlace(c, d) => c = d
         /\ \A l \in Left(b) : \A k \in DOMAIN beams[l] :
              \E c \in Candidates(b) : c.left = l /\ c.beam = k
         /\ IsFiniteSet(Candidates(b)) /\ Cardinality(Candidates(b)) \in Nat
         /\ cfg.global > 0 /\ cfg.global >= cfg.beam * Len(lat.nodes)
              => Cardinality(Candidates(b)) <= cfg.global
<1>1. \A c \in Candidates(b) : \E l \in Left(b) : \E k \in DOMAIN beams[l] :
        c = Element(l, k, beams[l][k].total)
  BY DEF Candidates
<1>2. \A l \in Left(b) : \A k \in DOMAIN beams[l] :
        Element(l, k, beams[l][k].total) \in Candidates(b)
  BY DEF Candidates
<1>3. \A l \in Left(b) : \A k \in DOMAIN beams[l] :
        /\ l \in Nat /\ l < Eos /\ k \in 1 .. cfg.beam /\ beams[l][k].total \in Int
        /\ Points(Element(l, k, beams[l][k].total), b)
  <2>1. TAKE l \in Left(b)
  <2>2. TAKE k \in DOMAIN beams[l]
  <2>3. l \in NodeIds /\ l \in Nat /\ l < Eos
    BY NodesOfLattice
  <2>4. k \in 1 .. cfg.beam /\ beams[l][k].total \in Int
    BY <2>3, BeamFacts DEF InputOK
  <2>5. QED
    BY <2>3, <2>4 DEF Points, Element
<1>4. \A c \in Candidates(b) : /\ c \in Elements /\ Points(c, b)
                               /\ c.total = beams[c.left][c.beam].total
                               /\ c.left \in Left(b) /\ c.beam \in 1 .. cfg.beam
  <2>1. TAKE c \in Candidates(b)
  <2>2. PICK l \in Left(b) : \E k \in DOMAIN beams[l] : c = Element(l, k, beams[l][k].total)
    BY <1>1
  <2>3. PICK k \in DOMAIN beams[l] : c = Element(l, k, beams[l][k].total)
    BY <2>2
  <2>4. c.left = l /\ c.beam = k /\ c.total = beams[l][k].total
    BY <2>3 DEF Element
  <2>5. QED
    BY <1>3, <2>3, <2>4 DEF Element, Elements
<1>5. \A c, d \in Candidates(b) : SamePlace(c, d) => c = d
  BY <1>4 DEF SamePlace, Elements
<1>6. \A l \in Left(b) : \A k \in DOMAIN beams[l] :
        \E c \in Candidates(b) : c.left = l /\ c.beam = k
  <2>1. TAKE l \in Left(b)
  <2>2. TAKE k \in DOMAIN beams[l]
  <2>3. Element(l, k, beams[l][k].total).left = l /\ Element(l, k, beams[l][k].total).beam = k
    BY DEF Element
  <2>4. QED
    BY <1>2, <2>3
<1>. DEFINE places == Left(b) \X (1 .. cfg.beam)
            f == [c \in Candidates(b) |-> <<c.left, c.beam>>]
<1>7. cfg.beam \in Nat \ {0} /\ IsFiniteSet(1 .. cfg.beam) /\ Cardinality(1 .. cfg.beam) = cfg.beam
  <2>1. cfg.beam \in Nat \ {0} /\ 1 \in Int /\ cfg.beam \in Int
    BY DEF InputOK
  <2>2. IsFiniteSet(1 .. cfg.beam)
        /\ Cardinality(1 .. cfg.beam) = IF 1 > cfg.beam THEN 0 ELSE cfg.beam - 1 + 1
    BY <2>1, FS_Interval
  <2>3. QED
    BY <2>1, <2>2
<1>8. IsFiniteSet(places) /\ Cardinality(places) = Cardinality(Left(b)) * cfg.beam
  BY <1>7, SidesAreFinite, FS_Product
<1>9. f \in Injection(Candidates(b), places)
  <2>1. f \in [Candidates(b) -> places]
    BY <1>4
  <2>2. \A c, d \in Candidates(b) : f[c] = f[d] => c = d
    BY <1>5 DEF SamePlace
  <2>3. QED
    BY <2>1, <2>2 DEF Injection, IsInjective
<1>10. IsFiniteSet(Candidates(b)) /\ Cardinality(Candidates(b)) <= Cardinality(places)
  BY <1>8, <1>9, FS_Injection
<1>11. Cardinality(Candidates(b)) \in Nat
  BY <1>10, FS_CardinalityType
<1>12. ASSUME cfg.global > 0, cfg.global >= cfg.beam * Len(lat.nodes)
       PROVE  Cardinality(Candidates(b)) <= cfg.global
  <2>1. Len(lat.nodes) \in Nat /\ cfg.global \in Nat /\ Eos = Len(lat.nodes) + 1
    BY DEF InputOK, Eos
  <2>2. CASE b = 0
    <3>1. \A c \in Candidates(b) : c = Element(Bos, 1, 0)
      <4>1. TAKE c \in Candidates(b)
      <4>2. c.left = Bos /\ c.beam \in DOMAIN beams[Bos]
        BY <1>4, <2>2, NodesOfLattice DEF Points
      <4>3. beams[Bos] = <<BosElement>>
        BY DEF TypesOK
      <4>4. c.beam = 1 /\ c.total = 0
        BY <1>4, <4>2, <4>3 DEF BosElement, Element
      <4>5. QED
        BY <1>4, <4>2, <4>4 DEF Elements, Element
    <3>2. Candidates(b) \subseteq {Element(Bos, 1, 0)}
      BY <3>1
    <3>3. Cardinality(Candidates(b)) <= 1
      <4>1. IsFiniteSet({Element(Bos, 1, 0)}) /\ Cardinality({Element(Bos, 1, 0)}) = 1
        BY FS_Singleton
      <4>2. QED
        BY <3>2, <4>1, FS_Subset
    <3>4. QED
      BY <1>11, <1>12, <2>1, <3>3
  <2>3. CASE b # 0
    <3>1. Left(b) \subseteq 1 .. Len(lat.nodes)
      BY <2>1, <2>3 DEF Left
    <3>2. Cardinality(Left(b)) <= Len(lat.nodes)
      <4>1. IsFiniteSet(1 .. Len(lat.nodes))
            /\ Cardinality(1 .. Len(lat.nodes))
                 = IF 1 > Len(lat.nodes) THEN 0 ELSE Len(lat.nodes) - 1 + 1
        <5>1. 1 \in Int /\ Len(lat.nodes) \in Int
          BY <2>1
        <5>2. QED
          BY <5>1, FS_Interval
      <4>2. Cardinality(Left(b)) <= Cardinality(1 .. Len(lat.nodes))
        BY <3>1, <4>1, FS_Subset
      <4>3. Cardinality(1 .. Len(lat.nodes)) = Len(lat.nodes)
        BY <2>1, <4>1
      <4>4. QED
        BY <4>2, <4>3
    <3>3. Cardinality(Left(b)) \in Nat
      BY SidesAreFinite, FS_CardinalityType
    <3>4. \A x, y, z \in Nat : x <= y => x * z <= z * y
      OBVIOUS
    <3>5. Cardinality(Left(b)) * cfg.beam <= cfg.beam * Len(lat.nodes)
      BY <1>7, <2>1, <3>2, <3>3, <3>4
    <3>6. Cardinality(Left(b)) * cfg.beam \in Nat /\ cfg.beam * Len(lat.nodes) \in Nat
      BY <1>7, <2>1, <3>3
    <3>7. QED
      BY <1>8, <1>10, <1>11, <1>12, <2>1, <3>5, <3>6
  <2>4. QED
    BY <2>2, <2>3
<1>13. QED
  BY <1>4, <1>5, <1>6, <1>10, <1>11, <1>12

\* The image of a finite set under a function is finite.
LEMMA ImageIsFinite ==
  ASSUME NEW S, IsFiniteSet(S), NEW f, f = [x \in S |-> f[x]]
  PROVE  IsFiniteSet({f[x] : x \in S})
<1>1. f \in Surjection(S, {f[x] : x \in S})
  BY DEF Surjection
<1>2. QED
  BY <1>1, FS_Surjection

Extensions(F, r) == {Extended(c, r) : c \in F}

\* A beam made of candidates has what the invariant asks of it.
LEMMA BeamOfCandidates ==
  ASSUME InputOK, TypesOK, BeamsOK,
         NEW r \in 1 .. Eos, NEW F \in SUBSET Candidates(Start(r)),
         NEW s \in BestBeams(Extensions(F, r), cfg.beam)
  PROVE  /\ s \in Seq(Elements) /\ DOMAIN s = 1 .. Len(s) /\ Len(s) <= cfg.beam
         /\ \A k \in DOMAIN s : Points(s[k], Start(r)) /\ \E c \in F : SamePlace(c, s[k])
         /\ \A j, k \in DOMAIN s : SamePlace(s[j], s[k]) => j = k
         /\ s # <<>> <=> F # {}
         /\ ScoredOf(s, r)
         /\ \A c \in F : \/ \E k \in DOMAIN s : SamePlace(s[k], c)
                         \/ Len(s) = cfg.beam /\ \A k \in DOMAIN s : s[k].total >= Extended(c, r).total
<1>. DEFINE b == Start(r)
            S == {Extended(c, r) : c \in F}
<1>1. b \in 0 .. lat.n /\ cfg.beam \in Nat \ {0}
  BY NodesOfLattice DEF InputOK
<1>2. /\ F \in SUBSET Elements /\ IsFiniteSet(F)
      /\ \A c \in F : Points(c, b) /\ c.total = beams[c.left][c.beam].total
      /\ \A c, d \in F : SamePlace(c, d) => c = d
  BY <1>1, CandidatesOfBoundary, FS_Subset
<1>3. ASSUME NEW c \in F
      PROVE  /\ Extended(c, r) \in Elements
             /\ Extended(c, r).left = c.left /\ Extended(c, r).beam = c.beam
             /\ Extended(c, r).total = c.total + FeatureScore(c, r)
             /\ SamePlace(c, Extended(c, r)) /\ SamePlace(Extended(c, r), c)
  <2>1. FeatureScore(c, r) \in Int
    BY <1>2, PointersHaveScores
  <2>2. c.left \in Int /\ c.beam \in Nat /\ c.total \in Int
    BY <1>2 DEF Elements
  <2>3. QED
    BY <2>1, <2>2 DEF Extended, Element, Elements, SamePlace
<1>4. S \in SUBSET Elements
  BY <1>3
<1>5. IsFiniteSet(S)
  <2>. DEFINE f == [c \in F |-> Extended(c, r)]
  <2>1. f = [c \in F |-> f[c]] /\ S = {f[c] : c \in F}
    OBVIOUS
  <2>. HIDE DEF f, S
  <2>2. QED
    BY <1>2, <2>1, ImageIsFinite
<1>. HIDE DEF b
<1>6. /\ s \in Seq(Elements) /\ DOMAIN s = 1 .. Len(s)
      /\ Len(s) <= cfg.beam
      /\ \A i \in DOMAIN s : s[i] \in S
      /\ \A i, j \in DOMAIN s : s[i] = s[j] => i = j
      /\ \A i, j \in DOMAIN s : i < j => s[i].total >= s[j].total
      /\ s # <<>> <=> S # {}
      /\ \A c \in S : \/ \E i \in DOMAIN s : s[i] = c
                      \/ Len(s) = cfg.beam /\ \A i \in DOMAIN s : s[i].total >= c.total
  <2>. HIDE DEF S
  <2>1. s \in BestBeams(S, cfg.beam)
    BY DEF S, Extensions
  <2>2. QED
    BY <1>1, <1>4, <1>5, <2>1, BestBeamsProperties
<1>7. \A k \in DOMAIN s : \E c \in F : s[k] = Extended(c, r)
  BY <1>6
<1>8. S # {} <=> F # {}
  OBVIOUS
<1>. HIDE DEF S
<1>9. ASSUME NEW k \in DOMAIN s
      PROVE  /\ Points(s[k], b)
             /\ \E c \in F : SamePlace(c, s[k])
             /\ s[k].total = beams[s[k].left][s[k].beam].total + FeatureScore(s[k], r)
  <2>1. PICK c \in F : s[k] = Extended(c, r)
    BY <1>7
  <2>2. s[k].left = c.left /\ s[k].beam = c.beam /\ s[k].total = c.total + FeatureScore(c, r)
    BY <1>3, <2>1
  <2>3. FeatureScore(s[k], r) = FeatureScore(c, r)
    BY <2>2 DEF FeatureScore, T2
  <2>4. SamePlace(c, s[k])
    BY <1>3, <2>1
  <2>5. QED
    BY <1>2, <2>2, <2>3, <2>4 DEF Points
<1>10. ASSUME NEW j \in DOMAIN s, NEW k \in DOMAIN s, SamePlace(s[j], s[k])
       PROVE  j = k
  <2>1. PICK c \in F : s[j] = Extended(c, r)
    BY <1>7
  <2>2. PICK d \in F : s[k] = Extended(d, r)
    BY <1>7
  <2>3. SamePlace(c, d)
    BY <1>3, <1>10, <2>1, <2>2 DEF SamePlace
  <2>4. s[j] = s[k]
    BY <1>2, <2>1, <2>2, <2>3
  <2>5. QED
    BY <1>6, <2>4
<1>11. ASSUME NEW c \in F
       PROVE  \/ \E k \in DOMAIN s : SamePlace(s[k], c)
              \/ Len(s) = cfg.beam /\ \A k \in DOMAIN s : s[k].total >= Extended(c, r).total
  <2>1. Extended(c, r) \in S
    BY DEF S
  <2>2. QED
    BY <1>3, <1>6, <2>1
<1>12. ScoredOf(s, r)
  BY <1>6, <1>9 DEF ScoredOf
<1>13. QED
  BY <1>6, <1>8, <1>9, <1>10, <1>11, <1>12 DEF b

-------------------------------------------------------------------------------
(* The steps of the phase "score"                                          *)

\* What is processed after a boundary has been scored
LEMMA ProcessedAfter ==
  ASSUME InputOK, PhaseOK, pc = "score", lat' = lat,
         \/ bnd < lat.n /\ bnd' = bnd + 1 /\ pc' = "score"
         \/ bnd = lat.n /\ pc' # "score"
  PROVE  /\ Processed' = Processed \cup Right(bnd)
         /\ Processed \cap Right(bnd) = {}
         /\ Processed \subseteq 1 .. Eos
         /\ \A r \in Processed \cup Right(bnd) : \A l \in Left(Start(r)) : l \notin Right(bnd)
<1>1. /\ bnd \in 0 .. lat.n /\ lat.n \in Nat /\ Eos' = Eos
      /\ \A r \in 1 .. Eos : Start(r) \in 0 .. lat.n
      /\ Right(bnd) = {r \in 1 .. Eos : Start(r) = bnd}
  BY NodesOfLattice DEF PhaseOK, Eos, Right
<1>2. Processed = {r \in 1 .. Eos : Start(r) < bnd}
  BY DEF Processed
<1>3. Processed' = IF pc' = "score" THEN {r \in 1 .. Eos : Start(r) < bnd'} ELSE 1 .. Eos
  BY DEF Processed, Start, Eos
<1>4. Processed' = Processed \cup Right(bnd)
  <2>1. CASE bnd < lat.n /\ bnd' = bnd + 1 /\ pc' = "score"
    BY <1>1, <1>2, <1>3, <2>1
  <2>2. CASE bnd = lat.n /\ pc' # "score"
    BY <1>1, <1>2, <1>3, <2>2
  <2>3. QED
    BY <2>1, <2>2
<1>5. ASSUME NEW r \in Processed \cup Right(bnd), NEW l \in Left(Start(r))
      PROVE  l \notin Right(bnd)
  <2>1. r \in 1 .. Eos /\ Start(r) \in 0 .. lat.n /\ Start(r) <= bnd
    BY <1>1, <1>2
  <2>2. l = Bos \/ (l \in 1 .. Eos /\ Start(l) < Start(r) /\ Start(l) \in 0 .. lat.n)
    BY <2>1, NodesOfLattice
  <2>3. l # Bos => ~(Start(l) = bnd)
    BY <1>1, <2>1, <2>2
  <2>4. Bos \notin 1 .. Eos
    BY NodesOfLattice
  <2>5. QED
    BY <1>1, <2>3, <2>4
<1>6. QED
  BY <1>1, <1>2, <1>4, <1>5

\* Operators that look at the lattice only do not change.
LEMMA LatticeStays ==
  ASSUME lat' = lat
  PROVE  /\ Eos' = Eos /\ NodeIds' = NodeIds
         /\ \A r : Start(r)' = Start(r)
         /\ \A b : Left(b)' = Left(b)
         /\ \A b : Right(b)' = Right(b)
         /\ \A t : TrigramScore(t)' = TrigramScore(t)
BY DEF Eos, NodeIds, Start, Left, Right, TrigramScore, Bos

\* A beam and those to its left stay what they are as long as none of them
\* changes.
LEMMA BeamStays ==
  ASSUME InputOK, lat' = lat, cfg' = cfg,
         NEW r \in 1 .. Eos, NEW s, beams'[r] = s, MadeOf(s, r),
         \A l \in Left(Start(r)) : beams'[l] = beams[l]
  PROVE  /\ MadeOf(beams[r], r)'
         /\ ScoredOf(s, r) => ScoredOf(beams[r], r)'
         /\ CompleteOf(s, r) => CompleteOf(beams[r], r)'
<1>1. /\ Start(r)' = Start(r) /\ Left(Start(r))' = Left(Start(r))
      /\ \A t : TrigramScore(t)' = TrigramScore(t)
  BY LatticeStays
<1>2. \A el : Points(el, Start(r)) => Points(el, Start(r))'
  BY <1>1 DEF Points
<1>3. MadeOf(beams[r], r)'
  <2>1. (beams[r] # <<>> <=> \E l \in Left(Start(r)) : beams[l] # <<>>)'
    BY <1>1 DEF MadeOf
  <2>2. (\A k \in DOMAIN beams[r] : Points(beams[r][k], Start(r)))'
    BY <1>2 DEF MadeOf
  <2>3. (Len(beams[r]) <= cfg.beam)'
    BY DEF MadeOf
  <2>4. (\A j, k \in DOMAIN beams[r] : SamePlace(beams[r][j], beams[r][k]) => j = k)'
    BY DEF MadeOf, SamePlace
  <2>5. QED
    BY <2>1, <2>2, <2>3, <2>4 DEF MadeOf
<1>4. \A el : Points(el, Start(r)) =>
        /\ beams'[el.left][el.beam] = beams[el.left][el.beam]
        /\ FeatureScore(el, r)' = FeatureScore(el, r)
  BY <1>1 DEF Points, FeatureScore, T2
<1>5. ASSUME ScoredOf(s, r)
      PROVE  ScoredOf(beams[r], r)'
  <2>1. \A k \in DOMAIN s : Points(s[k], Start(r))
    BY DEF MadeOf
  <2>2. ASSUME NEW k \in DOMAIN s
        PROVE  s[k].total = beams'[s[k].left][s[k].beam].total + FeatureScore(s[k], r)'
    BY <1>4, <1>5, <2>1 DEF ScoredOf
  <2>3. (\A k \in DOMAIN beams[r] :
          beams[r][k].total = beams[beams[r][k].left][beams[r][k].beam].total
                                + FeatureScore(beams[r][k], r))'
    BY <2>2 DEF FeatureScore, T2
  <2>4. \A j, k \in DOMAIN s : j < k => s[j].total >= s[k].total
    BY <1>5 DEF ScoredOf
  <2>5. QED
    BY <2>3, <2>4 DEF ScoredOf
<1>6. ASSUME CompleteOf(s, r)
      PROVE  CompleteOf(beams[r], r)'
  <2>1. Candidates(Start(r))' = Candidates(Start(r))
    BY <1>1 DEF Candidates, Element
  <2>2. \A c \in Candidates(Start(r)) : Points(c, Start(r))
    BY DEF Candidates, Element, Points
  <2>3. \A c \in Candidates(Start(r)) : Extended(c, r)' = Extended(c, r)
    BY <1>4, <2>2 DEF Extended, Element
  <2>4. QED
    BY <1>6, <2>1, <2>3 DEF CompleteOf, SamePlace
<1>7. QED
  BY <1>3, <1>5, <1>6

\* Processing a boundary, whichever way its beams and its global beam are made
LEMMA ScoreStep ==
  ASSUME IInv, pc = "score", lat' = lat, cfg' = cfg,
         \/ bnd < lat.n /\ bnd' = bnd + 1 /\ pc' = "score"
         \/ bnd = lat.n /\ bnd' = 1 /\ pc' = IF cfg.extra THEN "adjust" ELSE "fill",
         NEW new, new \in [Right(bnd) -> Seq(Elements)],
         beams' = [r \in NodeIds |-> IF r \in Right(bnd) THEN new[r] ELSE beams[r]],
         \A r \in Right(bnd) : /\ MadeOf(new[r], r) /\ ScoredOf(new[r], r)
                               /\ Wide => CompleteOf(new[r], r),
         NEW g, g \in Seq(Elements), gbeam' = [gbeam EXCEPT ![bnd] = g],
         Len(g) <= cfg.global, \A i \in DOMAIN g : Points(g[i], bnd),
         cfg.global > 0 => \A r \in Right(bnd) : FromGlobal(new[r], g)
  PROVE  IInv'
<1>1. \A r \in NodeIds : beams'[r] = IF r \in Right(bnd) THEN new[r] ELSE beams[r]
  OBVIOUS
<1>. USE DEF IInv
<1>2. /\ lat.n \in Nat \ {0} /\ Eos \in Nat \ {0} /\ Bos = 0 /\ NodeIds = 0 .. Eos
      /\ \A r \in 1 .. Eos : Start(r) \in 0 .. lat.n
      /\ bnd \in 0 .. lat.n
  BY NodesOfLattice DEF PhaseOK
<1>3. /\ Processed' = Processed \cup Right(bnd)
      /\ Processed \cap Right(bnd) = {}
      /\ Processed \subseteq 1 .. Eos /\ Right(bnd) \subseteq 1 .. Eos
      /\ \A r \in Processed \cup Right(bnd) : \A l \in Left(Start(r)) : l \notin Right(bnd)
  BY ProcessedAfter, NodesOfLattice
<1>4. Eos' = Eos /\ NodeIds' = NodeIds /\ \A b : Left(b)' = Left(b)
  BY LatticeStays
<1>5. InputOK'
  BY DEF InputOK, Covered, Linked, EndAt, WordAt
<1>6. PhaseOK'
  <2>1. /\ bnd' \in 0 .. lat.n
        /\ pc' = "score" \/ pc' = "fill" \/ (pc' = "adjust" /\ cfg.extra /\ bnd' = 1)
    <3>1. CASE bnd < lat.n /\ bnd' = bnd + 1 /\ pc' = "score"
      BY <1>2, <3>1
    <3>2. CASE bnd = lat.n /\ bnd' = 1 /\ pc' = IF cfg.extra THEN "adjust" ELSE "fill"
      BY <1>2, <3>2
    <3>3. QED
      BY <3>1, <3>2
  <2>2. QED
    BY <2>1 DEF PhaseOK
<1>7. TypesOK'
  <2>. HIDE DEF Elements
  <2>1. beams \in [NodeIds -> Seq(Elements)] /\ gbeam \in [0 .. lat.n -> Seq(Elements)]
    BY DEF TypesOK
  <2>2. beams' \in [NodeIds -> Seq(Elements)] /\ gbeam' \in [0 .. lat.n -> Seq(Elements)]
    BY <2>1
  <2>3. beams'[Bos] = <<BosElement>>
    <3>1. Bos \in NodeIds /\ Bos \notin Right(bnd)
      BY <1>2, <1>3
    <3>2. QED
      BY <1>1, <3>1 DEF TypesOK
  <2>4. ASSUME NEW r \in 1 .. Eos, r \notin Processed'
        PROVE  beams'[r] = <<>>
    <3>1. r \notin Processed /\ r \notin Right(bnd) /\ r \in NodeIds
      BY <1>2, <1>3, <2>4
    <3>2. QED
      BY <1>1, <3>1 DEF TypesOK
  <2>5. Bos' = Bos /\ BosElement' = BosElement /\ Elements' = Elements
    BY DEF Bos, BosElement, Element, Elements
  <2>6. QED
    BY <1>4, <2>2, <2>3, <2>4, <2>5 DEF TypesOK
<1>8. BeamsOK'
  <2>1. SUFFICES ASSUME NEW r \in Processed \cup Right(bnd)
                 PROVE  /\ MadeOf(beams[r], r)'
                        /\ Pure' => ScoredOf(beams[r], r)'
                        /\ Wide' => CompleteOf(beams[r], r)'
    BY <1>3 DEF BeamsOK
  <2>2. r \in 1 .. Eos /\ Start(r) \in 0 .. lat.n /\ r \in NodeIds
    BY <1>2, <1>3
  <2>. DEFINE s == IF r \in Right(bnd) THEN new[r] ELSE beams[r]
  <2>3. MadeOf(s, r) /\ ScoredOf(s, r) /\ (Wide => CompleteOf(s, r))
    <3>1. CASE r \in Right(bnd)
      BY <3>1
    <3>2. CASE r \notin Right(bnd)
      BY <3>2 DEF BeamsOK, Pure
    <3>3. QED
      BY <3>1, <3>2
  <2>4. beams'[r] = s
    BY <1>1, <2>2
  <2>. HIDE DEF s
  <2>5. \A l \in Left(Start(r)) : beams'[l] = beams[l]
    BY <1>3, <1>1, <2>2, NodesOfLattice
  <2>6. Wide' = Wide
    BY DEF Wide
  <2>7. QED
    BY <2>2, <2>3, <2>4, <2>5, <2>6, BeamStays
<1>9. GlobalOK'
  <2>1. \A b \in 0 .. lat.n : gbeam'[b] = IF b = bnd THEN g ELSE gbeam[b]
    BY DEF TypesOK
  <2>2. ASSUME NEW b \in 0 .. lat.n
        PROVE  /\ Len(gbeam'[b]) <= cfg.global
               /\ \A i \in DOMAIN gbeam'[b] : Points(gbeam'[b][i], b)
    BY <2>1 DEF GlobalOK
  <2>3. ASSUME NEW b \in 0 .. lat.n, NEW el, Points(el, b)
        PROVE  Points(el, b)'
    <3>1. CASE el.left \in Right(bnd)
      <4>1. el.left \in NodeIds /\ el.left \in 1 .. Eos /\ el.left \notin Processed
        BY <1>2, <1>3, <2>3, <3>1
      <4>2. beams[el.left] = <<>>
        BY <4>1 DEF TypesOK
      <4>3. DOMAIN beams[el.left] = {}
        BY <4>2
      <4>4. QED
        BY <4>3, <2>3 DEF Points
    <3>2. CASE el.left \notin Right(bnd)
      <4>1. el.left \in Left(b) /\ el.left \in NodeIds
        BY <2>3, NodesOfLattice DEF Points
      <4>2. beams'[el.left] = beams[el.left]
        BY <1>1, <3>2, <4>1
      <4>3. QED
        BY <1>4, <2>3, <4>2 DEF Points
    <3>3. QED
      BY <3>1, <3>2
  <2>4. ASSUME NEW b \in 0 .. lat.n, NEW i \in DOMAIN gbeam'[b]
        PROVE  Points(gbeam[b][i], b)'
    <3>1. Points(gbeam'[b][i], b)
      BY <2>2
    <3>2. QED
      BY <1>4, <2>3, <3>1 DEF Points
  <2>5. ASSUME cfg.global > 0, NEW r \in Processed \cup Right(bnd)
        PROVE  FromGlobal(beams'[r], gbeam'[Start(r)])
    <3>1. r \in 1 .. Eos /\ r \in NodeIds /\ Start(r) \in 0 .. lat.n
      BY <1>2, <1>3
    <3>2. CASE r \in Right(bnd)
      BY <1>1, <2>1, <2>5, <3>1, <3>2, NodesOfLattice
    <3>3. CASE r \notin Right(bnd)
      <4>1. Start(r) # bnd
        BY <3>1, <3>3 DEF Right
      <4>2. QED
        BY <1>1, <2>1, <2>5, <3>1, <3>3, <4>1 DEF GlobalOK
    <3>4. QED
      BY <3>2, <3>3
  <2>6. \A r : FromGlobal(beams[r], gbeam[Start(r)])' <=> FromGlobal(beams'[r], gbeam'[Start(r)])
    <3>1. TAKE r
    <3>2. Start(r)' = Start(r)
      BY LatticeStays
    <3>3. gbeam[Start(r)]' = gbeam'[Start(r)]
      BY <3>2
    <3>4. QED
      BY <3>3
  <2>7. (cfg.global > 0 => \A r \in Processed : FromGlobal(beams[r], gbeam[Start(r)]))'
    BY <1>3, <2>5, <2>6
  <2>8. QED
    BY <2>2, <2>4, <2>7 DEF GlobalOK
<1>10. AdjustedOK'
  <2>1. AdjustedSoFar' = {}
    BY DEF AdjustedSoFar
  <2>2. QED
    BY <2>1 DEF AdjustedOK
<1>11. RemadeOK'
  BY DEF RemadeOK
<1>12. ResultOK'
  BY DEF ResultOK
<1>13. QED
  BY <1>5, <1>6, <1>7, <1>8, <1>9, <1>10, <1>11, <1>12

\* In the beginning BOS alone has a beam, and nothing has been processed.
LEMMA InitIInv == Init => IInv
<1>. SUFFICES ASSUME Init PROVE IInv
  OBVIOUS
<1>1. InputOK
  BY InitInputOK
<1>2. /\ pc = "score" /\ bnd = 0 /\ path = <<>>
      /\ beams = [r \in NodeIds |-> IF r = Bos THEN <<BosElement>> ELSE <<>>]
      /\ gbeam = [b \in 0 .. lat.n |-> <<>>]
  BY DEF Init
<1>3. /\ lat.n \in Nat \ {0} /\ Eos \in Nat \ {0} /\ Bos = 0 /\ NodeIds = 0 .. Eos
      /\ \A r \in 1 .. Eos : Start(r) \in 0 .. lat.n
  BY <1>1, NodesOfLattice
<1>4. PhaseOK
  BY <1>2, <1>3 DEF PhaseOK
<1>5. Processed = {}
  BY <1>2, <1>3 DEF Processed
<1>6. TypesOK
  <2>1. BosElement \in Elements
    BY DEF BosElement, Element, Elements
  <2>. HIDE DEF Elements
  <2>2. <<BosElement>> \in Seq(Elements) /\ <<>> \in Seq(Elements)
    BY <2>1
  <2>3. beams \in [NodeIds -> Seq(Elements)] /\ gbeam \in [0 .. lat.n -> Seq(Elements)]
    BY <1>2, <2>2
  <2>4. beams[Bos] = <<BosElement>> /\ \A r \in 1 .. Eos : beams[r] = <<>>
    BY <1>2, <1>3
  <2>5. QED
    BY <2>3, <2>4 DEF TypesOK
<1>7. BeamsOK
  BY <1>5 DEF BeamsOK
<1>8. GlobalOK
  <2>1. \A b \in 0 .. lat.n : Len(gbeam[b]) = 0 /\ DOMAIN gbeam[b] = {}
    BY <1>2
  <2>2. cfg.global \in Nat
    BY <1>1 DEF InputOK
  <2>3. QED
    BY <1>5, <2>1, <2>2 DEF GlobalOK
<1>9. AdjustedOK /\ RemadeOK /\ ResultOK
  BY <1>2 DEF AdjustedOK, AdjustedSoFar, RemadeOK, ResultOK
<1>10. QED
  BY <1>1, <1>4, <1>6, <1>7, <1>8, <1>9 DEF IInv

\* A beam to the left is not empty exactly if it has candidates to offer.
LEMMA CandidatesOrNone ==
  ASSUME InputOK, TypesOK, BeamsOK, NEW b \in 0 .. lat.n
  PROVE  Candidates(b) # {} <=> \E l \in Left(b) : beams[l] # <<>>
<1>1. ASSUME NEW l \in Left(b)
      PROVE  beams[l] # <<>> <=> \E k : k \in DOMAIN beams[l]
  <2>1. l \in NodeIds
    BY NodesOfLattice
  <2>2. beams[l] \in Seq(Elements) /\ Len(beams[l]) \in Nat /\ DOMAIN beams[l] = 1 .. Len(beams[l])
    BY <2>1, BeamFacts
  <2>. HIDE DEF Elements
  <2>3. Len(beams[l]) = 0 <=> beams[l] = <<>>
    BY <2>2, EmptySeq
  <2>4. CASE beams[l] = <<>>
    BY <2>2, <2>3, <2>4
  <2>5. CASE beams[l] # <<>>
    <3>1. 1 \in DOMAIN beams[l]
      BY <2>2, <2>3, <2>5
    <3>2. QED
      BY <2>5, <3>1
  <2>6. QED
    BY <2>4, <2>5
<1>2. \A l \in Left(b) : \A k \in DOMAIN beams[l] : \E c \in Candidates(b) : c.left = l
  BY CandidatesOfBoundary
<1>3. \A c \in Candidates(b) : c.left \in Left(b) /\ c.beam \in DOMAIN beams[c.left]
  BY CandidatesOfBoundary DEF Points
<1>4. QED
  BY <1>1, <1>2, <1>3

\* computeScoresFull: the beam of a node is the best of all there is on its left.
LEMMA ScoreFullStep ==
  ASSUME IInv, ScoreFull
  PROVE  IInv'
<1>. DEFINE S(r) == {Extended(c, r) : c \in Candidates(bnd)}
            new == [r \in Right(bnd) |-> Best(S(r), cfg.beam)]
<1>1. /\ pc = "score" /\ cfg.global = 0 /\ lat' = lat /\ cfg' = cfg /\ gbeam' = gbeam
      /\ beams' = [r \in NodeIds |-> IF r \in Right(bnd) THEN Best(S(r), cfg.beam) ELSE beams[r]]
      /\ NextBoundary("fill")
  BY DEF ScoreFull
<1>2. InputOK /\ PhaseOK /\ TypesOK /\ BeamsOK /\ bnd \in 0 .. lat.n /\ ~cfg.extra /\ cfg.beam \in Nat \ {0}
      /\ lat.n \in Nat
  BY <1>1 DEF IInv, PhaseOK, InputOK
<1>3. \/ bnd < lat.n /\ bnd' = bnd + 1 /\ pc' = "score"
      \/ bnd = lat.n /\ bnd' = 1 /\ pc' = IF cfg.extra THEN "adjust" ELSE "fill"
  BY <1>1, <1>2 DEF NextBoundary
<1>4. ASSUME NEW r \in Right(bnd)
      PROVE  /\ new[r] \in Seq(Elements)
             /\ MadeOf(new[r], r) /\ ScoredOf(new[r], r) /\ CompleteOf(new[r], r)
  <2>1. r \in 1 .. Eos /\ Start(r) = bnd
    BY NodesOfLattice, <1>2
  <2>2. S(r) \in SUBSET Elements /\ IsFiniteSet(S(r))
    <3>1. Candidates(bnd) \in SUBSET Elements /\ IsFiniteSet(Candidates(bnd))
          /\ \A c \in Candidates(bnd) : Points(c, bnd)
      BY <1>2, CandidatesOfBoundary
    <3>2. \A c \in Candidates(bnd) : Extended(c, r) \in Elements
      <4>1. TAKE c \in Candidates(bnd)
      <4>2. FeatureScore(c, r) \in Int
        BY <1>2, <2>1, <3>1, PointersHaveScores
      <4>3. c.left \in Int /\ c.beam \in Nat /\ c.total \in Int
        BY <3>1 DEF Elements
      <4>4. QED
        BY <4>2, <4>3 DEF Extended, Element, Elements
    <3>. DEFINE f == [c \in Candidates(bnd) |-> Extended(c, r)]
    <3>3. f = [c \in Candidates(bnd) |-> f[c]] /\ S(r) = {f[c] : c \in Candidates(bnd)}
      OBVIOUS
    <3>. HIDE DEF f
    <3>4. IsFiniteSet(S(r))
      BY <3>1, <3>3, ImageIsFinite
    <3>5. QED
      BY <3>2, <3>4
  <2>3. Best(S(r), cfg.beam) \in BestBeams(S(r), cfg.beam)
    <3>. HIDE DEF S
    <3>1. QED
      BY <1>2, <2>2, BestIsBestBeam
  <2>4. new[r] \in BestBeams(Extensions(Candidates(Start(r)), r), cfg.beam)
    BY <2>1, <2>3 DEF Extensions
  <2>. HIDE DEF new
  <2>5. /\ new[r] \in Seq(Elements) /\ DOMAIN new[r] = 1 .. Len(new[r]) /\ Len(new[r]) <= cfg.beam
        /\ \A k \in DOMAIN new[r] : Points(new[r][k], Start(r))
        /\ \A j, k \in DOMAIN new[r] : SamePlace(new[r][j], new[r][k]) => j = k
        /\ new[r] # <<>> <=> Candidates(Start(r)) # {}
        /\ ScoredOf(new[r], r)
        /\ \A c \in Candidates(Start(r)) :
             \/ \E k \in DOMAIN new[r] : SamePlace(new[r][k], c)
             \/ Len(new[r]) = cfg.beam /\ \A k \in DOMAIN new[r] : new[r][k].total >= Extended(c, r).total
    <3>1. Candidates(Start(r)) \in SUBSET Candidates(Start(r))
      OBVIOUS
    <3>2. QED
      BY <1>2, <2>1, <2>4, <3>1, BeamOfCandidates
  <2>6. Candidates(Start(r)) # {} <=> \E l \in Left(Start(r)) : beams[l] # <<>>
    BY <1>2, <2>1, CandidatesOrNone
  <2>7. MadeOf(new[r], r)
    BY <2>5, <2>6 DEF MadeOf
  <2>8. CompleteOf(new[r], r)
    BY <2>5 DEF CompleteOf
  <2>9. QED
    BY <2>5, <2>7, <2>8
<1>5. /\ new \in [Right(bnd) -> Seq(Elements)]
      /\ beams' = [r \in NodeIds |-> IF r \in Right(bnd) THEN new[r] ELSE beams[r]]
  BY <1>1, <1>4
<1>6. /\ gbeam[bnd] \in Seq(Elements) /\ gbeam' = [gbeam EXCEPT ![bnd] = gbeam[bnd]]
      /\ Len(gbeam[bnd]) <= cfg.global
      /\ \A i \in DOMAIN gbeam[bnd] : Points(gbeam[bnd][i], bnd)
  <2>. HIDE DEF Elements
  <2>1. gbeam \in [0 .. lat.n -> Seq(Elements)]
    BY <1>2 DEF TypesOK
  <2>2. QED
    BY <1>1, <1>2, <2>1 DEF IInv, GlobalOK
<1>7. ~(cfg.global > 0)
  BY <1>1
<1>. HIDE DEF new
<1>8. QED
  BY <1>1, <1>3, <1>4, <1>5, <1>6, <1>7, ScoreStep

\* computeScoresGbeam skips a boundary at which no node starts.  EOS starts at the
\* last one, so that this never ends the phase.
LEMMA SkipBoundaryStep ==
  ASSUME IInv, SkipBoundary
  PROVE  IInv'
<1>1. /\ pc = "score" /\ cfg.global > 0 /\ Right(bnd) = {} /\ lat' = lat /\ cfg' = cfg
      /\ gbeam' = gbeam /\ beams' = beams /\ NextBoundary("fill")
  BY DEF SkipBoundary
<1>2. InputOK /\ bnd \in 0 .. lat.n /\ lat.n \in Nat
  BY DEF IInv, PhaseOK, InputOK
<1>3. bnd # lat.n
  BY <1>1, <1>2, NodesOfLattice
<1>4. bnd < lat.n /\ bnd' = bnd + 1 /\ pc' = "score"
  BY <1>1, <1>2, <1>3 DEF NextBoundary
<1>. DEFINE new == [r \in {} |-> <<>>]
<1>5. new \in [Right(bnd) -> Seq(Elements)]
  BY <1>1
<1>6. beams' = [r \in NodeIds |-> IF r \in Right(bnd) THEN new[r] ELSE beams[r]]
  BY <1>1 DEF IInv, TypesOK
<1>7. /\ gbeam[bnd] \in Seq(Elements) /\ gbeam' = [gbeam EXCEPT ![bnd] = gbeam[bnd]]
      /\ Len(gbeam[bnd]) <= cfg.global
      /\ \A i \in DOMAIN gbeam[bnd] : Points(gbeam[bnd][i], bnd)
  <2>. HIDE DEF Elements
  <2>1. gbeam \in [0 .. lat.n -> Seq(Elements)]
    BY DEF IInv, TypesOK
  <2>2. QED
    BY <1>1, <1>2, <2>1 DEF IInv, GlobalOK
<1>. HIDE DEF new
<1>8. QED
  BY <1>1, <1>4, <1>5, <1>6, <1>7, ScoreStep

\* The head of the global beam: some of its elements, and the first of them
\* when there is one and a right check is made.
LEMMA HeadOfGlobal ==
  ASSUME InputOK, NEW b, Right(bnd) # {}, NEW g \in Seq(Elements)
  PROVE  /\ ToSet(Prefix(g, HeadSize(g))) \subseteq ToSet(g)
         /\ cfg.check > 0 /\ g # <<>> => g[1] \in ToSet(Prefix(g, HeadSize(g)))
<1>. DEFINE sizes == {cfg.check, Cardinality(Right(bnd)), Len(g)}
            k == HeadSize(g)
<1>1. cfg.check \in Nat /\ Cardinality(Right(bnd)) \in Nat /\ Cardinality(Right(bnd)) # 0
  BY SidesAreFinite DEF InputOK
<1>2. Len(g) \in Nat /\ (Len(g) = 0 => g = <<>>)
  <2>. HIDE DEF Elements
  <2>1. QED
    BY EmptySeq
<1>3. k \in sizes /\ k <= Len(g)
  <2>1. \E m \in sizes : m <= cfg.check /\ m <= Cardinality(Right(bnd)) /\ m <= Len(g)
    BY <1>1, <1>2
  <2>2. k = CHOOSE m \in sizes : m <= cfg.check /\ m <= Cardinality(Right(bnd)) /\ m <= Len(g)
    BY DEF HeadSize
  <2>. HIDE DEF sizes, k
  <2>3. QED
    BY <2>1, <2>2
<1>4. k \in Nat /\ (cfg.check > 0 /\ g # <<>> => k >= 1)
  BY <1>1, <1>2, <1>3
<1>. HIDE DEF k, sizes
<1>. DEFINE h == Prefix(g, k)
            m == IF k < Len(g) THEN k ELSE Len(g)
<1>5. m = k
  BY <1>2, <1>3, <1>4
<1>6. h = SubSeq(g, 1, k) /\ DOMAIN h = 1 .. k /\ \A i \in 1 .. k : h[i] = g[i] /\ i \in DOMAIN g
  <2>1. h = SubSeq(g, 1, k)
    BY <1>5 DEF Prefix
  <2>2. \A i \in 1 .. k : i \in DOMAIN g
    BY <1>2, <1>3, <1>4
  <2>3. QED
    BY <1>2, <1>3, <1>4, <2>1, <2>2
<1>. HIDE DEF h
<1>7. ToSet(h) \subseteq ToSet(g)
  BY <1>6 DEF ToSet
<1>8. k >= 1 => g[1] \in ToSet(h)
  <2>1. SUFFICES ASSUME k >= 1 PROVE g[1] \in ToSet(h)
    OBVIOUS
  <2>2. 1 \in DOMAIN h /\ h[1] = g[1]
    BY <1>4, <1>6, <2>1
  <2>3. QED
    BY <2>2 DEF ToSet
<1>9. QED
  BY <1>4, <1>7, <1>8 DEF h, k

\* computeScoresGbeam: a node gets the best of the global beam, or of its head.
\* Neither is empty unless all the beams on its left are, and a global beam that
\* is wide enough leaves nothing out.
LEMMA ScoreGlobalStep ==
  ASSUME IInv, ScoreGlobal
  PROVE  IInv'
<1>. DEFINE global == Best(Candidates(bnd), cfg.global)
            head == Prefix(global, HeadSize(global))
            From(keep, r) == IF r \in keep THEN ToSet(global) ELSE ToSet(head)
            label == IF cfg.extra THEN "adjust" ELSE "fill"
<1>1. /\ pc = "score" /\ cfg.global > 0 /\ Right(bnd) # {} /\ lat' = lat /\ cfg' = cfg
      /\ gbeam' = [gbeam EXCEPT ![bnd] = global]
      /\ NextBoundary(label)
  BY DEF ScoreGlobal
<1>2. PICK keep \in Keepable(head) :
        \E new \in [Right(bnd) -> UNION {BestBeams({Extended(c, r) : c \in From(keep, r)}, cfg.beam)
                                          : r \in Right(bnd)}] :
          /\ \A r \in Right(bnd) :
               new[r] \in BestBeams({Extended(c, r) : c \in From(keep, r)}, cfg.beam)
          /\ beams' = [r \in NodeIds |-> IF r \in Right(bnd) THEN new[r] ELSE beams[r]]
  BY DEF ScoreGlobal
<1>. DEFINE Ranges == UNION {BestBeams({Extended(c, r) : c \in From(keep, r)}, cfg.beam) : r \in Right(bnd)}
<1>3. PICK new \in [Right(bnd) -> Ranges] :
        /\ \A r \in Right(bnd) :
             new[r] \in BestBeams({Extended(c, r) : c \in From(keep, r)}, cfg.beam)
        /\ beams' = [r \in NodeIds |-> IF r \in Right(bnd) THEN new[r] ELSE beams[r]]
  BY <1>2
<1>. HIDE DEF Ranges
<1>4. /\ InputOK /\ PhaseOK /\ TypesOK /\ BeamsOK /\ bnd \in 0 .. lat.n /\ lat.n \in Nat
      /\ cfg.beam \in Nat \ {0} /\ cfg.global \in Nat \ {0} /\ cfg.check \in Nat
  BY <1>1 DEF IInv, PhaseOK, InputOK
<1>5. \/ bnd < lat.n /\ bnd' = bnd + 1 /\ pc' = "score"
      \/ bnd = lat.n /\ bnd' = 1 /\ pc' = IF cfg.extra THEN "adjust" ELSE "fill"
  BY <1>1, <1>4 DEF NextBoundary
<1>6. /\ Candidates(bnd) \in SUBSET Elements /\ IsFiniteSet(Candidates(bnd))
      /\ \A c \in Candidates(bnd) : Points(c, bnd)
      /\ cfg.global >= cfg.beam * Len(lat.nodes) => Cardinality(Candidates(bnd)) <= cfg.global
  BY <1>4, CandidatesOfBoundary
<1>7. /\ global \in Seq(Elements) /\ Len(global) <= cfg.global
      /\ \A i \in DOMAIN global : global[i] \in Candidates(bnd)
      /\ global # <<>> <=> Candidates(bnd) # {}
      /\ Cardinality(Candidates(bnd)) <= cfg.global
           => \A c \in Candidates(bnd) : \E i \in DOMAIN global : global[i] = c
  BY <1>4, <1>6, BestIsBestBeam, BestBeamsProperties
<1>. HIDE DEF global
<1>8. ToSet(head) \subseteq ToSet(global) /\ (cfg.check > 0 /\ global # <<>> => ToSet(head) # {})
  BY <1>1, <1>4, <1>7, HeadOfGlobal
<1>9. ToSet(global) \subseteq Candidates(bnd) /\ (ToSet(global) = {} <=> global = <<>>)
  <2>1. ToSet(global) \subseteq Candidates(bnd)
    BY <1>7 DEF ToSet
  <2>. HIDE DEF Elements
  <2>2. CASE global = <<>>
    BY <2>2 DEF ToSet
  <2>3. CASE global # <<>>
    <3>1. 1 \in DOMAIN global
      BY <1>7, <2>3, EmptySeq, LenProperties
    <3>2. global[1] \in ToSet(global)
      BY <3>1 DEF ToSet
    <3>3. QED
      BY <2>1, <2>3, <3>2
  <2>4. QED
    BY <2>1, <2>2, <2>3
<1>10. cfg.check = 0 => keep = Right(bnd)
  BY <1>2 DEF Keepable
<1>11. ASSUME NEW r \in Right(bnd)
       PROVE  /\ From(keep, r) \subseteq ToSet(global)
              /\ From(keep, r) = {} <=> global = <<>>
              /\ Wide => From(keep, r) = Candidates(bnd)
  <2>1. CASE r \in keep
    <3>1. From(keep, r) = ToSet(global)
      BY <2>1
    <3>2. ASSUME Wide PROVE ToSet(global) = Candidates(bnd)
      <4>1. \A c \in Candidates(bnd) : \E i \in DOMAIN global : global[i] = c
        BY <1>4, <1>6, <1>7, <3>2 DEF Wide
      <4>2. QED
        BY <1>9, <4>1 DEF ToSet
    <3>3. QED
      BY <1>9, <3>1, <3>2
  <2>2. CASE r \notin keep
    <3>1. From(keep, r) = ToSet(head)
      BY <2>2
    <3>2. cfg.check > 0
      BY <1>4, <1>10, <2>2
    <3>3. ~Wide
      BY <1>1, <3>2 DEF Wide
    <3>4. ToSet(head) = {} <=> global = <<>>
      BY <1>8, <1>9, <3>2
    <3>5. QED
      BY <1>8, <3>1, <3>3, <3>4
  <2>3. QED
    BY <2>1, <2>2
<1>. HIDE DEF From, head
<1>12. ASSUME NEW r \in Right(bnd)
       PROVE  /\ new[r] \in Seq(Elements)
              /\ MadeOf(new[r], r) /\ ScoredOf(new[r], r) /\ (Wide => CompleteOf(new[r], r))
              /\ FromGlobal(new[r], global)
  <2>1. r \in 1 .. Eos /\ Start(r) = bnd
    BY NodesOfLattice, <1>4
  <2>2. From(keep, r) \in SUBSET Candidates(Start(r))
    BY <1>9, <1>11, <2>1
  <2>3. new[r] \in BestBeams(Extensions(From(keep, r), r), cfg.beam)
    BY <1>3 DEF Extensions
  <2>4. /\ new[r] \in Seq(Elements) /\ DOMAIN new[r] = 1 .. Len(new[r]) /\ Len(new[r]) <= cfg.beam
        /\ \A k \in DOMAIN new[r] :
             Points(new[r][k], Start(r)) /\ \E c \in From(keep, r) : SamePlace(c, new[r][k])
        /\ \A j, k \in DOMAIN new[r] : SamePlace(new[r][j], new[r][k]) => j = k
        /\ new[r] # <<>> <=> From(keep, r) # {}
        /\ ScoredOf(new[r], r)
        /\ \A c \in From(keep, r) :
             \/ \E k \in DOMAIN new[r] : SamePlace(new[r][k], c)
             \/ Len(new[r]) = cfg.beam /\ \A k \in DOMAIN new[r] : new[r][k].total >= Extended(c, r).total
    BY <1>4, <2>1, <2>2, <2>3, BeamOfCandidates
  <2>5. new[r] = <<>> <=> global = <<>>
    BY <1>11, <2>4
  <2>6. Candidates(Start(r)) # {} <=> \E l \in Left(Start(r)) : beams[l] # <<>>
    BY <1>4, <2>1, CandidatesOrNone
  <2>7. MadeOf(new[r], r)
    BY <1>7, <2>1, <2>4, <2>5, <2>6 DEF MadeOf
  <2>8. Wide => CompleteOf(new[r], r)
    BY <1>11, <2>1, <2>4 DEF CompleteOf
  <2>9. FromGlobal(new[r], global)
    BY <1>11, <2>4, <2>5 DEF FromGlobal, ToSet
  <2>10. QED
    BY <2>4, <2>7, <2>8, <2>9
<1>13. new \in [Right(bnd) -> Seq(Elements)]
  BY <1>3, <1>12
<1>14. \A i \in DOMAIN global : Points(global[i], bnd)
  BY <1>6, <1>7
<1>15. QED
  BY <1>1, <1>3, <1>5, <1>7, <1>12, <1>13, <1>14, ScoreStep

\* The operators with which the result is read do not change with the phase.
LEMMA SameTrace ==
  ASSUME lat' = lat, beams' = beams
  PROVE  \A r, k : Trace(r, k)' = Trace(r, k)
<1>1. Eos' = Eos /\ \A r : Start(r)' = Start(r)
  BY LatticeStays
<1>. DEFINE F(w) == [r \in 1 .. Eos |->
                       [k \in DOMAIN beams[r] |->
                          IF Start(r) = 0 THEN <<>>
                          ELSE <<beams[r][k].left>> \o w[beams[r][k].left][beams[r][k].beam]]]
<1>2. Traces = CHOOSE w : w = F(w)
  BY DEF Traces
<1>3. Traces' = CHOOSE w : w = F(w)'
  BY DEF Traces
<1>4. \A w : F(w)' = F(w)
  BY <1>1
<1>. HIDE DEF F
<1>5. Traces' = Traces
  BY <1>2, <1>3, <1>4
<1>6. QED
  BY <1>5 DEF Trace

\* A node ends at one boundary only.
LEMMA LeftsAreDisjoint ==
  ASSUME InputOK, NEW b \in 0 .. lat.n, NEW d \in 0 .. lat.n,
         NEW l \in Left(b), l \in Left(d)
  PROVE  b = d
BY NodesOfLattice

\* An element does not look beyond the nodes to the left of its own.
LEMMA ScoreOfUnchanged ==
  ASSUME InputOK, lat' = lat,
         NEW r \in 1 .. Eos, NEW el, Points(el, Start(r)), beams'[el.left] = beams[el.left]
  PROVE  /\ WeightedScore(el, r)' = WeightedScore(el, r)
         /\ beams'[el.left][el.beam].total = beams[el.left][el.beam].total
<1>1. \A t : TrigramScore(t)' = TrigramScore(t)
  BY LatticeStays
<1>2. T2(el)' = T2(el)
  BY DEF T2
<1>3. TrigramScore(<<T2(el), el.left, r>>)' = TrigramScore(<<T2(el), el.left, r>>)
  BY <1>2 DEF TrigramScore
<1>4. QED
  BY <1>2, <1>3 DEF WeightedScore, FeatureScore

-------------------------------------------------------------------------------
(* The additional scorers                                                  *)

\* adjustBeamScores: the elements of one global beam are scored again, on top of
\* elements to their left, which are final and remain so.
LEMMA AdjustBoundaryStep ==
  ASSUME IInv, AdjustBoundary
  PROVE  IInv'
<1>. DEFINE Hit(l, k) == \E i \in DOMAIN gbeam[bnd] : gbeam[bnd][i].left = l /\ gbeam[bnd][i].beam = k
<1>1. /\ pc = "adjust" /\ lat' = lat /\ cfg' = cfg /\ gbeam' = gbeam /\ path' = path
      /\ beams' = [l \in NodeIds |-> [k \in DOMAIN beams[l] |->
                     IF Hit(l, k) THEN Adjusted(l, k) ELSE beams[l][k]]]
      /\ NextBoundary("remake")
  BY DEF AdjustBoundary
<1>2. /\ InputOK /\ PhaseOK /\ TypesOK /\ BeamsOK /\ GlobalOK /\ AdjustedOK
      /\ bnd \in 1 .. lat.n /\ lat.n \in Nat \ {0} /\ cfg.extra /\ Processed = 1 .. Eos
  BY <1>1 DEF IInv, PhaseOK, InputOK, Processed
<1>3. \/ bnd < lat.n /\ bnd' = bnd + 1 /\ pc' = "adjust"
      \/ bnd = lat.n /\ bnd' = 1 /\ pc' = "remake"
  BY <1>1, <1>2 DEF NextBoundary
<1>4. /\ Eos' = Eos /\ NodeIds' = NodeIds /\ NodeIds = 0 .. Eos /\ Eos \in Nat \ {0} /\ Bos = 0 /\ Bos' = 0
      /\ \A r : Start(r)' = Start(r)
      /\ \A r \in 1 .. Eos : Start(r) \in 0 .. lat.n
  BY <1>1, <1>2, LatticeStays, NodesOfLattice DEF Bos
<1>5. ASSUME NEW l \in NodeIds, NEW k \in DOMAIN beams[l], Hit(l, k)
      PROVE  l \in Left(bnd) /\ l \in 1 .. Eos
  <2>1. PICK i \in DOMAIN gbeam[bnd] : gbeam[bnd][i].left = l /\ gbeam[bnd][i].beam = k
    BY <1>5
  <2>2. Points(gbeam[bnd][i], bnd)
    BY <1>2 DEF GlobalOK
  <2>3. l \in Left(bnd)
    BY <2>1, <2>2 DEF Points
  <2>4. QED
    BY <1>2, <2>3, NodesOfLattice
<1>6. ASSUME NEW l \in NodeIds
      PROVE  /\ beams'[l] = [k \in DOMAIN beams[l] |-> IF Hit(l, k) THEN Adjusted(l, k) ELSE beams[l][k]]
             /\ l \notin Left(bnd) => beams'[l] = beams[l]
             /\ DOMAIN beams'[l] = DOMAIN beams[l] /\ Len(beams'[l]) = Len(beams[l])
             /\ beams'[l] \in Seq(Elements)
             /\ \A k \in DOMAIN beams[l] : SamePlace(beams'[l][k], beams[l][k])
             /\ beams'[l] = <<>> <=> beams[l] = <<>>
  <2>1. beams'[l] = [k \in DOMAIN beams[l] |-> IF Hit(l, k) THEN Adjusted(l, k) ELSE beams[l][k]]
    BY <1>1
  <2>2. /\ beams[l] \in Seq(Elements) /\ Len(beams[l]) \in Nat /\ DOMAIN beams[l] = 1 .. Len(beams[l])
        /\ \A k \in DOMAIN beams[l] : beams[l][k] \in Elements
    BY <1>2, BeamFacts
  <2>3. ASSUME NEW k \in DOMAIN beams[l]
        PROVE  beams'[l][k] \in Elements /\ SamePlace(beams'[l][k], beams[l][k])
    <3>1. CASE Hit(l, k)
      <4>1. l \in 1 .. Eos /\ l # Bos /\ Points(beams[l][k], Start(l))
        BY <1>2, <1>4, <1>5, <3>1, BeamFacts
      <4>. DEFINE el == beams[l][k]
                  new == beams[el.left][el.beam].total + WeightedScore(el, l)
      <4>2. beams[el.left][el.beam].total \in Int /\ WeightedScore(el, l) \in Int
        BY <1>2, <4>1, PointersHaveScores
      <4>3. new \in Int /\ beams'[l][k] = [el EXCEPT !.total = new]
        <5>1. beams'[l][k] = Adjusted(l, k)
          BY <2>1, <3>1
        <5>2. Adjusted(l, k) = [el EXCEPT !.total = new]
          BY DEF Adjusted
        <5>3. QED
          BY <4>2, <5>1, <5>2
      <4>. HIDE DEF new
      <4>4. QED
        BY <2>2, <4>3 DEF Elements, SamePlace
    <3>2. CASE ~Hit(l, k)
      BY <2>1, <2>2, <3>2 DEF SamePlace
    <3>3. QED
      BY <3>1, <3>2
  <2>4. l \notin Left(bnd) => beams'[l] = beams[l]
    <3>1. SUFFICES ASSUME l \notin Left(bnd) PROVE beams'[l] = beams[l]
      OBVIOUS
    <3>2. \A k \in DOMAIN beams[l] : ~Hit(l, k)
      BY <1>5, <3>1
    <3>. HIDE DEF Hit, Elements
    <3>3. beams[l] = [k \in DOMAIN beams[l] |-> beams[l][k]]
      BY <2>2
    <3>4. QED
      BY <2>1, <3>2, <3>3
  <2>. HIDE DEF Hit, Elements
  <2>5. DOMAIN beams'[l] = 1 .. Len(beams[l]) /\ beams'[l] \in [1 .. Len(beams[l]) -> Elements]
    BY <2>1, <2>2, <2>3
  <2>6. beams'[l] \in Seq(Elements) /\ Len(beams'[l]) = Len(beams[l])
    BY <2>2, <2>5
  <2>7. beams'[l] = <<>> <=> beams[l] = <<>>
    <3>1. Len(beams[l]) = 0 <=> beams[l] = <<>>
      BY <2>2, EmptySeq
    <3>2. Len(beams'[l]) = 0 <=> beams'[l] = <<>>
      BY <2>6, EmptySeq
    <3>3. QED
      BY <2>6, <3>1, <3>2
  <2>8. QED
    BY <2>1, <2>2, <2>3, <2>4, <2>5, <2>6, <2>7
<1>. HIDE DEF Hit
<1>7. ASSUME NEW b \in 0 .. lat.n, NEW el, Points(el, b)
      PROVE  Points(el, b)' /\ el.left \in NodeIds
  <2>1. el.left \in Left(b) /\ el.left \in NodeIds
    BY <1>2, <1>7, NodesOfLattice DEF Points
  <2>2. Left(b)' = Left(b)
    BY <1>1, LatticeStays
  <2>3. QED
    BY <1>6, <1>7, <2>1, <2>2 DEF Points
<1>8. Processed' = 1 .. Eos
  BY <1>3, <1>4 DEF Processed
<1>9. InputOK'
  BY <1>1, <1>2 DEF InputOK, Covered, Linked, EndAt, WordAt
<1>10. PhaseOK'
  BY <1>1, <1>2, <1>3 DEF PhaseOK
<1>11. TypesOK'
  <2>. HIDE DEF Elements
  <2>1. beams' \in [NodeIds -> Seq(Elements)]
    <3>1. DOMAIN beams' = NodeIds /\ beams' = [l \in NodeIds |-> beams'[l]]
      BY <1>1
    <3>2. QED
      BY <1>6, <3>1
  <2>2. beams'[Bos] = <<BosElement>>
    <3>1. Bos \notin Left(bnd) /\ Bos \in NodeIds
      BY <1>2, <1>4, NodesOfLattice
    <3>2. QED
      BY <1>2, <1>6, <3>1 DEF TypesOK
  <2>3. BosElement' = BosElement /\ Elements' = Elements
    BY DEF BosElement, Element, Elements
  <2>4. gbeam' \in [0 .. lat.n -> Seq(Elements)]
    BY <1>1, <1>2 DEF TypesOK
  <2>5. QED
    BY <1>1, <1>4, <1>8, <2>1, <2>2, <2>3, <2>4 DEF TypesOK
<1>12. BeamsOK'
  <2>1. SUFFICES ASSUME NEW r \in 1 .. Eos
                 PROVE  /\ MadeOf(beams[r], r)'
                        /\ Pure' => ScoredOf(beams[r], r)'
                        /\ Wide' => CompleteOf(beams[r], r)'
    BY <1>8 DEF BeamsOK
  <2>2. ~Pure' /\ ~Wide'
    BY <1>1, <1>2, <1>3 DEF Pure, Wide
  <2>3. MadeOf(beams[r], r) /\ r \in NodeIds /\ Start(r) \in 0 .. lat.n
    BY <1>2, <1>4 DEF BeamsOK
  <2>4. Len(beams'[r]) <= cfg.beam
    BY <1>6, <2>3 DEF MadeOf
  <2>5. \A k \in DOMAIN beams'[r] :
          /\ beams'[r][k].left \in Left(Start(r))
          /\ beams'[r][k].beam \in DOMAIN beams'[beams'[r][k].left]
    <3>1. TAKE k \in DOMAIN beams'[r]
    <3>2. k \in DOMAIN beams[r] /\ SamePlace(beams'[r][k], beams[r][k])
      BY <1>6, <2>3
    <3>3. PICK el : el = beams[r][k]
      OBVIOUS
    <3>4. Points(el, Start(r))
      BY <2>3, <3>2, <3>3 DEF MadeOf
    <3>5. el.left \in Left(Start(r)) /\ el.left \in NodeIds /\ el.beam \in DOMAIN beams'[el.left]
      BY <1>2, <1>6, <2>3, <3>4, NodesOfLattice DEF Points
    <3>6. QED
      BY <3>2, <3>3, <3>5 DEF SamePlace
  <2>6. \A j, k \in DOMAIN beams'[r] : SamePlace(beams'[r][j], beams'[r][k]) => j = k
    <3>1. \A j, k \in DOMAIN beams[r] : SamePlace(beams[r][j], beams[r][k]) => j = k
      BY <2>3 DEF MadeOf
    <3>2. DOMAIN beams'[r] = DOMAIN beams[r]
          /\ \A k \in DOMAIN beams[r] : SamePlace(beams'[r][k], beams[r][k])
      BY <1>6, <2>3
    <3>3. QED
      BY <3>1, <3>2 DEF SamePlace
  <2>7. beams'[r] # <<>> <=> \E l \in Left(Start(r)) : beams'[l] # <<>>
    <3>1. beams[r] # <<>> <=> \E l \in Left(Start(r)) : beams[l] # <<>>
      BY <2>3 DEF MadeOf
    <3>2. \A l \in Left(Start(r)) : l \in NodeIds
      BY <1>2, <2>3, NodesOfLattice
    <3>3. QED
      BY <1>6, <2>3, <3>1, <3>2
  <2>8. Start(r)' = Start(r) /\ Left(Start(r))' = Left(Start(r))
    BY <1>1, LatticeStays
  <2>9. MadeOf(beams[r], r)'
    <3>1. (\A k \in DOMAIN beams[r] : Points(beams[r][k], Start(r)))'
      BY <2>5, <2>8 DEF Points
    <3>2. (beams[r] # <<>> <=> \E l \in Left(Start(r)) : beams[l] # <<>>)'
      BY <2>7, <2>8
    <3>3. (\A j, k \in DOMAIN beams[r] : SamePlace(beams[r][j], beams[r][k]) => j = k)'
      BY <2>6 DEF SamePlace
    <3>4. (Len(beams[r]) <= cfg.beam)'
      BY <1>1, <2>4
    <3>5. QED
      BY <3>1, <3>2, <3>3, <3>4 DEF MadeOf
  <2>10. QED
    BY <2>2, <2>9
<1>13. GlobalOK'
  <2>1. ASSUME NEW b \in 0 .. lat.n
        PROVE  /\ Len(gbeam[b]) <= cfg.global
               /\ \A i \in DOMAIN gbeam[b] :
                    /\ gbeam[b][i].left \in Left(b)
                    /\ gbeam[b][i].beam \in DOMAIN beams'[gbeam[b][i].left]
    <3>1. Len(gbeam[b]) <= cfg.global /\ \A i \in DOMAIN gbeam[b] : Points(gbeam[b][i], b)
      BY <1>2 DEF GlobalOK
    <3>2. \A l \in Left(b) : l \in NodeIds
      BY <1>2, NodesOfLattice
    <3>3. QED
      BY <1>6, <3>1, <3>2 DEF Points
  <2>2. ASSUME cfg.global > 0, NEW r \in 1 .. Eos
        PROVE  FromGlobal(beams'[r], gbeam'[Start(r)])
    <3>1. FromGlobal(beams[r], gbeam[Start(r)]) /\ r \in NodeIds
      BY <1>2, <1>4, <2>2 DEF GlobalOK
    <3>2. gbeam' = gbeam /\ DOMAIN beams'[r] = DOMAIN beams[r]
          /\ (beams'[r] = <<>> <=> beams[r] = <<>>)
          /\ \A k \in DOMAIN beams[r] : SamePlace(beams'[r][k], beams[r][k])
      BY <1>1, <1>6, <3>1
    <3>3. QED
      BY <3>1, <3>2 DEF FromGlobal, SamePlace
  <2>3. \A r \in 1 .. Eos : gbeam[Start(r)]' = gbeam'[Start(r)]
    BY <1>4
  <2>4. (cfg.global > 0 => \A r \in Processed : FromGlobal(beams[r], gbeam[Start(r)]))'
    BY <1>1, <1>8, <2>2, <2>3
  <2>5. (\A b \in 0 .. lat.n : /\ Len(gbeam[b]) <= cfg.global
                               /\ \A i \in DOMAIN gbeam[b] : Points(gbeam[b][i], b))'
    <3>1. \A b : Left(b)' = Left(b)
      BY <1>1, LatticeStays
    <3>2. QED
      BY <1>1, <2>1, <3>1 DEF Points
  <2>6. QED
    BY <2>4, <2>5 DEF GlobalOK
<1>14. AdjustedOK'
  <2>1. AdjustedSoFar' = 1 .. bnd /\ AdjustedSoFar = 1 .. bnd - 1
    BY <1>1, <1>2, <1>3 DEF AdjustedSoFar
  <2>2. ASSUME NEW b \in 1 .. bnd, NEW i \in DOMAIN gbeam[b]
        PROVE  Weighted(beams[gbeam[b][i].left][gbeam[b][i].beam], gbeam[b][i].left)'
    <3>1. PICK l, k : l = gbeam[b][i].left /\ k = gbeam[b][i].beam
      OBVIOUS
    <3>2. PICK old, new : old = beams[l][k] /\ new = beams'[l][k]
      OBVIOUS
    <3>3. b \in 0 .. lat.n /\ bnd \in 0 .. lat.n /\ Points(gbeam[b][i], b)
      BY <1>2 DEF GlobalOK
    <3>4. l \in Left(b) /\ k \in DOMAIN beams[l] /\ l \in 1 .. Eos /\ l \in NodeIds /\ l # Bos
      BY <1>2, <3>1, <3>3, NodesOfLattice DEF Points
    <3>5. Points(old, Start(l)) /\ Start(l) \in 0 .. lat.n /\ Start(l) < b
      BY <1>2, <3>2, <3>3, <3>4, BeamFacts, NodesOfLattice
    <3>6. new.left = old.left /\ new.beam = old.beam
      BY <1>6, <3>2, <3>4 DEF SamePlace
    <3>7. old.left \notin Left(bnd) /\ old.left \in NodeIds
      <4>1. old.left \in Left(Start(l)) /\ Start(l) # bnd
        BY <3>3, <3>5 DEF Points
      <4>2. QED
        BY <1>2, <3>3, <3>5, <4>1, LeftsAreDisjoint, NodesOfLattice
    <3>8. beams'[old.left] = beams[old.left]
      BY <1>6, <3>7
    <3>9. new.total = beams[old.left][old.beam].total + WeightedScore(old, l)
      <4>1. CASE b = bnd
        <5>1. Hit(l, k)
          BY <3>1, <4>1 DEF Hit
        <5>2. new = Adjusted(l, k)
          BY <1>6, <3>2, <3>4, <5>1
        <5>3. old \in Elements
          BY <1>2, <3>2, <3>4, BeamFacts
        <5>4. QED
          BY <3>2, <5>2, <5>3 DEF Adjusted, Elements
      <4>2. CASE b # bnd
        <5>1. l \notin Left(bnd)
          BY <1>2, <3>3, <3>4, <4>2, LeftsAreDisjoint
        <5>2. new = old
          BY <1>6, <3>2, <3>4, <5>1
        <5>3. b \in AdjustedSoFar
          BY <1>2, <2>1, <4>2
        <5>4. QED
          BY <1>2, <3>1, <3>2, <5>2, <5>3 DEF AdjustedOK, Weighted
      <4>3. QED
        BY <4>1, <4>2
    <3>10. WeightedScore(old, l)' = WeightedScore(old, l)
      BY <1>1, <1>2, <3>4, <3>5, <3>8, ScoreOfUnchanged
    <3>11. WeightedScore(new, l)' = WeightedScore(old, l)'
      BY <3>6 DEF WeightedScore, FeatureScore, T2
    <3>12. Weighted(new, l)'
      BY <3>6, <3>8, <3>9, <3>10, <3>11 DEF Weighted
    <3>13. new = (beams[gbeam[b][i].left][gbeam[b][i].beam])' /\ l = (gbeam[b][i].left)'
      BY <1>1, <3>1, <3>2
    <3>14. QED
      BY <3>12, <3>13 DEF Weighted, WeightedScore, FeatureScore, T2
  <2>3. (\A b \in AdjustedSoFar : \A i \in DOMAIN gbeam[b] :
           Weighted(beams[gbeam[b][i].left][gbeam[b][i].beam], gbeam[b][i].left))'
    BY <1>1, <2>1, <2>2
  <2>4. QED
    BY <2>3 DEF AdjustedOK
<1>15. RemadeOK' /\ ResultOK'
  BY <1>3 DEF RemadeOK, ResultOK
<1>16. QED
  BY <1>9, <1>10, <1>11, <1>12, <1>13, <1>14, <1>15 DEF IInv

\* The last global beam, with the totals adjusted, as candidates for EOS
RemadeSet == {Remade(c) : c \in ToSet(gbeam[lat.n])}

\* The candidates for the new beam of EOS are different places, one for each
\* element of the last global beam.
LEMMA RemadeCandidates ==
  ASSUME IInv
  PROVE  /\ RemadeSet \in SUBSET Elements /\ IsFiniteSet(RemadeSet)
         /\ \A c \in ToSet(gbeam[lat.n]) :
              /\ Points(c, lat.n) /\ SamePlace(Remade(c), c)
              /\ Remade(c).total = beams[c.left][c.beam].total + WeightedScore(c, Eos)
         /\ \A c, d \in ToSet(gbeam[lat.n]) : SamePlace(Remade(c), Remade(d)) => Remade(c) = Remade(d)
         /\ gbeam[lat.n] = <<>> <=> RemadeSet = {}
<1>. DEFINE g == gbeam[lat.n]
<1>1. InputOK /\ TypesOK /\ BeamsOK /\ lat.n \in 0 .. lat.n /\ Eos \in 1 .. Eos /\ Start(Eos) = lat.n
  BY NodesOfLattice DEF IInv
<1>2. g \in Seq(Elements) /\ Len(g) \in Nat /\ DOMAIN g = 1 .. Len(g)
  <2>. HIDE DEF Elements
  <2>1. g \in Seq(Elements)
    BY <1>1 DEF TypesOK
  <2>2. QED
    BY <2>1
<1>3. \A i \in DOMAIN g : Points(g[i], lat.n) /\ g[i] \in Elements
  <2>. HIDE DEF Elements
  <2>1. \A i \in DOMAIN g : g[i] \in Elements
    BY <1>2, ElementOfSeq
  <2>2. QED
    BY <1>1, <2>1 DEF IInv, GlobalOK
<1>. HIDE DEF g
<1>4. \A c \in ToSet(g) : Points(c, lat.n) /\ c \in Elements
  BY <1>3 DEF ToSet
<1>5. ASSUME NEW c \in ToSet(g)
      PROVE  /\ Remade(c) \in Elements /\ SamePlace(Remade(c), c)
             /\ Remade(c).total = beams[c.left][c.beam].total + WeightedScore(c, Eos)
  <2>1. beams[c.left][c.beam].total \in Int /\ WeightedScore(c, Eos) \in Int
    BY <1>1, <1>4, PointersHaveScores
  <2>2. c.left \in Int /\ c.beam \in Nat
    BY <1>4 DEF Elements
  <2>3. QED
    BY <2>1, <2>2 DEF Remade, Element, Elements, SamePlace
<1>6. ASSUME NEW c \in ToSet(g), NEW d \in ToSet(g), SamePlace(Remade(c), Remade(d))
      PROVE  Remade(c) = Remade(d)
  <2>1. c.left = d.left /\ c.beam = d.beam
    BY <1>5, <1>6 DEF SamePlace
  <2>2. QED
    BY <2>1 DEF Remade, WeightedScore, FeatureScore, T2
<1>7. RemadeSet \in SUBSET Elements
  BY <1>5 DEF RemadeSet, g
<1>8. IsFiniteSet(RemadeSet)
  <2>. DEFINE f == [i \in DOMAIN g |-> Remade(g[i])]
  <2>1. f = [i \in DOMAIN g |-> f[i]] /\ RemadeSet = {f[i] : i \in DOMAIN g}
    BY DEF RemadeSet, ToSet, g
  <2>2. IsFiniteSet(DOMAIN g)
    BY <1>2, FS_Interval
  <2>. HIDE DEF f
  <2>3. QED
    BY <2>1, <2>2, ImageIsFinite
<1>9. g = <<>> <=> RemadeSet = {}
  <2>. HIDE DEF Elements
  <2>1. Len(g) = 0 <=> g = <<>>
    BY <1>2, EmptySeq
  <2>2. CASE g = <<>>
    <3>1. ToSet(g) = {}
      BY <2>2 DEF ToSet
    <3>2. QED
      BY <2>2, <3>1 DEF RemadeSet, g
  <2>3. CASE g # <<>>
    <3>1. 1 \in DOMAIN g
      BY <1>2, <2>1, <2>3
    <3>2. Remade(g[1]) \in RemadeSet
      BY <3>1 DEF RemadeSet, ToSet, g
    <3>3. QED
      BY <2>3, <3>2
  <2>4. QED
    BY <2>2, <2>3
<1>10. QED
  BY <1>4, <1>5, <1>6, <1>7, <1>8, <1>9 DEF g

\* remakeEosBeam: the beam of EOS changes, at which no element points.
LEMMA RemakeEosBeamStep ==
  ASSUME IInv, RemakeEosBeam
  PROVE  IInv'
<1>1. /\ pc = "remake" /\ pc' = "fill" /\ lat' = lat /\ cfg' = cfg /\ bnd' = bnd /\ gbeam' = gbeam
      /\ \E new \in BestBeams({Remade(c) : c \in ToSet(gbeam[lat.n])}, cfg.beam) :
           beams' = [beams EXCEPT ![Eos] = new]
  BY DEF RemakeEosBeam
<1>2. PICK new \in BestBeams(RemadeSet, cfg.beam) : beams' = [beams EXCEPT ![Eos] = new]
  BY <1>1 DEF RemadeSet
<1>3. /\ InputOK /\ PhaseOK /\ TypesOK /\ BeamsOK /\ GlobalOK /\ AdjustedOK /\ cfg.extra
      /\ lat.n \in Nat \ {0} /\ cfg.beam \in Nat \ {0} /\ cfg.global > 0 /\ Processed = 1 .. Eos
  BY <1>1 DEF IInv, PhaseOK, InputOK, Processed
<1>4. /\ Eos \in 1 .. Eos /\ Eos \in NodeIds /\ Start(Eos) = lat.n /\ Eos # Bos /\ Bos \in NodeIds
      /\ \A b \in 0 .. lat.n : Eos \notin Left(b) /\ Left(b) \subseteq NodeIds
      /\ \A r \in 1 .. Eos : Start(r) \in 0 .. lat.n /\ r \in NodeIds
  BY <1>3, NodesOfLattice
<1>5. \A r \in NodeIds : beams'[r] = IF r = Eos THEN new ELSE beams[r]
  <2>. HIDE DEF Elements
  <2>1. beams \in [NodeIds -> Seq(Elements)]
    BY <1>3 DEF TypesOK
  <2>2. QED
    BY <1>2, <2>1
<1>6. /\ new \in Seq(Elements) /\ DOMAIN new = 1 .. Len(new) /\ Len(new) <= cfg.beam
      /\ \A i \in DOMAIN new : new[i] \in RemadeSet
      /\ \A i, j \in DOMAIN new : new[i] = new[j] => i = j
      /\ new # <<>> <=> RemadeSet # {}
  BY <1>2, <1>3, RemadeCandidates, BestBeamsProperties
<1>7. \A i \in DOMAIN new : \E c \in ToSet(gbeam[lat.n]) : new[i] = Remade(c)
  BY <1>6 DEF RemadeSet
<1>8. MadeOf(new, Eos)
  <2>1. \A i \in DOMAIN new : Points(new[i], lat.n)
    BY <1>7, RemadeCandidates DEF Points, SamePlace
  <2>2. \A i, j \in DOMAIN new : SamePlace(new[i], new[j]) => i = j
    BY <1>6, <1>7, RemadeCandidates
  <2>3. new # <<>> <=> beams[Eos] # <<>>
    <3>1. FromGlobal(beams[Eos], gbeam[lat.n])
      BY <1>3, <1>4 DEF GlobalOK
    <3>2. QED
      BY <1>6, <3>1, RemadeCandidates DEF FromGlobal
  <2>4. beams[Eos] # <<>> <=> \E l \in Left(lat.n) : beams[l] # <<>>
    BY <1>3, <1>4 DEF BeamsOK, MadeOf
  <2>5. QED
    BY <1>4, <1>6, <2>1, <2>2, <2>3, <2>4 DEF MadeOf
<1>9. FromGlobal(new, gbeam[lat.n])
  <2>1. \A i \in DOMAIN new : \E c \in ToSet(gbeam[lat.n]) : SamePlace(c, new[i])
    BY <1>7, RemadeCandidates DEF SamePlace
  <2>2. new = <<>> <=> gbeam[lat.n] = <<>>
    BY <1>6, RemadeCandidates
  <2>3. QED
    BY <2>1, <2>2 DEF FromGlobal, ToSet
<1>10. \A l \in NodeIds : l # Eos => beams'[l] = beams[l]
  BY <1>5
<1>11. /\ Eos' = Eos /\ NodeIds' = NodeIds /\ Processed' = 1 .. Eos
       /\ \A r : Start(r)' = Start(r)
       /\ \A b : Left(b)' = Left(b)
  BY <1>1, LatticeStays DEF Processed
<1>12. InputOK' /\ PhaseOK'
  BY <1>1, <1>3 DEF InputOK, PhaseOK, Covered, Linked, EndAt, WordAt
<1>13. TypesOK'
  <2>. HIDE DEF Elements
  <2>1. beams' \in [NodeIds -> Seq(Elements)]
    BY <1>2, <1>3, <1>6 DEF TypesOK
  <2>2. beams'[Bos] = <<BosElement>>
    BY <1>3, <1>4, <1>5 DEF TypesOK
  <2>3. BosElement' = BosElement /\ Elements' = Elements /\ Bos' = Bos
    BY DEF BosElement, Element, Elements, Bos
  <2>4. gbeam' \in [0 .. lat.n -> Seq(Elements)]
    BY <1>1, <1>3 DEF TypesOK
  <2>5. QED
    BY <1>1, <1>11, <2>1, <2>2, <2>3, <2>4 DEF TypesOK
<1>14. BeamsOK'
  <2>1. SUFFICES ASSUME NEW r \in 1 .. Eos
                 PROVE  /\ MadeOf(beams[r], r)'
                        /\ Pure' => ScoredOf(beams[r], r)'
                        /\ Wide' => CompleteOf(beams[r], r)'
    BY <1>11 DEF BeamsOK
  <2>2. ~Pure' /\ ~Wide'
    BY <1>1, <1>3 DEF Pure, Wide
  <2>3. \A l \in Left(Start(r)) : beams'[l] = beams[l]
    BY <1>4, <1>10
  <2>4. PICK s : s = IF r = Eos THEN new ELSE beams[r]
    OBVIOUS
  <2>5. beams'[r] = s /\ MadeOf(s, r)
    BY <1>3, <1>4, <1>5, <1>8, <2>4 DEF BeamsOK
  <2>6. MadeOf(beams[r], r)'
    BY <1>1, <1>3, <2>3, <2>5, BeamStays
  <2>7. QED
    BY <2>2, <2>6
<1>15. GlobalOK'
  <2>1. ASSUME NEW b \in 0 .. lat.n
        PROVE  /\ Len(gbeam[b]) <= cfg.global
               /\ \A i \in DOMAIN gbeam[b] :
                    /\ gbeam[b][i].left \in Left(b)
                    /\ gbeam[b][i].beam \in DOMAIN beams'[gbeam[b][i].left]
    <3>1. Len(gbeam[b]) <= cfg.global /\ \A i \in DOMAIN gbeam[b] : Points(gbeam[b][i], b)
      BY <1>3 DEF GlobalOK
    <3>2. QED
      BY <1>4, <1>10, <3>1 DEF Points
  <2>2. (\A b \in 0 .. lat.n : /\ Len(gbeam[b]) <= cfg.global
                               /\ \A i \in DOMAIN gbeam[b] : Points(gbeam[b][i], b))'
    BY <1>1, <1>11, <2>1 DEF Points
  <2>3. \A r \in 1 .. Eos : FromGlobal(beams'[r], gbeam'[Start(r)])
    BY <1>1, <1>3, <1>4, <1>5, <1>9 DEF GlobalOK
  <2>4. \A r \in 1 .. Eos : gbeam[Start(r)]' = gbeam'[Start(r)]
    BY <1>11
  <2>5. (cfg.global > 0 => \A r \in Processed : FromGlobal(beams[r], gbeam[Start(r)]))'
    BY <1>11, <2>3, <2>4
  <2>6. QED
    BY <2>2, <2>5 DEF GlobalOK
<1>16. AdjustedOK'
  <2>1. AdjustedSoFar' = 1 .. lat.n /\ AdjustedSoFar = 1 .. lat.n
    BY <1>1, <1>3 DEF AdjustedSoFar
  <2>2. ASSUME NEW b \in 1 .. lat.n, NEW i \in DOMAIN gbeam[b]
        PROVE  Weighted(beams[gbeam[b][i].left][gbeam[b][i].beam], gbeam[b][i].left)'
    <3>1. PICK l, k : l = gbeam[b][i].left /\ k = gbeam[b][i].beam
      OBVIOUS
    <3>2. PICK el : el = beams[l][k]
      OBVIOUS
    <3>3. b \in 0 .. lat.n /\ Points(gbeam[b][i], b)
      BY <1>3 DEF GlobalOK
    <3>4. l \in Left(b) /\ k \in DOMAIN beams[l] /\ l \in 1 .. Eos /\ l \in NodeIds /\ l # Bos /\ l # Eos
      BY <1>3, <1>4, <3>1, <3>3, NodesOfLattice DEF Points
    <3>5. Points(el, Start(l)) /\ Start(l) \in 0 .. lat.n
      BY <1>3, <1>4, <3>2, <3>4, BeamFacts
    <3>6. beams'[el.left] = beams[el.left] /\ beams'[l] = beams[l]
      BY <1>4, <1>10, <3>4, <3>5 DEF Points
    <3>7. Weighted(el, l)
      BY <1>3, <2>1, <3>1, <3>2 DEF AdjustedOK
    <3>8. WeightedScore(el, l)' = WeightedScore(el, l)
      BY <1>1, <1>3, <3>4, <3>5, <3>6, ScoreOfUnchanged
    <3>9. Weighted(el, l)'
      BY <3>6, <3>7, <3>8 DEF Weighted
    <3>10. el = (beams[gbeam[b][i].left][gbeam[b][i].beam])' /\ l = (gbeam[b][i].left)'
      BY <1>1, <3>1, <3>2, <3>6
    <3>11. QED
      BY <3>9, <3>10 DEF Weighted, WeightedScore, FeatureScore, T2
  <2>3. (\A b \in AdjustedSoFar : \A i \in DOMAIN gbeam[b] :
           Weighted(beams[gbeam[b][i].left][gbeam[b][i].beam], gbeam[b][i].left))'
    BY <1>1, <2>1, <2>2
  <2>4. QED
    BY <2>3 DEF AdjustedOK
<1>17. RemadeOK'
  <2>1. ASSUME NEW c \in ToSet(gbeam[lat.n])
        PROVE  Remade(c)' = Remade(c)
    <3>1. Points(c, Start(Eos)) /\ c.left \in NodeIds /\ c.left # Eos
      BY <1>4, RemadeCandidates DEF Points
    <3>2. beams'[c.left] = beams[c.left]
      BY <1>10, <3>1
    <3>3. WeightedScore(c, Eos)' = WeightedScore(c, Eos)
      <4>1. PICK r : r = Eos
        OBVIOUS
      <4>2. WeightedScore(c, r)' = WeightedScore(c, r)
        BY <1>1, <1>3, <1>4, <3>1, <3>2, <4>1, ScoreOfUnchanged
      <4>3. WeightedScore(c, Eos)' = WeightedScore(c, r)'
        BY <1>11, <4>1 DEF WeightedScore, FeatureScore, TrigramScore
      <4>4. QED
        BY <4>1, <4>2, <4>3
    <3>4. QED
      BY <3>2, <3>3 DEF Remade, Element
  <2>2. RemadeSet' = RemadeSet
    <3>1. ToSet(gbeam[lat.n])' = ToSet(gbeam[lat.n])
      BY <1>1
    <3>2. QED
      BY <2>1, <3>1 DEF RemadeSet
  <2>3. beams'[Eos] \in BestBeams(RemadeSet, cfg.beam)
    BY <1>2, <1>4, <1>5
  <2>4. (beams[Eos] \in BestBeams(RemadeSet, cfg.beam))'
    BY <1>1, <1>11, <2>2, <2>3
  <2>5. QED
    BY <2>4 DEF RemadeOK, RemadeSet
<1>18. ResultOK'
  BY <1>1 DEF ResultOK
<1>19. QED
  BY <1>12, <1>13, <1>14, <1>15, <1>16, <1>17, <1>18 DEF IInv

\* A step that leaves the beams as they are: fillIn, or none at all
LEMMA NothingScoredStep ==
  ASSUME IInv, UNCHANGED <<lat, cfg, bnd, beams, gbeam>>,
         \/ pc = "fill" /\ pc' = "done" /\ path' = Trace(Eos, 1)
         \/ pc' = pc /\ path' = path
  PROVE  IInv'
<1>1. /\ Eos' = Eos /\ NodeIds' = NodeIds /\ Processed' = Processed
      /\ \A r : Start(r)' = Start(r)
      /\ \A b : Left(b)' = Left(b)
      /\ \A t : TrigramScore(t)' = TrigramScore(t)
  BY LatticeStays DEF Processed, Start, Eos
<1>2. InputOK' /\ PhaseOK'
  BY DEF IInv, InputOK, PhaseOK, Covered, Linked, EndAt, WordAt
<1>3. TypesOK'
  BY <1>1 DEF IInv, TypesOK, BosElement, Element, Elements, Bos
<1>4. BeamsOK'
  <2>1. SUFFICES ASSUME NEW r \in Processed
                 PROVE  /\ MadeOf(beams[r], r)'
                        /\ Pure' => ScoredOf(beams[r], r)'
                        /\ Wide' => CompleteOf(beams[r], r)'
    BY <1>1 DEF BeamsOK
  <2>2. PICK s : s = beams[r]
    OBVIOUS
  <2>3. r \in 1 .. Eos /\ MadeOf(s, r) /\ (Pure => ScoredOf(s, r)) /\ (Wide => CompleteOf(s, r))
    BY <2>2 DEF IInv, BeamsOK, Processed
  <2>4. beams'[r] = s /\ \A l \in Left(Start(r)) : beams'[l] = beams[l]
    BY <2>2
  <2>5. Pure' = Pure /\ Wide' = Wide
    BY DEF Pure, Wide
  <2>6. QED
    BY <2>3, <2>4, <2>5, BeamStays DEF IInv
<1>5. GlobalOK'
  <2>1. \A el, b : Points(el, b)' = Points(el, b)
    BY <1>1 DEF Points
  <2>2. (\A b \in 0 .. lat.n : /\ Len(gbeam[b]) <= cfg.global
                               /\ \A i \in DOMAIN gbeam[b] : Points(gbeam[b][i], b))'
    BY <1>1 DEF IInv, GlobalOK, Points
  <2>3. (cfg.global > 0 => \A r \in Processed : FromGlobal(beams[r], gbeam[Start(r)]))'
    BY <1>1 DEF IInv, GlobalOK
  <2>4. QED
    BY <2>2, <2>3 DEF GlobalOK
<1>6. \A el, r : WeightedScore(el, r)' = WeightedScore(el, r)
  BY <1>1 DEF WeightedScore, FeatureScore, T2
<1>7. AdjustedOK'
  <2>1. AdjustedSoFar' = AdjustedSoFar
    BY DEF AdjustedSoFar
  <2>2. \A el, l : Weighted(el, l)' = Weighted(el, l)
    BY <1>6 DEF Weighted
  <2>3. ASSUME NEW b \in AdjustedSoFar, NEW i \in DOMAIN gbeam[b]
        PROVE  Weighted(beams[gbeam[b][i].left][gbeam[b][i].beam], gbeam[b][i].left)'
    <3>1. PICK el, l : /\ el = beams[gbeam[b][i].left][gbeam[b][i].beam]
                       /\ l = gbeam[b][i].left
      OBVIOUS
    <3>2. Weighted(el, l)'
      BY <2>2, <3>1 DEF IInv, AdjustedOK
    <3>3. QED
      BY <3>1, <3>2 DEF Weighted, WeightedScore, FeatureScore, T2
  <2>4. (\A b \in AdjustedSoFar : \A i \in DOMAIN gbeam[b] :
           Weighted(beams[gbeam[b][i].left][gbeam[b][i].beam], gbeam[b][i].left))'
    BY <2>1, <2>3
  <2>5. QED
    BY <2>4 DEF AdjustedOK
<1>8. RemadeOK'
  <2>1. \A c : Remade(c)' = Remade(c)
    <3>1. TAKE c
    <3>2. PICK r : r = Eos
      OBVIOUS
    <3>3. WeightedScore(c, r)' = WeightedScore(c, r)
      BY <1>6
    <3>4. WeightedScore(c, Eos)' = WeightedScore(c, r)'
      BY <1>1, <3>2 DEF WeightedScore, FeatureScore, TrigramScore
    <3>5. QED
      BY <3>2, <3>3, <3>4 DEF Remade, Element
  <2>2. RemadeSet' = RemadeSet
    BY <2>1 DEF RemadeSet
  <2>3. (cfg.extra /\ pc \in {"fill", "done"} => beams[Eos] \in BestBeams(RemadeSet, cfg.beam))'
    BY <1>1, <2>2 DEF IInv, RemadeOK, RemadeSet
  <2>4. QED
    BY <2>3 DEF RemadeOK, RemadeSet
<1>9. ResultOK'
  <2>1. \A r, k : Trace(r, k)' = Trace(r, k)
    BY SameTrace
  <2>2. PICK e, one : e = Eos /\ one = 1
    OBVIOUS
  <2>3. Trace(Eos, 1)' = Trace(e, one)'
    BY <1>1, <2>2, SameTrace DEF Trace
  <2>4. QED
    BY <1>1, <2>1, <2>2, <2>3 DEF IInv, ResultOK
<1>10. QED
  BY <1>2, <1>3, <1>4, <1>5, <1>7, <1>8, <1>9 DEF IInv

\* The invariant is inductive: every step of the analysis preserves it.
LEMMA NextIInv ==
  ASSUME IInv, [Next]_vars
  PROVE  IInv'
<1>1. CASE ScoreFull
  BY <1>1, ScoreFullStep
<1>2. CASE ScoreGlobal
  BY <1>2, ScoreGlobalStep
<1>3. CASE SkipBoundary
  BY <1>3, SkipBoundaryStep
<1>4. CASE AdjustBoundary
  BY <1>4, AdjustBoundaryStep
<1>5. CASE RemakeEosBeam
  BY <1>5, RemakeEosBeamStep
<1>6. CASE FillIn
  BY <1>6, NothingScoredStep DEF FillIn
<1>7. CASE Done
  BY <1>7, NothingScoredStep DEF Done, vars
<1>8. CASE UNCHANGED vars
  BY <1>8, NothingScoredStep DEF vars
<1>9. QED
  BY <1>1, <1>2, <1>3, <1>4, <1>5, <1>6, <1>7, <1>8 DEF Next

\* Whatever the lattice, the scores and the settings of the beams: every element
\* points into a beam on its left, nowhere twice in a beam, with a total that
\* extends the one it points at, from scoring the first boundary to the result.
THEOREM IInvAlways == Spec => []IInv
<1>1. Init => IInv
  BY InitIInv
<1>2. IInv /\ [Next]_vars => IInv'
  BY NextIInv
<1>3. QED
  BY <1>1, <1>2, PTL DEF Spec

-------------------------------------------------------------------------------
(* Induction                                                               *)

\* A set of natural numbers has a least element.
LEMMA LeastElement ==
  ASSUME NEW T \in SUBSET Nat, T # {}
  PROVE  \E x \in T : \A y \in T : x <= y
<1>. DEFINE R == {p \in Nat \X Nat : p[1] < p[2]}
<1>1. IsWellFoundedOn(R, Nat)
  BY NatLessThanWellFounded DEF OpToRel
<1>2. \A x, y \in Nat : y < x => <<y, x>> \in R
  OBVIOUS
<1>. HIDE DEF R
<1>3. PICK x \in T : \A y \in T : ~(<<y, x>> \in R)
  BY <1>1, WFMin
<1>4. \A y \in T : ~(y < x)
  BY <1>2, <1>3
<1>5. QED
  BY <1>4

\* A set of natural numbers with a bound has a greatest element.
LEMMA GreatestElement ==
  ASSUME NEW T \in SUBSET Nat, T # {}, NEW n \in Nat, \A x \in T : x <= n
  PROVE  \E x \in T : \A y \in T : y <= x
<1>. DEFINE Gap == {n - x : x \in T}
<1>1. Gap \in SUBSET Nat
  <2>1. \A x \in T : n - x \in Nat
    OBVIOUS
  <2>2. QED
    BY <2>1
<1>a. Gap # {}
  <2>1. PICK x \in T : TRUE
    OBVIOUS
  <2>2. n - x \in Gap
    BY <2>1
  <2>3. QED
    BY <2>2
<1>2. PICK g \in Gap : \A h \in Gap : g <= h
  BY <1>1, <1>a, LeastElement
<1>3. PICK x \in T : g = n - x
  BY <1>2
<1>4. \A y \in T : n - x <= n - y
  BY <1>2, <1>3
<1>5. QED
  BY <1>3, <1>4

\* A set that holds 0 and the successor of every number in it holds them all.
LEMMA SetInduction ==
  ASSUME NEW S, 0 \in S, \A n \in Nat : n \in S => n + 1 \in S
  PROVE  \A n \in Nat : n \in S
<1>1. SUFFICES ASSUME Nat \ S # {} PROVE FALSE
  OBVIOUS
<1>2. PICK x \in Nat \ S : \A y \in Nat \ S : x <= y
  BY <1>1, LeastElement
<1>3. x # 0 /\ x - 1 \in Nat /\ x - 1 \in S
  BY <1>2
<1>4. x \in S
  BY <1>3
<1>5. QED
  BY <1>2, <1>4

-------------------------------------------------------------------------------
(* Sums                                                                    *)

\* The partial sums of f up to n, as a function
Sums(f, n, g) == g[0] = 0 /\ \A i \in 1 .. n : g[i] = g[i - 1] + f[i]

\* SumTo is the last of any function of partial sums.
LEMMA SumIsLastSum ==
  ASSUME NEW f, NEW n \in Nat, NEW g, Sums(f, n, g)
  PROVE  SumTo(f, n) = g[n]
<1>. DEFINE F(s) == [i \in 0 .. n |-> IF i = 0 THEN 0 ELSE s[i - 1] + f[i]]
            s == CHOOSE s : s = F(s)
            h == [i \in 0 .. n |-> g[i]]
<1>1. SumTo(f, n) = s[n]
  BY DEF SumTo
<1>2. h = F(h)
  <2>1. \A i \in 0 .. n : h[i] = IF i = 0 THEN 0 ELSE h[i - 1] + f[i]
    BY DEF Sums
  <2>. HIDE DEF h
  <2>2. h = [i \in 0 .. n |-> h[i]]
    BY DEF h
  <2>3. QED
    BY <2>1, <2>2
<1>. HIDE DEF h, F
<1>3. s = F(s)
  BY <1>2
<1>. HIDE DEF s
<1>4. \A i \in 0 .. n : s[i] = IF i = 0 THEN 0 ELSE s[i - 1] + f[i]
  BY <1>3 DEF F
<1>. DEFINE Same == {i \in Nat : i <= n => s[i] = g[i]}
<1>5. 0 \in Same
  BY <1>4 DEF Sums
<1>6. ASSUME NEW i \in Nat, i \in Same
      PROVE  i + 1 \in Same
  <2>1. SUFFICES ASSUME i + 1 <= n PROVE s[i + 1] = g[i + 1]
    OBVIOUS
  <2>2. s[i] = g[i]
    BY <1>6, <2>1
  <2>3. s[i + 1] = s[i] + f[i + 1]
    <3>1. i + 1 \in 0 .. n /\ i + 1 # 0 /\ i + 1 - 1 = i
      BY <2>1
    <3>2. QED
      BY <1>4, <3>1
  <2>4. g[i + 1] = g[i] + f[i + 1]
    <3>1. i + 1 \in 1 .. n /\ i + 1 - 1 = i
      BY <2>1
    <3>2. QED
      BY <3>1 DEF Sums
  <2>5. QED
    BY <2>2, <2>3, <2>4
<1>. HIDE DEF Same
<1>7. n \in Same
  BY <1>5, <1>6, SetInduction
<1>8. QED
  BY <1>1, <1>7 DEF Same

\* There is a function of partial sums, by induction on how many there are.
LEMMA SumsExist ==
  ASSUME NEW f, NEW n \in Nat
  PROVE  \E g : Sums(f, n, g)
<1>. DEFINE S == {m \in Nat : \E g : Sums(f, m, g)}
<1>1. 0 \in S
  <2>1. Sums(f, 0, [i \in Nat |-> 0])
    BY DEF Sums
  <2>2. QED
    BY <2>1
<1>2. ASSUME NEW m \in Nat, m \in S
      PROVE  m + 1 \in S
  <2>1. PICK g : Sums(f, m, g)
    BY <1>2
  <2>. DEFINE h == [i \in Nat |-> IF i = m + 1 THEN g[m] + f[m + 1] ELSE g[i]]
  <2>2. h[0] = 0 /\ h[m + 1] = g[m] + f[m + 1] /\ h[m] = g[m]
    BY <2>1 DEF Sums
  <2>3. \A i \in 1 .. m : h[i] = g[i] /\ h[i - 1] = g[i - 1]
    OBVIOUS
  <2>. HIDE DEF h
  <2>4. ASSUME NEW i \in 1 .. m + 1
        PROVE  h[i] = h[i - 1] + f[i]
    <3>1. CASE i = m + 1
      <4>1. i - 1 = m
        BY <3>1
      <4>2. QED
        BY <2>2, <3>1, <4>1
    <3>2. CASE i # m + 1
      BY <2>1, <2>3, <3>2 DEF Sums
    <3>3. QED
      BY <3>1, <3>2
  <2>5. Sums(f, m + 1, h)
    BY <2>2, <2>4 DEF Sums
  <2>6. QED
    BY <2>5
<1>. HIDE DEF S
<1>3. n \in S
  BY <1>1, <1>2, SetInduction
<1>4. QED
  BY <1>3 DEF S

\* What SumTo is defined to be recursively: 0 for nothing ...
LEMMA SumOfNone ==
  ASSUME NEW f
  PROVE  SumTo(f, 0) = 0
<1>1. PICK g : Sums(f, 0, g)
  BY SumsExist
<1>2. QED
  BY <1>1, SumIsLastSum DEF Sums

\* ... and for one more value, that value more.
LEMMA SumOfOneMore ==
  ASSUME NEW f, NEW n \in Nat
  PROVE  SumTo(f, n + 1) = SumTo(f, n) + f[n + 1]
<1>1. PICK g : Sums(f, n + 1, g)
  BY SumsExist
<1>2. Sums(f, n, g) /\ g[n + 1] = g[n] + f[n + 1]
  <2>1. n + 1 \in 1 .. n + 1 /\ n + 1 - 1 = n /\ \A i \in 1 .. n : i \in 1 .. n + 1
    OBVIOUS
  <2>2. QED
    BY <1>1, <2>1 DEF Sums
<1>3. SumTo(f, n + 1) = g[n + 1] /\ SumTo(f, n) = g[n]
  BY <1>1, <1>2, SumIsLastSum
<1>4. QED
  BY <1>2, <1>3

\* Nothing but the first n values counts.
LEMMA SumOfSame ==
  ASSUME NEW f, NEW h, NEW n \in Nat, \A i \in 1 .. n : f[i] = h[i]
  PROVE  SumTo(f, n) = SumTo(h, n)
<1>1. PICK g : Sums(f, n, g)
  BY SumsExist
<1>2. Sums(h, n, g)
  BY <1>1 DEF Sums
<1>3. QED
  BY <1>1, <1>2, SumIsLastSum

\* Sums of integers are integers.
LEMMA SumOfInts ==
  ASSUME NEW f, NEW n \in Nat, \A i \in 1 .. n : f[i] \in Int
  PROVE  SumTo(f, n) \in Int
<1>. DEFINE S == {m \in Nat : m <= n => SumTo(f, m) \in Int}
<1>1. 0 \in S
  BY SumOfNone
<1>2. ASSUME NEW m \in Nat, m \in S
      PROVE  m + 1 \in S
  <2>1. SumTo(f, m + 1) = SumTo(f, m) + f[m + 1]
    BY SumOfOneMore
  <2>2. QED
    BY <1>2, <2>1
<1>. HIDE DEF S
<1>3. n \in S
  BY <1>1, <1>2, SetInduction
<1>4. QED
  BY <1>3 DEF S

\* Values that are added one by one add up to two sums.
LEMMA SumsAdd ==
  ASSUME NEW f, NEW g, NEW h, NEW n \in Nat,
         \A i \in 1 .. n : f[i] \in Int /\ g[i] \in Int /\ h[i] = f[i] + g[i]
  PROVE  /\ SumTo(f, n) \in Int /\ SumTo(g, n) \in Int
         /\ SumTo(h, n) = SumTo(f, n) + SumTo(g, n)
<1>. DEFINE Fine(m) == /\ SumTo(f, m) \in Int /\ SumTo(g, m) \in Int
                       /\ SumTo(h, m) = SumTo(f, m) + SumTo(g, m)
            S == {m \in Nat : m <= n => Fine(m)}
<1>1. 0 \in S
  <2>1. SumTo(f, 0) = 0 /\ SumTo(g, 0) = 0 /\ SumTo(h, 0) = 0
    BY SumOfNone
  <2>2. QED
    BY <2>1
<1>2. ASSUME NEW m \in Nat, m \in S
      PROVE  m + 1 \in S
  <2>1. SUFFICES ASSUME m + 1 <= n PROVE Fine(m + 1)
    OBVIOUS
  <2>2. PICK x, y, z, a, b, c :
          /\ x = SumTo(f, m) /\ y = SumTo(g, m) /\ z = SumTo(h, m)
          /\ a = f[m + 1] /\ b = g[m + 1] /\ c = h[m + 1]
    OBVIOUS
  <2>3. x \in Int /\ y \in Int /\ z = x + y
    BY <1>2, <2>1, <2>2
  <2>4. a \in Int /\ b \in Int /\ c = a + b
    <3>1. m + 1 \in 1 .. n
      BY <2>1
    <3>2. QED
      BY <2>2, <3>1
  <2>5. SumTo(f, m + 1) = x + a /\ SumTo(g, m + 1) = y + b /\ SumTo(h, m + 1) = z + c
    BY <2>2, SumOfOneMore
  <2>6. x + a \in Int /\ y + b \in Int /\ z + c = (x + a) + (y + b)
    BY <2>3, <2>4
  <2>7. QED
    BY <2>5, <2>6
<1>. HIDE DEF S
<1>3. n \in S
  BY <1>1, <1>2, SetInduction
<1>4. QED
  BY <1>3 DEF S

\* A value that is added as often as a set has members
LEMMA SumOfSome ==
  ASSUME NEW n \in Nat, NEW K \in SUBSET (1 .. n), NEW c \in Int
  PROVE  /\ IsFiniteSet(K) /\ Cardinality(K) \in Nat
         /\ SumTo([k \in 1 .. n |-> IF k \in K THEN c ELSE 0], n) = c * Cardinality(K)
<1>. DEFINE f == [k \in 1 .. n |-> IF k \in K THEN c ELSE 0]
            Low(m) == {k \in K : k <= m}
            S == {m \in Nat : m <= n => SumTo(f, m) = c * Cardinality(Low(m))}
<1>0. \A k \in K : k \in Nat /\ k >= 1 /\ k <= n
  OBVIOUS
<1>1. IsFiniteSet(1 .. n)
  BY FS_Interval
<1>2. \A m \in Nat : IsFiniteSet(Low(m)) /\ Cardinality(Low(m)) \in Nat
  <2>1. \A m \in Nat : Low(m) \subseteq 1 .. n
    OBVIOUS
  <2>2. QED
    BY <1>1, <2>1, FS_Subset, FS_CardinalityType
<1>3. 0 \in S
  <2>1. SumTo(f, 0) = 0
    BY SumOfNone
  <2>2. Low(0) = {}
    <3>1. \A k \in K : ~(k <= 0)
      BY <1>0
    <3>2. QED
      BY <3>1
  <2>3. Cardinality(Low(0)) = 0
    BY <2>2, FS_EmptySet
  <2>4. QED
    BY <2>1, <2>3
<1>4. ASSUME NEW m \in Nat, m \in S
      PROVE  m + 1 \in S
  <2>1. SUFFICES ASSUME m + 1 <= n PROVE SumTo(f, m + 1) = c * Cardinality(Low(m + 1))
    OBVIOUS
  <2>2. SumTo(f, m) = c * Cardinality(Low(m))
    BY <1>4, <2>1
  <2>3. SumTo(f, m + 1) = SumTo(f, m) + f[m + 1]
    BY SumOfOneMore
  <2>4. f[m + 1] = IF m + 1 \in K THEN c ELSE 0
    BY <2>1
  <2>5. CASE m + 1 \in K
    <3>1. Low(m + 1) = Low(m) \cup {m + 1} /\ m + 1 \notin Low(m)
      <4>1. \A k \in K : k <= m + 1 <=> k <= m \/ k = m + 1
        BY <1>0
      <4>2. ~(m + 1 <= m)
        OBVIOUS
      <4>3. QED
        BY <2>5, <4>1, <4>2
    <3>2. Cardinality(Low(m + 1)) = Cardinality(Low(m)) + 1
      BY <1>2, <3>1, FS_AddElement
    <3>3. PICK x \in Nat : x = Cardinality(Low(m))
      BY <1>2
    <3>4. c * (x + 1) = c * x + c
      OBVIOUS
    <3>5. QED
      BY <2>2, <2>3, <2>4, <2>5, <3>2, <3>3, <3>4
  <2>6. CASE m + 1 \notin K
    <3>1. Low(m + 1) = Low(m)
      <4>1. \A k \in K : k <= m + 1 <=> k <= m
        BY <1>0, <2>6
      <4>2. QED
        BY <4>1
    <3>2. PICK x \in Nat : x = Cardinality(Low(m))
      BY <1>2
    <3>3. c * x \in Int
      OBVIOUS
    <3>4. SumTo(f, m + 1) = c * x + 0
      BY <2>2, <2>3, <2>4, <2>6, <3>2
    <3>5. c * Cardinality(Low(m + 1)) = c * x
      BY <3>1, <3>2
    <3>. HIDE DEF f, Low
    <3>6. QED
      BY <3>3, <3>4, <3>5
  <2>7. QED
    BY <2>5, <2>6
<1>5. Low(n) = K
  BY <1>0
<1>6. IsFiniteSet(K) /\ Cardinality(K) \in Nat
  BY <1>2, <1>5
<1>. HIDE DEF S
<1>7. n \in S
  BY <1>3, <1>4, SetInduction
<1>. HIDE DEF f
<1>8. SumTo(f, n) = c * Cardinality(K)
  <2>1. SumTo(f, n) = c * Cardinality(Low(n))
    BY <1>7 DEF S
  <2>2. QED
    BY <1>5, <2>1
<1>9. QED
  BY <1>6, <1>8 DEF f

\* Adding up row by row is adding up column by column.
LEMMA SumOfRows ==
  ASSUME NEW n \in Nat, NEW m \in Nat, NEW g \in [1 .. m -> [1 .. n -> Int]],
         NEW r \in [1 .. m -> Int], \A i \in 1 .. m : SumTo(g[i], n) = r[i]
  PROVE  SumTo([k \in 1 .. n |-> SumTo([i \in 1 .. m |-> g[i][k]], m)], n) = SumTo(r, m)
<1>. DEFINE col(k) == [i \in 1 .. m |-> g[i][k]]
            f(j) == [k \in 1 .. n |-> SumTo(col(k), j)]
            S == {j \in Nat : j <= m => SumTo(f(j), n) = SumTo(r, j) /\ \A k \in 1 .. n : f(j)[k] \in Int}
<1>1. 0 \in S
  <2>1. \A k \in 1 .. n : f(0)[k] = 0
    BY SumOfNone
  <2>2. SumTo(f(0), n) = 0
    <3>1. SumTo([k \in 1 .. n |-> IF k \in {} THEN 0 ELSE 0], n) = 0 * Cardinality({})
      <4>1. {} \in SUBSET (1 .. n) /\ 0 \in Int
        OBVIOUS
      <4>. HIDE DEF col, f, S
      <4>2. QED
        BY ONLY n \in Nat, <4>1, SumOfSome
    <3>2. Cardinality({}) = 0
      BY FS_EmptySet
    <3>. DEFINE z == [k \in 1 .. n |-> IF k \in {} THEN 0 ELSE 0]
    <3>3. \A k \in 1 .. n : f(0)[k] = z[k]
      BY <2>1
    <3>4. SumTo(z, n) = 0
      BY <3>1, <3>2
    <3>. HIDE DEF z, f
    <3>5. QED
      BY <3>3, <3>4, SumOfSame
  <2>3. SumTo(r, 0) = 0
    BY SumOfNone
  <2>4. QED
    BY <2>1, <2>2, <2>3
<1>2. ASSUME NEW j \in Nat, j \in S
      PROVE  j + 1 \in S
  <2>1. SUFFICES ASSUME j + 1 <= m
                 PROVE  SumTo(f(j + 1), n) = SumTo(r, j + 1) /\ \A k \in 1 .. n : f(j + 1)[k] \in Int
    OBVIOUS
  <2>2. SumTo(f(j), n) = SumTo(r, j) /\ \A k \in 1 .. n : f(j)[k] \in Int
    BY <1>2, <2>1
  <2>3. j + 1 \in 1 .. m /\ g[j + 1] \in [1 .. n -> Int]
    BY <2>1
  <2>4. \A k \in 1 .. n : f(j + 1)[k] = f(j)[k] + g[j + 1][k] /\ g[j + 1][k] \in Int
    <3>1. TAKE k \in 1 .. n
    <3>2. SumTo(col(k), j + 1) = SumTo(col(k), j) + col(k)[j + 1]
      BY SumOfOneMore
    <3>3. col(k)[j + 1] = g[j + 1][k]
      BY <2>3
    <3>4. f(j + 1)[k] = SumTo(col(k), j + 1) /\ f(j)[k] = SumTo(col(k), j)
      OBVIOUS
    <3>5. QED
      BY <2>3, <3>2, <3>3, <3>4
  <2>5. SumTo(g[j + 1], n) = r[j + 1] /\ SumTo(r, j + 1) = SumTo(r, j) + r[j + 1]
    BY <2>3, SumOfOneMore
  <2>6. PICK a, b, c : a = f(j) /\ b = g[j + 1] /\ c = f(j + 1)
    OBVIOUS
  <2>. HIDE DEF f
  <2>7. \A k \in 1 .. n : a[k] \in Int /\ b[k] \in Int /\ c[k] = a[k] + b[k]
    BY <2>2, <2>4, <2>6
  <2>8. SumTo(c, n) = SumTo(a, n) + SumTo(b, n)
    BY <2>7, SumsAdd
  <2>9. \A k \in 1 .. n : c[k] \in Int
    BY <2>7
  <2>10. SumTo(c, n) = SumTo(r, j + 1)
    BY <2>2, <2>5, <2>6, <2>8
  <2>11. QED
    BY <2>6, <2>9, <2>10
<1>. HIDE DEF S
<1>3. m \in S
  BY <1>1, <1>2, SetInduction
<1>4. QED
  BY <1>3 DEF S

\* The members of a finite set, numbered
Numbering(e, n, S) ==
  /\ n \in Nat /\ e \in [1 .. n -> S]
  /\ \A j, k \in 1 .. n : e[j] = e[k] => j = k
  /\ \A x \in S : \E k \in 1 .. n : e[k] = x

LEMMA NumberingExists ==
  ASSUME NEW S, IsFiniteSet(S)
  PROVE  \E e, n : Numbering(e, n, S)
<1>1. PICK n \in Nat : ExistsBijection(1 .. n, S)
  BY FS_NatBijection
<1>2. PICK e : e \in Bijection(1 .. n, S)
  BY <1>1 DEF ExistsBijection
<1>3. e \in [1 .. n -> S]
  BY <1>2 DEF Bijection, Injection
<1>4. \A j, k \in 1 .. n : e[j] = e[k] => j = k
  BY <1>2, <1>3 DEF Bijection, Injection, IsInjective
<1>5. \A x \in S : \E k \in 1 .. n : e[k] = x
  BY <1>2 DEF Bijection, Surjection
<1>6. QED
  BY <1>3, <1>4, <1>5 DEF Numbering

\* A part of the set has as many members as numbers.
LEMMA NumbersOfPart ==
  ASSUME NEW e, NEW n, NEW S, Numbering(e, n, S), NEW T \in SUBSET S
  PROVE  /\ IsFiniteSet(T)
         /\ {k \in 1 .. n : e[k] \in T} \in SUBSET (1 .. n)
         /\ Cardinality({k \in 1 .. n : e[k] \in T}) = Cardinality(T)
<1>. DEFINE K == {k \in 1 .. n : e[k] \in T}
            h == [k \in K |-> e[k]]
<1>1. IsFiniteSet(K)
  <2>1. IsFiniteSet(1 .. n) /\ K \subseteq 1 .. n
    BY FS_Interval DEF Numbering
  <2>2. QED
    BY <2>1, FS_Subset
<1>2. h \in Bijection(K, T)
  <2>1. h \in [K -> T] /\ \A k \in K : h[k] = e[k]
    OBVIOUS
  <2>. HIDE DEF h
  <2>2. IsInjective(h)
    BY <2>1 DEF IsInjective, Numbering
  <2>3. \A x \in T : \E k \in K : h[k] = x
    BY <2>1 DEF Numbering
  <2>. HIDE DEF K
  <2>4. QED
    BY <2>1, <2>2, <2>3 DEF Bijection, Injection, Surjection
<1>3. ExistsBijection(K, T)
  BY <1>2 DEF ExistsBijection
<1>4. IsFiniteSet(T) /\ Cardinality(T) = Cardinality(K)
  BY <1>1, <1>3, FS_Bijection
<1>5. QED
  BY <1>4

\* What the library adds up over a set are the values of its numbered members.
\* It takes them in some order, in which the sum over what is left of the set
\* is always that of the values with other numbers.
LEMMA SumOverSet ==
  ASSUME NEW e, NEW n, NEW I, Numbering(e, n, I), NEW f, \A x \in I : f[x] \in Int
  PROVE  SumFunctionOnSet(f, I) = SumTo([k \in 1 .. n |-> f[e[k]]], n)
<1>. DEFINE any(s) == CHOOSE x \in s : TRUE
            part(s) == [k \in 1 .. n |-> IF e[k] \in s THEN f[e[k]] ELSE 0]
            g == [s \in SUBSET I |-> SumTo(part(s), n)]
            F(w) == [s \in SUBSET I |-> IF s = {} THEN 0 ELSE f[any(s)] + w[s \ {any(s)}]]
            it == CHOOSE w : w = F(w)
<1>1. SumFunctionOnSet(f, I) = it[I]
  BY DEF SumFunctionOnSet, FoldFunctionOnSet, MapThenFoldSet
<1>2. n \in Nat /\ \A k \in 1 .. n : e[k] \in I
  BY DEF Numbering
<1>3. ASSUME NEW s \in SUBSET I, NEW x \in s
      PROVE  SumTo(part(s), n) = f[x] + SumTo(part(s \ {x}), n)
  <2>1. PICK j \in 1 .. n : e[j] = x
    BY DEF Numbering
  <2>2. PICK a, b, c, v : /\ a = part(s) /\ b = part(s \ {x}) /\ v = f[x]
                          /\ c = [k \in 1 .. n |-> IF k \in {j} THEN v ELSE 0]
    OBVIOUS
  <2>3. v \in Int
    BY <2>2
  <2>4. \A k \in 1 .. n : c[k] \in Int /\ b[k] \in Int /\ a[k] = c[k] + b[k]
    <3>1. TAKE k \in 1 .. n
    <3>2. f[e[k]] \in Int
      BY <1>2
    <3>3. CASE k = j
      <4>1. a[k] = v /\ b[k] = 0 /\ c[k] = v
        BY <2>1, <2>2, <3>3
      <4>2. QED
        BY <2>3, <4>1
    <3>4. CASE k # j
      <4>1. e[k] # x
        BY <2>1, <3>4 DEF Numbering
      <4>2. c[k] = 0 /\ a[k] = b[k] /\ b[k] \in Int
        BY <2>2, <3>2, <3>4, <4>1
      <4>3. QED
        BY <4>2
    <3>5. QED
      BY <3>3, <3>4
  <2>5. SumTo(a, n) = SumTo(c, n) + SumTo(b, n)
    BY <1>2, <2>4, SumsAdd
  <2>6. SumTo(c, n) = v
    <3>1. {j} \in SUBSET (1 .. n) /\ Cardinality({j}) = 1
      BY FS_Singleton
    <3>2. SumTo(c, n) = v * 1
      BY <1>2, <2>2, <2>3, <3>1, SumOfSome
    <3>3. QED
      BY <2>3, <3>2
  <2>7. QED
    BY <2>2, <2>5, <2>6
<1>4. SumTo(part({}), n) = 0
  <2>1. SumTo([k \in 1 .. n |-> IF k \in {} THEN 0 ELSE 0], n) = 0 * Cardinality({})
    BY <1>2, SumOfSome
  <2>2. Cardinality({}) = 0
    BY FS_EmptySet
  <2>3. part({}) = [k \in 1 .. n |-> IF k \in {} THEN 0 ELSE 0]
    OBVIOUS
  <2>4. QED
    BY <2>1, <2>2, <2>3
<1>5. \A s \in SUBSET I : s # {} => any(s) \in s
  OBVIOUS
<1>. HIDE DEF part, any
<1>6. \A s \in SUBSET I : g[s] = IF s = {} THEN 0 ELSE f[any(s)] + g[s \ {any(s)}]
  <2>1. TAKE s \in SUBSET I
  <2>2. s \ {any(s)} \in SUBSET I
    OBVIOUS
  <2>3. g[s] = SumTo(part(s), n) /\ g[s \ {any(s)}] = SumTo(part(s \ {any(s)}), n)
    BY <2>2
  <2>4. CASE s = {}
    BY <1>4, <2>3, <2>4
  <2>5. CASE s # {}
    <3>1. any(s) \in s
      BY <1>5, <2>5
    <3>2. SumTo(part(s), n) = f[any(s)] + SumTo(part(s \ {any(s)}), n)
      BY <1>3, <3>1
    <3>3. QED
      BY <2>3, <2>5, <3>2
  <2>6. QED
    BY <2>4, <2>5
<1>7. g = [s \in SUBSET I |-> g[s]]
  OBVIOUS
<1>8. g[I] = SumTo(part(I), n)
  OBVIOUS
<1>. HIDE DEF g
<1>9. g = F(g)
  BY <1>6, <1>7
<1>. HIDE DEF F
<1>10. it = F(it)
  BY <1>9
<1>. HIDE DEF it
<1>11. \A s \in SUBSET I : it[s] = IF s = {} THEN 0 ELSE f[any(s)] + it[s \ {any(s)}]
  BY <1>10 DEF F
<1>. DEFINE M == {m \in Nat : \A s \in SUBSET I : Cardinality(s) = m => it[s] = g[s]}
<1>12. ASSUME NEW s \in SUBSET I
       PROVE  IsFiniteSet(s)
  BY NumbersOfPart
<1>13. 0 \in M
  <2>1. ASSUME NEW s \in SUBSET I, Cardinality(s) = 0
        PROVE  it[s] = g[s]
    <3>1. s = {}
      BY <1>12, <2>1, FS_EmptySet
    <3>2. QED
      BY <1>6, <1>11, <3>1
  <2>2. QED
    BY <2>1
<1>14. ASSUME NEW m \in Nat, m \in M
       PROVE  m + 1 \in M
  <2>1. ASSUME NEW s \in SUBSET I, Cardinality(s) = m + 1
        PROVE  it[s] = g[s]
    <3>1. s # {}
      <4>1. m + 1 # 0
        OBVIOUS
      <4>2. QED
        BY <2>1, <4>1, FS_EmptySet
    <3>2. PICK x \in s : x = any(s)
      BY <1>5, <3>1
    <3>3. Cardinality(s \ {x}) = m
      <4>1. Cardinality(s \ {x}) = Cardinality(s) - 1
        BY <1>12, FS_RemoveElement
      <4>2. QED
        BY <2>1, <4>1
    <3>4. it[s \ {x}] = g[s \ {x}]
      BY <1>14, <3>3
    <3>5. QED
      BY <1>6, <1>11, <3>1, <3>2, <3>4
  <2>2. QED
    BY <2>1
<1>15. it[I] = g[I]
  <2>1. IsFiniteSet(I)
    BY <1>12
  <2>2. PICK m \in Nat : m = Cardinality(I)
    BY <2>1, FS_CardinalityType
  <2>. HIDE DEF M
  <2>3. m \in M
    BY <1>13, <1>14, SetInduction
  <2>4. QED
    BY <2>2, <2>3 DEF M
<1>16. part(I) = [k \in 1 .. n |-> f[e[k]]]
  BY <1>2 DEF part
<1>17. QED
  BY <1>1, <1>8, <1>15, <1>16

-------------------------------------------------------------------------------
(* Paths                                                                   *)

\* The node before the last word of a path
Before(h) == IF h = <<>> THEN Bos ELSE h[1]

\* The nodes along a path
LEMMA NodesAlongPath ==
  ASSUME NEW h \in Seq(Nat), NEW r \in Nat
  PROVE  /\ Way(h, r)[1] = -1 /\ Way(h, r)[2] = 0 /\ Way(h, r)[Len(h) + 3] = r
         /\ \A i \in 1 .. Len(h) : Way(h, r)[i + 2] = h[Len(h) - i + 1]
<1>. DEFINE v == Reverse(h)
            a == Append(v, r)
            p == <<-1, Bos>>
<1>1. PICK w : w = Way(h, r)
  OBVIOUS
<1>2. PICK n : n = Len(h)
  OBVIOUS
<1>3. n \in Nat /\ \A i \in 1 .. n : h[i] \in Nat
  BY <1>2
<1>4. v \in Seq(Int) /\ Len(v) = n /\ \A i \in 1 .. n : v[i] = h[n - i + 1]
  <2>1. \A i \in 1 .. n : h[n - i + 1] \in Int
    BY <1>3
  <2>2. v = [i \in 1 .. n |-> h[n - i + 1]]
    BY <1>2 DEF Reverse
  <2>. HIDE DEF v
  <2>3. QED
    BY <1>3, <2>1, <2>2
<1>. HIDE DEF v
<1>5. a \in Seq(Int) /\ Len(a) = n + 1 /\ a[n + 1] = r /\ \A i \in 1 .. n : a[i] = v[i]
  <2>1. \A x \in Seq(Int), y \in Int :
          /\ Append(x, y) \in Seq(Int) /\ Len(Append(x, y)) = Len(x) + 1
          /\ Append(x, y)[Len(x) + 1] = y
          /\ \A i \in 1 .. Len(x) : Append(x, y)[i] = x[i]
    BY AppendProperties
  <2>2. QED
    BY <1>3, <1>4, <2>1
<1>6. p \in Seq(Int) /\ Len(p) = 2 /\ p[1] = -1 /\ p[2] = 0
  BY DEF Bos
<1>. HIDE DEF a, p
<1>7. /\ p \o a \in Seq(Int) /\ Len(p \o a) = Len(p) + Len(a)
      /\ \A i \in 1 .. Len(p) + Len(a) : (p \o a)[i] = IF i <= Len(p) THEN p[i] ELSE a[i - Len(p)]
  BY <1>5, <1>6, ConcatProperties
<1>8. w = p \o a
  BY <1>1 DEF Way, p, a, v
<1>9. \A i \in 1 .. n + 3 : (i <= 2 => w[i] = p[i]) /\ (~(i <= 2) => w[i] = a[i - 2])
  <2>1. Len(p) + Len(a) = n + 3 /\ Len(p) = 2
    BY <1>3, <1>5, <1>6
  <2>2. QED
    BY <1>7, <1>8, <2>1
<1>10. w[n + 3] = r
  <2>1. n + 3 \in 1 .. n + 3 /\ ~(n + 3 <= 2) /\ n + 3 - 2 = n + 1
    BY <1>3
  <2>2. PICK m : m = n + 3
    OBVIOUS
  <2>3. w[m] = a[m - 2]
    BY <1>9, <2>1, <2>2
  <2>4. m - 2 = n + 1
    BY <1>3, <2>2
  <2>5. QED
    BY <1>5, <2>2, <2>3, <2>4, Zenon
<1>11. w[1] = -1 /\ w[2] = 0
  <2>1. 1 \in 1 .. n + 3 /\ 2 \in 1 .. n + 3 /\ 1 <= 2 /\ 2 <= 2
    BY <1>3
  <2>2. QED
    BY <1>6, <1>9, <2>1
<1>12. ASSUME NEW i \in 1 .. n
       PROVE  w[i + 2] = h[n - i + 1]
  <2>1. i + 2 \in 1 .. n + 3 /\ ~(i + 2 <= 2) /\ i + 2 - 2 = i
    BY <1>3
  <2>2. w[i + 2] = a[i]
    BY <1>9, <2>1
  <2>3. QED
    BY <1>4, <1>5, <2>2
<1>13. QED
  BY <1>1, <1>2, <1>10, <1>11, <1>12

\* A path of one word more has the same nodes up to that word.
LEMMA NodesAlongLongerPath ==
  ASSUME NEW h \in Seq(Nat), NEW l \in Nat, NEW r \in Nat
  PROVE  LET long == Way(<<l>> \o h, r)
             n == Len(h)
         IN /\ \A i \in 1 .. n + 3 : long[i] = Way(h, l)[i]
            /\ long[n + 2] = Before(h) /\ long[n + 3] = l /\ long[n + 4] = r
<1>1. PICK n, g, short, long :
        n = Len(h) /\ g = <<l>> \o h /\ short = Way(h, l) /\ long = Way(g, r)
  OBVIOUS
<1>2. n \in Nat
  BY <1>1
<1>3. g \in Seq(Nat) /\ Len(g) = n + 1 /\ g[1] = l /\ \A i \in 1 .. n : g[i + 1] = h[i]
  BY <1>1, <1>2
<1>4. /\ short[1] = -1 /\ short[2] = 0 /\ short[n + 3] = l
      /\ \A i \in 1 .. n : short[i + 2] = h[n - i + 1]
  BY <1>1, NodesAlongPath
<1>5. long = Way(g, r)
  BY <1>1
<1>6. /\ long[1] = -1 /\ long[2] = 0 /\ long[n + 4] = r
      /\ \A i \in 1 .. n + 1 : long[i + 2] = g[n + 1 - i + 1]
  <2>1. g \in Seq(Nat)
    BY <1>3
  <2>2. /\ long[1] = -1 /\ long[2] = 0 /\ long[Len(g) + 3] = r
        /\ \A i \in 1 .. Len(g) : long[i + 2] = g[Len(g) - i + 1]
    BY <2>1, <1>5, NodesAlongPath
  <2>3. Len(g) + 3 = n + 4
    BY <1>2, <1>3
  <2>4. ASSUME NEW i \in 1 .. n + 1
        PROVE  long[i + 2] = g[n + 1 - i + 1]
    <3>1. i \in 1 .. Len(g) /\ Len(g) - i + 1 = n + 1 - i + 1
      BY <1>2, <1>3
    <3>2. QED
      BY <2>2, <3>1
  <2>5. QED
    BY <2>2, <2>3, <2>4
<1>7. long[n + 3] = l
  <2>1. n + 1 \in 1 .. n + 1 /\ n + 1 + 2 = n + 3 /\ n + 1 - (n + 1) + 1 = 1
    BY <1>2
  <2>2. QED
    BY <1>3, <1>6, <2>1
<1>8. \A i \in 1 .. n : long[i + 2] = short[i + 2]
  <2>1. TAKE i \in 1 .. n
  <2>2. i \in 1 .. n + 1 /\ n - i + 1 \in 1 .. n /\ n + 1 - i + 1 = (n - i + 1) + 1
    BY <1>2
  <2>3. long[i + 2] = g[(n - i + 1) + 1]
    BY <1>6, <2>2
  <2>4. QED
    BY <1>3, <1>4, <2>2, <2>3
<1>9. \A i \in 1 .. n + 3 : long[i] = short[i]
  <2>1. TAKE i \in 1 .. n + 3
  <2>2. CASE i \in {1, 2, n + 3}
    BY <1>4, <1>6, <1>7, <2>2
  <2>3. CASE i \notin {1, 2, n + 3}
    <3>1. i - 2 \in 1 .. n /\ i - 2 + 2 = i
      BY <1>2, <2>3
    <3>2. QED
      BY <1>8, <3>1
  <2>4. QED
    BY <2>2, <2>3
<1>10. long[n + 2] = Before(h)
  <2>1. CASE h = <<>>
    <3>1. n = 0
      BY <1>1, <2>1
    <3>2. QED
      BY <1>6, <2>1, <3>1 DEF Before, Bos
  <2>2. CASE h # <<>>
    <3>1. n # 0 /\ n \in 1 .. n /\ n - n + 1 = 1
      BY <1>1, <1>2, <2>2, EmptySeq
    <3>2. long[n + 2] = h[1]
      BY <1>4, <1>8, <3>1
    <3>3. QED
      BY <2>2, <3>2 DEF Before
  <2>3. QED
    BY <2>1, <2>2
<1>11. QED
  BY <1>1, <1>6, <1>7, <1>9, <1>10

\* The sum of the values of F at the trigrams of a path
SumAlong(F, h, r) ==
  SumTo([i \in 1 .. Len(h) + 1 |-> F[<<Way(h, r)[i], Way(h, r)[i + 1], Way(h, r)[i + 2]>>]],
        Len(h) + 1)

\* What a path of one word more adds to it
LEMMA SumOfLongerPath ==
  ASSUME NEW F, NEW h \in Seq(Nat), NEW l \in Nat, NEW r \in Nat
  PROVE  SumAlong(F, <<l>> \o h, r) = SumAlong(F, h, l) + F[<<Before(h), l, r>>]
<1>1. PICK n, g, short, long :
        n = Len(h) /\ g = <<l>> \o h /\ short = Way(h, l) /\ long = Way(g, r)
  OBVIOUS
<1>2. n \in Nat /\ Len(g) + 1 = n + 2
  BY <1>1
<1>3. PICK fs : fs = [i \in 1 .. n + 1 |-> F[<<short[i], short[i + 1], short[i + 2]>>]]
  OBVIOUS
<1>4. PICK fl : fl = [i \in 1 .. n + 2 |-> F[<<long[i], long[i + 1], long[i + 2]>>]]
  OBVIOUS
<1>5. SumAlong(F, h, l) = SumTo(fs, n + 1)
  BY <1>1, <1>3 DEF SumAlong
<1>6. SumAlong(F, g, r) = SumTo(fl, n + 2)
  <2>1. SumAlong(F, g, r)
          = SumTo([i \in 1 .. Len(g) + 1 |-> F[<<long[i], long[i + 1], long[i + 2]>>]], Len(g) + 1)
    BY <1>1 DEF SumAlong
  <2>2. QED
    BY <1>2, <1>4, <2>1
<1>7. /\ \A i \in 1 .. n + 3 : long[i] = short[i]
      /\ long[n + 2] = Before(h) /\ long[n + 3] = l /\ long[n + 4] = r
  BY <1>1, NodesAlongLongerPath
<1>8. \A i \in 1 .. n + 1 : fl[i] = fs[i]
  <2>1. TAKE i \in 1 .. n + 1
  <2>2. i \in 1 .. n + 2 /\ i \in 1 .. n + 3 /\ i + 1 \in 1 .. n + 3 /\ i + 2 \in 1 .. n + 3
    BY <1>2
  <2>3. fl[i] = F[<<long[i], long[i + 1], long[i + 2]>>]
    BY <1>4, <2>2
  <2>4. fs[i] = F[<<short[i], short[i + 1], short[i + 2]>>]
    BY <1>3
  <2>5. QED
    BY <1>7, <2>2, <2>3, <2>4
<1>9. fl[n + 2] = F[<<Before(h), l, r>>]
  <2>1. n + 2 \in 1 .. n + 2 /\ n + 2 + 1 = n + 3 /\ n + 2 + 2 = n + 4
    BY <1>2
  <2>2. fl[n + 2] = F[<<long[n + 2], long[n + 3], long[n + 4]>>]
    BY <1>4, <2>1
  <2>3. QED
    BY <1>7, <2>2
<1>10. SumTo(fl, n + 2) = SumTo(fl, n + 1) + fl[n + 2]
  <2>1. n + 1 \in Nat /\ n + 1 + 1 = n + 2
    BY <1>2
  <2>2. QED
    BY <2>1, SumOfOneMore
<1>11. SumTo(fl, n + 1) = SumTo(fs, n + 1)
  <2>1. n + 1 \in Nat
    BY <1>2
  <2>2. QED
    BY <1>8, <2>1, SumOfSame
<1>12. QED
  BY <1>1, <1>5, <1>6, <1>9, <1>10, <1>11

ExtraSum(h, r) == SumOver(LAMBDA t : lat.extra[t], h, r)

\* Both scores of a path are sums over its trigrams.
LEMMA ScoresAreSums ==
  /\ \A h, r : ExtraSum(h, r) = SumAlong(lat.extra, h, r)
  /\ \A F, h, r :
       (\A i \in 1 .. Len(h) + 1 :
          F[<<Way(h, r)[i], Way(h, r)[i + 1], Way(h, r)[i + 2]>>]
            = TrigramScore(<<Way(h, r)[i], Way(h, r)[i + 1], Way(h, r)[i + 2]>>))
         => PathScore(h, r) = SumAlong(F, h, r)
<1>1. ASSUME NEW h, NEW r
      PROVE  ExtraSum(h, r) = SumAlong(lat.extra, h, r)
  BY DEF ExtraSum, SumOver, SumAlong
<1>2. ASSUME NEW F, NEW h, NEW r,
             \A i \in 1 .. Len(h) + 1 :
               F[<<Way(h, r)[i], Way(h, r)[i + 1], Way(h, r)[i + 2]>>]
                 = TrigramScore(<<Way(h, r)[i], Way(h, r)[i + 1], Way(h, r)[i + 2]>>)
      PROVE  PathScore(h, r) = SumAlong(F, h, r)
  <2>1. [i \in 1 .. Len(h) + 1 |-> F[<<Way(h, r)[i], Way(h, r)[i + 1], Way(h, r)[i + 2]>>]]
          = [i \in 1 .. Len(h) + 1 |->
               TrigramScore(<<Way(h, r)[i], Way(h, r)[i + 1], Way(h, r)[i + 2]>>)]
    BY <1>2
  <2>2. QED
    BY <2>1 DEF PathScore, SumOver, SumAlong
<1>3. QED
  BY <1>1, <1>2

\* The scores of a path that has one word more
LEMMA ScoreOfLongerPath ==
  ASSUME NEW h \in Seq(Nat), NEW l \in Nat, NEW r \in Nat
  PROVE  /\ PathScore(<<l>> \o h, r) = PathScore(h, l) + TrigramScore(<<Before(h), l, r>>)
         /\ ExtraSum(<<l>> \o h, r) = ExtraSum(h, l) + lat.extra[<<Before(h), l, r>>]
<1>1. ExtraSum(<<l>> \o h, r) = ExtraSum(h, l) + lat.extra[<<Before(h), l, r>>]
  BY ScoresAreSums, SumOfLongerPath
<1>2. PathScore(<<l>> \o h, r) = PathScore(h, l) + TrigramScore(<<Before(h), l, r>>)
  <2>. DEFINE Trigrams(w, n) == {<<w[i], w[i + 1], w[i + 2]>> : i \in 1 .. n}
              g == <<l>> \o h
              T == Trigrams(Way(h, l), Len(h) + 1) \cup Trigrams(Way(g, r), Len(g) + 1)
                     \cup {<<Before(h), l, r>>}
  <2>1. PICK F : F = [t \in T |-> TrigramScore(t)]
    OBVIOUS
  <2>2. F[<<Before(h), l, r>>] = TrigramScore(<<Before(h), l, r>>)
    BY <2>1
  <2>3. \A i \in 1 .. Len(h) + 1 :
          F[<<Way(h, l)[i], Way(h, l)[i + 1], Way(h, l)[i + 2]>>]
            = TrigramScore(<<Way(h, l)[i], Way(h, l)[i + 1], Way(h, l)[i + 2]>>)
    BY <2>1
  <2>4. \A i \in 1 .. Len(g) + 1 :
          F[<<Way(g, r)[i], Way(g, r)[i + 1], Way(g, r)[i + 2]>>]
            = TrigramScore(<<Way(g, r)[i], Way(g, r)[i + 1], Way(g, r)[i + 2]>>)
    <3>. HIDE DEF g
    <3>1. QED
      BY <2>1
  <2>5. PathScore(h, l) = SumAlong(F, h, l) /\ PathScore(g, r) = SumAlong(F, g, r)
    <3>. HIDE DEF g
    <3>1. QED
      BY <2>3, <2>4, ScoresAreSums
  <2>6. SumAlong(F, g, r) = SumAlong(F, h, l) + F[<<Before(h), l, r>>]
    BY SumOfLongerPath
  <2>7. QED
    BY <2>2, <2>5, <2>6
<1>3. QED
  BY <1>1, <1>2

\* The scores of a path of no words before its node
LEMMA ScoreOfFirstNode ==
  ASSUME NEW r \in Nat
  PROVE  /\ PathScore(<<>>, r) = 0 + TrigramScore(<<-1, Bos, r>>)
         /\ ExtraSum(<<>>, r) = 0 + lat.extra[<<-1, Bos, r>>]
<1>1. PICK w : w = Way(<<>>, r)
  OBVIOUS
<1>2. <<>> \in Seq(Nat) /\ Len(<<>>) = 0
  OBVIOUS
<1>3. w[1] = -1 /\ w[1 + 1] = Bos /\ w[1 + 2] = r
  <2>1. PICK h : h = <<>>
    OBVIOUS
  <2>2. h \in Seq(Nat) /\ Len(h) = 0
    BY <2>1
  <2>3. Way(h, r)[1] = -1 /\ Way(h, r)[2] = 0 /\ Way(h, r)[Len(h) + 3] = r
    BY <2>2, NodesAlongPath
  <2>4. QED
    BY <1>1, <2>1, <2>2, <2>3 DEF Bos
<1>4. \A f : SumTo(f, 0 + 1) = 0 + f[0 + 1]
  BY SumOfNone, SumOfOneMore
<1>5. PathScore(<<>>, r) = 0 + TrigramScore(<<-1, Bos, r>>)
  <2>. DEFINE f == [i \in 1 .. 0 + 1 |-> TrigramScore(<<w[i], w[i + 1], w[i + 2]>>)]
  <2>1. PathScore(<<>>, r) = SumTo(f, 0 + 1)
    BY <1>1, <1>2 DEF PathScore, SumOver
  <2>2. f[0 + 1] = TrigramScore(<<-1, Bos, r>>)
    BY <1>3
  <2>. HIDE DEF f
  <2>3. QED
    BY <1>4, <2>1, <2>2
<1>6. ExtraSum(<<>>, r) = 0 + lat.extra[<<-1, Bos, r>>]
  <2>. DEFINE f == [i \in 1 .. 0 + 1 |-> lat.extra[<<w[i], w[i + 1], w[i + 2]>>]]
  <2>1. ExtraSum(<<>>, r) = SumTo(f, 0 + 1)
    BY <1>1, <1>2 DEF ExtraSum, SumOver
  <2>2. f[0 + 1] = lat.extra[<<-1, Bos, r>>]
    BY <1>3
  <2>. HIDE DEF f
  <2>3. QED
    BY <1>4, <2>1, <2>2
<1>7. QED
  BY <1>5, <1>6

\* A statement about all the nodes follows if, node by node, it follows from
\* the statement about the nodes that start earlier.
LEMMA NodeInduction ==
  ASSUME InputOK, NEW S \in SUBSET (1 .. Eos),
         \A r \in 1 .. Eos : (\A l \in 1 .. Eos : Start(l) < Start(r) => l \in S) => r \in S
  PROVE  S = 1 .. Eos
<1>1. lat.n \in Nat /\ \A r \in 1 .. Eos : Start(r) \in 0 .. lat.n
  BY NodesOfLattice
<1>. DEFINE M == {m \in Nat : \A r \in 1 .. Eos : Start(r) < m => r \in S}
<1>2. 0 \in M
  BY <1>1
<1>3. ASSUME NEW m \in Nat, m \in M
      PROVE  m + 1 \in M
  <2>1. \A r \in 1 .. Eos : Start(r) < m => r \in S
    BY <1>3
  <2>2. ASSUME NEW r \in 1 .. Eos, Start(r) < m + 1
        PROVE  r \in S
    <3>1. \A l \in 1 .. Eos : Start(l) < Start(r) => Start(l) < m
      BY <1>1, <2>2
    <3>2. QED
      BY <2>1, <3>1
  <2>3. QED
    BY <2>2
<1>. HIDE DEF M
<1>4. lat.n + 1 \in M
  BY <1>1, <1>2, <1>3, SetInduction
<1>5. \A r \in 1 .. Eos : r \in S
  BY <1>1, <1>4 DEF M
<1>6. QED
  BY <1>5

\* What is before an element of a beam, or before a node, is there: going back
\* along the pointers comes to an end.
LEMMA TracesUnroll ==
  ASSUME InputOK,
         \A r \in 1 .. Eos : \A k \in DOMAIN beams[r] : Points(beams[r][k], Start(r))
  PROVE  \A r \in 1 .. Eos : \A k \in DOMAIN beams[r] :
           Trace(r, k) = IF Start(r) = 0 THEN <<>>
                         ELSE <<beams[r][k].left>> \o Trace(beams[r][k].left, beams[r][k].beam)
<1>. DEFINE At(w, r, k) == IF Start(r) = 0 THEN <<>>
                           ELSE <<beams[r][k].left>> \o w[beams[r][k].left][beams[r][k].beam]
            F(w) == [r \in 1 .. Eos |-> [k \in DOMAIN beams[r] |-> At(w, r, k)]]
            Good(w, m) == \A r \in 1 .. Eos : Start(r) <= m => w[r] = F(w)[r]
            M == {m \in Nat : \E w : Good(w, m)}
<1>1. lat.n \in Nat /\ \A r \in 1 .. Eos : Start(r) \in 0 .. lat.n
  BY NodesOfLattice
<1>2. ASSUME NEW w, NEW v, NEW r \in 1 .. Eos,
             \A l \in 1 .. Eos : Start(l) < Start(r) => w[l] = v[l]
      PROVE  F(w)[r] = F(v)[r]
  <2>1. ASSUME NEW k \in DOMAIN beams[r]
        PROVE  At(w, r, k) = At(v, r, k)
    <3>1. CASE Start(r) = 0
      BY <3>1
    <3>2. CASE Start(r) # 0
      <4>1. beams[r][k].left \in Left(Start(r))
        BY <2>1 DEF Points
      <4>2. beams[r][k].left \in 1 .. Eos /\ Start(beams[r][k].left) < Start(r)
        BY <1>1, <3>2, <4>1, NodesOfLattice
      <4>3. QED
        BY <1>2, <4>2
    <3>3. QED
      BY <3>1, <3>2
  <2>. HIDE DEF At
  <2>2. QED
    BY <2>1
<1>3. 0 \in M
  <2>. DEFINE w == F(<<>>)
  <2>1. \A r \in 1 .. Eos : Start(r) <= 0 => w[r] = F(w)[r]
    <3>1. SUFFICES ASSUME NEW r \in 1 .. Eos, Start(r) <= 0 PROVE w[r] = F(w)[r]
      OBVIOUS
    <3>2. \A l \in 1 .. Eos : ~(Start(l) < Start(r))
      BY <1>1, <3>1
    <3>. HIDE DEF F, w
    <3>3. F(<<>>)[r] = F(w)[r]
      BY <1>2, <3>2
    <3>4. QED
      BY <3>3 DEF w
  <2>. HIDE DEF F, w
  <2>2. QED
    BY <2>1
<1>4. ASSUME NEW m \in Nat, m \in M
      PROVE  m + 1 \in M
  <2>. HIDE DEF F
  <2>1. PICK w : Good(w, m)
    BY <1>4
  <2>2. ASSUME NEW r \in 1 .. Eos, Start(r) <= m + 1
        PROVE  F(w)[r] = F(F(w))[r]
    <3>1. \A l \in 1 .. Eos : Start(l) < Start(r) => w[l] = F(w)[l]
      <4>1. \A l \in 1 .. Eos : Start(l) < Start(r) => Start(l) <= m
        BY <1>1, <2>2
      <4>2. QED
        BY <2>1, <4>1
    <3>2. PICK v : v = F(w)
      OBVIOUS
    <3>3. F(w)[r] = F(v)[r]
      BY <1>2, <3>1, <3>2
    <3>4. QED
      BY <3>2, <3>3
  <2>3. Good(F(w), m + 1)
    BY <2>2
  <2>. HIDE DEF Good
  <2>4. QED
    BY <2>3
<1>5. \E w : w = F(w)
  <2>1. lat.n \in M
    <3>. HIDE DEF M
    <3>1. QED
      BY <1>1, <1>3, <1>4, SetInduction
  <2>. HIDE DEF F
  <2>2. PICK w : Good(w, lat.n)
    BY <2>1
  <2>3. \A r \in 1 .. Eos : w[r] = F(w)[r]
    BY <1>1, <2>2
  <2>4. PICK v : v = F(w)
    OBVIOUS
  <2>5. \A r \in 1 .. Eos : v[r] = F(v)[r]
    <3>1. TAKE r \in 1 .. Eos
    <3>2. F(w)[r] = F(v)[r]
      BY <1>2, <2>3, <2>4
    <3>3. QED
      BY <2>4, <3>2
  <2>6. v = F(v)
    <3>1. v = [r \in 1 .. Eos |-> v[r]]
      BY <2>4 DEF F
    <3>2. F(v) = [r \in 1 .. Eos |-> F(v)[r]]
      BY DEF F
    <3>3. QED
      BY <2>5, <3>1, <3>2
  <2>7. QED
    BY <2>6
<1>6. Traces = F(Traces)
  <2>1. Traces = CHOOSE w : w = F(w)
    BY DEF Traces
  <2>. HIDE DEF F
  <2>2. QED
    BY <1>5, <2>1
<1>7. \A r \in 1 .. Eos : \A k \in DOMAIN beams[r] : Traces[r][k] = At(Traces, r, k)
  <2>. HIDE DEF At
  <2>1. PICK w : w = Traces
    OBVIOUS
  <2>2. w = F(w)
    BY <1>6, <2>1
  <2>3. \A r \in 1 .. Eos : w[r] = [k \in DOMAIN beams[r] |-> At(w, r, k)]
    BY <2>2
  <2>4. \A r \in 1 .. Eos : \A k \in DOMAIN beams[r] : w[r][k] = At(w, r, k)
    BY <2>3
  <2>5. QED
    BY <2>1, <2>4
<1>8. QED
  BY <1>7 DEF Trace

\* The set of the paths to a node satisfies its recursive equation: every way on
\* from a node leads to the right, so that the recursion ends.
LEMMA HistoriesUnroll ==
  ASSUME InputOK
  PROVE  \A r \in 1 .. Eos :
           Histories[r] = IF Start(r) = 0 THEN {<<>>}
                          ELSE UNION {{<<l>> \o h : h \in Histories[l]} : l \in Left(Start(r))}
<1>. DEFINE At(w, r) == IF Start(r) = 0 THEN {<<>>}
                        ELSE UNION {{<<l>> \o h : h \in w[l]} : l \in Left(Start(r))}
            F(w) == [r \in 1 .. Eos |-> At(w, r)]
            Good(w, m) == \A r \in 1 .. Eos : Start(r) <= m => w[r] = F(w)[r]
            M == {m \in Nat : \E w : Good(w, m)}
<1>1. lat.n \in Nat /\ \A r \in 1 .. Eos : Start(r) \in 0 .. lat.n
  BY NodesOfLattice
<1>2. ASSUME NEW w, NEW v, NEW r \in 1 .. Eos,
             \A l \in 1 .. Eos : Start(l) < Start(r) => w[l] = v[l]
      PROVE  F(w)[r] = F(v)[r]
  <2>1. At(w, r) = At(v, r)
    <3>1. CASE Start(r) = 0
      BY <3>1
    <3>2. CASE Start(r) # 0
      <4>1. ASSUME NEW l \in Left(Start(r))
            PROVE  w[l] = v[l]
        <5>1. l \in 1 .. Eos /\ Start(l) < Start(r)
          BY <1>1, <3>2, NodesOfLattice
        <5>2. QED
          BY <1>2, <5>1
      <4>2. {{<<l>> \o h : h \in w[l]} : l \in Left(Start(r))}
              = {{<<l>> \o h : h \in v[l]} : l \in Left(Start(r))}
        BY <4>1
      <4>3. QED
        BY <4>2
    <3>3. QED
      BY <3>1, <3>2
  <2>. HIDE DEF At
  <2>2. QED
    BY <2>1
<1>3. 0 \in M
  <2>. DEFINE w == F(<<>>)
  <2>1. \A r \in 1 .. Eos : Start(r) <= 0 => w[r] = F(w)[r]
    <3>1. SUFFICES ASSUME NEW r \in 1 .. Eos, Start(r) <= 0 PROVE w[r] = F(w)[r]
      OBVIOUS
    <3>2. \A l \in 1 .. Eos : ~(Start(l) < Start(r))
      BY <1>1, <3>1
    <3>. HIDE DEF F, w
    <3>3. F(<<>>)[r] = F(w)[r]
      BY <1>2, <3>2
    <3>4. QED
      BY <3>3 DEF w
  <2>. HIDE DEF F, w
  <2>2. QED
    BY <2>1
<1>4. ASSUME NEW m \in Nat, m \in M
      PROVE  m + 1 \in M
  <2>. HIDE DEF F
  <2>1. PICK w : Good(w, m)
    BY <1>4
  <2>2. ASSUME NEW r \in 1 .. Eos, Start(r) <= m + 1
        PROVE  F(w)[r] = F(F(w))[r]
    <3>1. \A l \in 1 .. Eos : Start(l) < Start(r) => w[l] = F(w)[l]
      <4>1. \A l \in 1 .. Eos : Start(l) < Start(r) => Start(l) <= m
        BY <1>1, <2>2
      <4>2. QED
        BY <2>1, <4>1
    <3>2. PICK v : v = F(w)
      OBVIOUS
    <3>3. F(w)[r] = F(v)[r]
      BY <1>2, <3>1, <3>2
    <3>4. QED
      BY <3>2, <3>3
  <2>3. Good(F(w), m + 1)
    BY <2>2
  <2>. HIDE DEF Good
  <2>4. QED
    BY <2>3
<1>5. \E w : w = F(w)
  <2>1. lat.n \in M
    <3>. HIDE DEF M
    <3>1. QED
      BY <1>1, <1>3, <1>4, SetInduction
  <2>. HIDE DEF F
  <2>2. PICK w : Good(w, lat.n)
    BY <2>1
  <2>3. \A r \in 1 .. Eos : w[r] = F(w)[r]
    BY <1>1, <2>2
  <2>4. PICK v : v = F(w)
    OBVIOUS
  <2>5. \A r \in 1 .. Eos : v[r] = F(v)[r]
    <3>1. TAKE r \in 1 .. Eos
    <3>2. F(w)[r] = F(v)[r]
      BY <1>2, <2>3, <2>4
    <3>3. QED
      BY <2>4, <3>2
  <2>6. v = F(v)
    <3>1. v = [r \in 1 .. Eos |-> v[r]]
      BY <2>4 DEF F
    <3>2. F(v) = [r \in 1 .. Eos |-> F(v)[r]]
      BY DEF F
    <3>3. QED
      BY <2>5, <3>1, <3>2
  <2>7. QED
    BY <2>6
<1>6. Histories = F(Histories)
  <2>1. Histories = CHOOSE w : w = F(w)
    BY DEF Histories
  <2>. HIDE DEF F
  <2>2. QED
    BY <1>5, <2>1
<1>7. QED
  <2>. HIDE DEF At
  <2>1. \A r \in 1 .. Eos : Histories[r] = At(Histories, r)
    BY <1>6
  <2>2. QED
    BY <2>1 DEF At

\* Histories depend on the lattice only.
LEMMA HistoriesStay ==
  ASSUME lat' = lat
  PROVE  Histories' = Histories
<1>1. Eos' = Eos /\ (\A r : Start(r)' = Start(r)) /\ (\A b : Left(b)' = Left(b))
  BY LatticeStays
<1>. DEFINE F(w) == [r \in 1 .. Eos |->
                       IF Start(r) = 0 THEN {<<>>}
                       ELSE UNION {{<<l>> \o h : h \in w[l]} : l \in Left(Start(r))}]
<1>2. Histories = CHOOSE w : w = F(w)
  BY DEF Histories
<1>3. Histories' = CHOOSE w : w = F(w)'
  BY DEF Histories
<1>4. \A w : F(w)' = F(w)
  <2>1. \A r : Left(Start(r))' = Left(Start(r))
    BY LatticeStays
  <2>2. QED
    BY <1>1, <2>1
<1>. HIDE DEF F
<1>5. QED
  BY <1>2, <1>3, <1>4

\* A path to a node is that of a node to its left, and the node.
LEMMA HistoriesOf ==
  ASSUME InputOK, NEW r \in 1 .. Eos
  PROVE  /\ Start(r) = 0 => Histories[r] = {<<>>}
         /\ Start(r) # 0 => \A h : h \in Histories[r] <=>
                                   \E l \in Left(Start(r)) : \E g \in Histories[l] : h = <<l>> \o g
<1>. DEFINE Longer(l) == {<<l>> \o h : h \in Histories[l]}
<1>1. Histories[r] = IF Start(r) = 0 THEN {<<>>} ELSE UNION {Longer(l) : l \in Left(Start(r))}
  BY HistoriesUnroll
<1>2. ASSUME NEW h, NEW l
      PROVE  h \in Longer(l) <=> \E g \in Histories[l] : h = <<l>> \o g
  OBVIOUS
<1>. HIDE DEF Longer
<1>3. ASSUME Start(r) # 0
      PROVE  \A h : h \in Histories[r] <=> \E l \in Left(Start(r)) : h \in Longer(l)
  BY <1>1, <1>3
<1>4. QED
  BY <1>1, <1>2, <1>3, Zenon

\* The paths to a node: there are none of one word more than those to the nodes
\* before it, and all have scores.
LEMMA PathsOfLattice ==
  ASSUME InputOK
  PROVE  \A r \in 1 .. Eos :
           \A h \in Histories[r] : /\ h \in Seq(Nat)
                                   /\ h = <<>> <=> Start(r) = 0
                                   /\ Before(h) \in Left(Start(r))
                                   /\ PathScore(h, r) \in Int /\ ExtraSum(h, r) \in Int
<1>. DEFINE Fine(r, h) == /\ h \in Seq(Nat)
                          /\ h = <<>> <=> Start(r) = 0
                          /\ Before(h) \in Left(Start(r))
                          /\ PathScore(h, r) \in Int /\ ExtraSum(h, r) \in Int
            S == {r \in 1 .. Eos : \A h \in Histories[r] : Fine(r, h)}
<1>1. ASSUME NEW r \in 1 .. Eos,
             \A l \in 1 .. Eos : Start(l) < Start(r) => l \in S
      PROVE  r \in S
  <2>1. Start(r) \in 0 .. lat.n /\ r \in Nat /\ Bos = 0 /\ Left(0) = {Bos}
    BY NodesOfLattice
  <2>2. CASE Start(r) = 0
    <3>1. Histories[r] = {<<>>}
      BY <2>2, HistoriesOf
    <3>2. Before(<<>>) = Bos /\ Bos \in Left(Start(r)) /\ <<>> \in Seq(Nat)
      BY <2>1, <2>2 DEF Before
    <3>3. TrigramScore(<<-1, Bos, r>>) \in Int /\ lat.extra[<<-1, Bos, r>>] \in Int
      BY <3>2, TrigramsHaveScores
    <3>4. PathScore(<<>>, r) \in Int /\ ExtraSum(<<>>, r) \in Int
      BY <2>1, <3>3, ScoreOfFirstNode
    <3>5. Fine(r, <<>>)
      BY <2>2, <3>2, <3>4
    <3>. HIDE DEF Fine
    <3>6. QED
      BY <3>1, <3>5
  <2>3. CASE Start(r) # 0
    <3>1. SUFFICES ASSUME NEW h \in Histories[r] PROVE Fine(r, h)
      OBVIOUS
    <3>2. PICK l \in Left(Start(r)) : \E g \in Histories[l] : h = <<l>> \o g
      BY <2>3, HistoriesOf
    <3>3. PICK g \in Histories[l] : h = <<l>> \o g
      BY <3>2
    <3>4. l \in 1 .. Eos /\ Start(l) < Start(r) /\ l # Bos /\ l \in Nat
      BY <2>1, <2>3, NodesOfLattice
    <3>5. Fine(l, g)
      BY <1>1, <3>4
    <3>6. h \in Seq(Nat) /\ h # <<>> /\ h[1] = l
      BY <3>3, <3>4, <3>5
    <3>7. TrigramScore(<<Before(g), l, r>>) \in Int /\ lat.extra[<<Before(g), l, r>>] \in Int
      BY <3>4, <3>5, TrigramsHaveScores
    <3>8. /\ PathScore(<<l>> \o g, r) = PathScore(g, l) + TrigramScore(<<Before(g), l, r>>)
          /\ ExtraSum(<<l>> \o g, r) = ExtraSum(g, l) + lat.extra[<<Before(g), l, r>>]
      BY <2>1, <3>4, <3>5, ScoreOfLongerPath
    <3>9. PathScore(h, r) \in Int /\ ExtraSum(h, r) \in Int
      BY <3>3, <3>5, <3>7, <3>8
    <3>10. QED
      BY <2>3, <3>6, <3>9 DEF Before
  <2>4. QED
    BY <2>2, <2>3
<1>. HIDE DEF S
<1>2. S = 1 .. Eos
  <2>1. S \in SUBSET (1 .. Eos)
    BY DEF S
  <2>2. QED
    BY <1>1, <2>1, NodeInduction
<1>3. QED
  BY <1>2 DEF S

\* The path that an element of the beam of a node stands for
WayOf(el) == IF el.left = Bos THEN <<>> ELSE <<el.left>> \o Trace(el.left, el.beam)

\* Its score without its last trigram
ScoreBefore(el) == IF el.left = Bos THEN 0 ELSE PathScore(Trace(el.left, el.beam), el.left)
ExtraBefore(el) == IF el.left = Bos THEN 0 ELSE ExtraSum(Trace(el.left, el.beam), el.left)

\* What Trace yields of an element is the path the element stands for.
LEMMA TraceOfElement ==
  ASSUME InputOK, TypesOK, BeamsOK
  PROVE  \A r \in 1 .. Eos : \A k \in DOMAIN beams[r] :
           Trace(r, k) = WayOf(beams[r][k]) /\ Points(beams[r][k], Start(r))
<1>1. \A r \in 1 .. Eos : \A k \in DOMAIN beams[r] : Points(beams[r][k], Start(r))
  <2>1. TAKE r \in 1 .. Eos
  <2>2. r \in NodeIds /\ r # Bos
    BY NodesOfLattice
  <2>3. QED
    BY <2>2, BeamFacts
<1>2. SUFFICES ASSUME NEW r \in 1 .. Eos, NEW k \in DOMAIN beams[r]
               PROVE  Trace(r, k) = WayOf(beams[r][k])
  BY <1>1
<1>3. Trace(r, k) = IF Start(r) = 0 THEN <<>>
                    ELSE <<beams[r][k].left>> \o Trace(beams[r][k].left, beams[r][k].beam)
  BY <1>1, TracesUnroll
<1>4. beams[r][k].left \in Left(Start(r)) /\ Start(r) \in 0 .. lat.n
  BY <1>1, NodesOfLattice DEF Points
<1>5. Start(r) = 0 <=> beams[r][k].left = Bos
  BY <1>4, NodesOfLattice
<1>6. QED
  BY <1>3, <1>5 DEF WayOf

\* What points to the left of a node stands for a path to the node, and its last
\* trigram is that of the path: with the node two places back on this path.
LEMMA WaysArePaths ==
  ASSUME InputOK, TypesOK, BeamsOK
  PROVE  \A r \in 1 .. Eos : \A el : Points(el, Start(r)) =>
           /\ WayOf(el) \in Histories[r]
           /\ PathScore(WayOf(el), r) = ScoreBefore(el) + FeatureScore(el, r)
           /\ ExtraSum(WayOf(el), r) = ExtraBefore(el) + lat.extra[<<T2(el), el.left, r>>]
           /\ ScoreBefore(el) \in Int /\ ExtraBefore(el) \in Int
<1>. DEFINE Fine(r, el) ==
              /\ WayOf(el) \in Histories[r]
              /\ PathScore(WayOf(el), r) = ScoreBefore(el) + FeatureScore(el, r)
              /\ ExtraSum(WayOf(el), r) = ExtraBefore(el) + lat.extra[<<T2(el), el.left, r>>]
              /\ ScoreBefore(el) \in Int /\ ExtraBefore(el) \in Int
            S == {r \in 1 .. Eos : \A el : Points(el, Start(r)) => Fine(r, el)}
<1>1. ASSUME NEW r \in 1 .. Eos,
             \A l \in 1 .. Eos : Start(l) < Start(r) => l \in S
      PROVE  r \in S
  <2>. SUFFICES ASSUME NEW el, Points(el, Start(r)) PROVE Fine(r, el)
    OBVIOUS
  <2>1. Start(r) \in 0 .. lat.n /\ r \in Nat /\ Bos = 0 /\ Left(0) = {Bos} /\ lat.n \in Nat
    BY NodesOfLattice
  <2>2. PICK l, k : l = el.left /\ k = el.beam
    OBVIOUS
  <2>3. l \in Left(Start(r)) /\ k \in DOMAIN beams[l]
    BY <2>2 DEF Points
  <2>4. CASE Start(r) = 0
    <3>1. Histories[r] = {<<>>} /\ l = Bos /\ el.left = Bos
      BY <2>1, <2>2, <2>3, <2>4, HistoriesOf
    <3>2. T2(el) = -1
      <4>1. beams[Bos] = <<BosElement>>
        BY DEF TypesOK
      <4>2. k = 1 /\ beams[Bos][k] = BosElement
        BY <2>3, <3>1, <4>1
      <4>3. QED
        BY <2>2, <3>1, <4>2 DEF T2, BosElement, Element
    <3>3. WayOf(el) = <<>> /\ ScoreBefore(el) = 0 /\ ExtraBefore(el) = 0
      BY <3>1 DEF WayOf, ScoreBefore, ExtraBefore
    <3>4. FeatureScore(el, r) = TrigramScore(<<-1, Bos, r>>)
      BY <3>1, <3>2 DEF FeatureScore
    <3>5. /\ PathScore(<<>>, r) = 0 + TrigramScore(<<-1, Bos, r>>)
          /\ ExtraSum(<<>>, r) = 0 + lat.extra[<<-1, Bos, r>>]
      BY <2>1, ScoreOfFirstNode
    <3>6. QED
      BY <3>1, <3>2, <3>3, <3>4, <3>5
  <2>5. CASE Start(r) # 0
    <3>1. l \in 1 .. Eos /\ Start(l) < Start(r) /\ l # Bos /\ l \in Nat
      BY <2>1, <2>3, <2>5, NodesOfLattice
    <3>2. PICK h : h = Trace(l, k)
      OBVIOUS
    <3>3. h = WayOf(beams[l][k]) /\ Points(beams[l][k], Start(l))
      BY <2>3, <3>1, <3>2, TraceOfElement
    <3>4. h \in Histories[l]
      BY <1>1, <3>1, <3>3
    <3>5. h \in Seq(Nat) /\ PathScore(h, l) \in Int /\ ExtraSum(h, l) \in Int
          /\ (h = <<>> <=> Start(l) = 0)
      BY <3>1, <3>4, PathsOfLattice
    <3>6. Before(h) = beams[l][k].left
      <4>1. CASE beams[l][k].left = Bos
        BY <3>3, <4>1 DEF WayOf, Before
      <4>2. CASE beams[l][k].left # Bos
        <5>1. PICK x, g : x = beams[l][k].left /\ g = Trace(x, beams[l][k].beam)
          OBVIOUS
        <5>2. h = <<x>> \o g
          BY <3>3, <4>2, <5>1 DEF WayOf
        <5>3. x \in Left(Start(l)) /\ Start(l) \in 0 .. lat.n /\ Start(l) # 0
              /\ beams[l][k].beam \in DOMAIN beams[x]
          BY <3>1, <3>3, <4>2, <5>1, NodesOfLattice DEF Points
        <5>4. x \in 1 .. Eos /\ Start(x) < Start(l)
          BY <5>3, NodesOfLattice
        <5>5. Start(x) \in 0 .. lat.n /\ Start(l) \in 0 .. lat.n
          BY <5>4, <5>3, NodesOfLattice
        <5>6. Start(x) < Start(r)
          BY <2>1, <3>1, <5>4, <5>5
        <5>7. g = WayOf(beams[x][beams[l][k].beam]) /\ Points(beams[x][beams[l][k].beam], Start(x))
          BY <5>1, <5>3, <5>4, TraceOfElement
        <5>8. g \in Histories[x]
          BY <1>1, <5>4, <5>6, <5>7
        <5>9. g \in Seq(Nat)
          BY <5>4, <5>8, PathsOfLattice
        <5>10. h # <<>> /\ h[1] = x
          BY <5>2, <5>9
        <5>11. QED
          BY <5>1, <5>10 DEF Before
      <4>3. QED
        BY <4>1, <4>2
    <3>7. WayOf(el) = <<l>> \o h /\ ScoreBefore(el) = PathScore(h, l) /\ ExtraBefore(el) = ExtraSum(h, l)
      BY <2>2, <3>1, <3>2 DEF WayOf, ScoreBefore, ExtraBefore
    <3>8. WayOf(el) \in Histories[r]
      BY <2>3, <2>5, <3>4, <3>7, HistoriesOf
    <3>9. T2(el) = Before(h) /\ FeatureScore(el, r) = TrigramScore(<<Before(h), l, r>>)
      BY <2>2, <3>6 DEF T2, FeatureScore
    <3>10. /\ PathScore(<<l>> \o h, r) = PathScore(h, l) + TrigramScore(<<Before(h), l, r>>)
           /\ ExtraSum(<<l>> \o h, r) = ExtraSum(h, l) + lat.extra[<<Before(h), l, r>>]
      BY <2>1, <3>1, <3>5, ScoreOfLongerPath
    <3>11. QED
      BY <2>2, <3>5, <3>7, <3>8, <3>9, <3>10
  <2>6. QED
    BY <2>4, <2>5
<1>. HIDE DEF S
<1>2. S = 1 .. Eos
  <2>1. S \in SUBSET (1 .. Eos)
    BY DEF S
  <2>2. QED
    BY <1>1, <2>1, NodeInduction
<1>3. QED
  BY <1>2 DEF S

\* Elements of a beam that point at different places stand for different paths.
LEMMA WaysDiffer ==
  ASSUME InputOK, TypesOK, BeamsOK
  PROVE  /\ \A r \in 1 .. Eos : \A x, y : Points(x, Start(r)) /\ Points(y, Start(r)) /\ WayOf(x) = WayOf(y)
                                            => SamePlace(x, y)
         /\ \A r \in 1 .. Eos : \A j, k \in DOMAIN beams[r] : Trace(r, j) = Trace(r, k) => j = k
<1>. DEFINE S == {r \in 1 .. Eos : \A x, y : Points(x, Start(r)) /\ Points(y, Start(r)) /\ WayOf(x) = WayOf(y)
                                            => SamePlace(x, y)}
<1>1. ASSUME NEW r \in 1 .. Eos, r \in S
      PROVE  \A j, k \in DOMAIN beams[r] : Trace(r, j) = Trace(r, k) => j = k
  <2>1. SUFFICES ASSUME NEW j \in DOMAIN beams[r], NEW k \in DOMAIN beams[r], Trace(r, j) = Trace(r, k)
                 PROVE  j = k
    OBVIOUS
  <2>2. SamePlace(beams[r][j], beams[r][k])
    BY <1>1, <2>1, TraceOfElement
  <2>3. r \in Processed
    <3>1. r \in NodeIds /\ r # Bos
      BY NodesOfLattice
    <3>2. QED
      BY <3>1, BeamFacts
  <2>4. QED
    BY <2>2, <2>3 DEF BeamsOK, MadeOf
<1>2. ASSUME NEW r \in 1 .. Eos,
             \A l \in 1 .. Eos : Start(l) < Start(r) => l \in S
      PROVE  r \in S
  <2>1. SUFFICES ASSUME NEW x, NEW y, Points(x, Start(r)), Points(y, Start(r)), WayOf(x) = WayOf(y)
                 PROVE  SamePlace(x, y)
    OBVIOUS
  <2>2. /\ x.left \in Left(Start(r)) /\ x.beam \in DOMAIN beams[x.left]
        /\ y.left \in Left(Start(r)) /\ y.beam \in DOMAIN beams[y.left]
        /\ Start(r) \in 0 .. lat.n /\ Left(0) = {Bos}
    BY <2>1, NodesOfLattice DEF Points
  <2>3. CASE Start(r) = 0
    <3>1. x.left = Bos /\ y.left = Bos
      BY <2>2, <2>3
    <3>2. DOMAIN beams[Bos] = {1}
      BY DEF TypesOK
    <3>3. x.beam \in DOMAIN beams[Bos] /\ y.beam \in DOMAIN beams[Bos]
      BY <2>2, <3>1
    <3>4. QED
      BY <3>1, <3>2, <3>3 DEF SamePlace
  <2>4. CASE Start(r) # 0
    <3>1. \A l \in Left(Start(r)) : l \in 1 .. Eos /\ Start(l) < Start(r) /\ l # Bos
      BY <2>2, <2>4, NodesOfLattice
    <3>2. \A l \in Left(Start(r)) : \A k \in DOMAIN beams[l] : Trace(l, k) \in Seq(Nat)
      <4>1. ASSUME NEW l \in Left(Start(r)), NEW k \in DOMAIN beams[l]
            PROVE  Trace(l, k) \in Histories[l]
        BY <3>1, TraceOfElement, WaysArePaths
      <4>2. QED
        BY <3>1, <4>1, PathsOfLattice
    <3>3. PICK g, h : g = Trace(x.left, x.beam) /\ h = Trace(y.left, y.beam)
      OBVIOUS
    <3>4. g \in Seq(Nat) /\ h \in Seq(Nat)
      BY <2>2, <3>2, <3>3
    <3>5. <<x.left>> \o g = <<y.left>> \o h
      BY <2>1, <2>2, <3>1, <3>3 DEF WayOf
    <3>6. x.left \in Nat /\ y.left \in Nat
      BY <2>2, NodesOfLattice
    <3>7. x.left = y.left /\ g = h
      <4>1. PICK a, b : a = x.left /\ b = y.left
        OBVIOUS
      <4>2. PICK s, t : s = <<a>> \o g /\ t = <<b>> \o h
        OBVIOUS
      <4>3. s[1] = a /\ Len(s) = Len(g) + 1 /\ \A i \in 1 .. Len(g) : s[i + 1] = g[i]
        BY <3>4, <3>6, <4>1, <4>2
      <4>4. t[1] = b /\ Len(t) = Len(h) + 1 /\ \A i \in 1 .. Len(h) : t[i + 1] = h[i]
        BY <3>4, <3>6, <4>1, <4>2
      <4>5. s = t
        BY <3>5, <4>1, <4>2
      <4>6. a = b /\ Len(g) = Len(h) /\ \A i \in 1 .. Len(g) : g[i] = h[i]
        BY <3>4, <4>3, <4>4, <4>5
      <4>7. QED
        BY <3>4, <4>1, <4>6, SeqEqual
    <3>8. x.beam = y.beam
      BY <1>1, <1>2, <2>2, <3>1, <3>3, <3>7
    <3>9. QED
      BY <3>7, <3>8 DEF SamePlace
  <2>5. QED
    BY <2>3, <2>4
<1>. HIDE DEF S
<1>3. S = 1 .. Eos
  <2>1. S \in SUBSET (1 .. Eos)
    BY DEF S
  <2>2. QED
    BY <1>2, <2>1, NodeInduction
<1>4. QED
  BY <1>1, <1>3 DEF S

\* Beams and global beams keep to their sizes, and the pointer of every element
\* leads to an element that is there: ConnectionPtr::previous never dangles.
THEOREM TypesAlways == Spec => []TypeOK
<1>1. ASSUME IInv
      PROVE  TypeOK
  <2>1. InputOK /\ PhaseOK /\ TypesOK /\ BeamsOK /\ GlobalOK
    BY <1>1 DEF IInv
  <2>2. ASSUME NEW r \in NodeIds \ {Bos}, NEW k \in DOMAIN beams[r]
        PROVE  /\ k <= cfg.beam
               /\ beams[r][k].left \in Left(Start(r))
               /\ beams[r][k].beam \in DOMAIN beams[beams[r][k].left]
               /\ beams[r][k].total \in Int
    <3>1. /\ Len(beams[r]) \in Nat /\ Len(beams[r]) <= cfg.beam /\ k \in 1 .. Len(beams[r])
          /\ beams[r][k].total \in Int /\ Points(beams[r][k], Start(r))
      BY <2>1, BeamFacts
    <3>2. k <= cfg.beam
      BY <2>1, <3>1 DEF InputOK
    <3>3. QED
      BY <3>1, <3>2 DEF Points
  <2>3. QED
    BY <2>1, <2>2 DEF TypeOK, PhaseOK, GlobalOK
<1>2. QED
  BY <1>1, IInvAlways, PTL

-------------------------------------------------------------------------------

\* Some path of the lattice leads to its end: the last boundary to which some
\* path leads, out of those that Covered speaks of, is the end.
LEMMA EndIsReached ==
  ASSUME InputOK
  PROVE  Histories[Eos] # {}
<1>1. /\ lat.n \in Nat \ {0} /\ Eos \in Nat \ {0} /\ Start(Eos) = lat.n /\ Eos \in 1 .. Eos
      /\ DOMAIN lat.nodes = 1 .. Eos - 1
  <2>1. lat.nodes \in Seq([start : 0 .. lat.n, end : 0 .. lat.n, data : Seq(Nat)])
    BY DEF InputOK
  <2>2. Len(lat.nodes) \in Nat /\ DOMAIN lat.nodes = 1 .. Len(lat.nodes)
    BY <2>1
  <2>3. QED
    BY <2>2, NodesOfLattice DEF Eos
<1>2. PICK cuts \in SUBSET (0 .. lat.n) :
        /\ {0, lat.n} \subseteq cuts
        /\ \A c \in cuts \ {lat.n} :
             \E r \in DOMAIN lat.nodes : lat.nodes[r].start = c /\ lat.nodes[r].end \in cuts
  BY DEF InputOK, Covered
<1>. DEFINE T == {c \in cuts : \A r \in 1 .. Eos : Start(r) = c => Histories[r] # {}}
<1>3. T \in SUBSET Nat /\ \A c \in T : c <= lat.n
  <2>1. \A c \in cuts : c \in 0 .. lat.n
    BY <1>2
  <2>2. \A c \in cuts : c \in Nat /\ c <= lat.n
    BY <1>1, <2>1
  <2>3. T \subseteq cuts
    OBVIOUS
  <2>. HIDE DEF T
  <2>4. QED
    BY <2>2, <2>3
<1>4. 0 \in T
  <2>1. \A r \in 1 .. Eos : Start(r) = 0 => Histories[r] # {}
    BY HistoriesOf
  <2>2. QED
    BY <1>2, <2>1
<1>5. PICK c \in T : \A d \in T : d <= c
  <2>1. T # {} /\ lat.n \in Nat
    BY <1>1, <1>4
  <2>. HIDE DEF T
  <2>2. QED
    BY <1>3, <2>1, GreatestElement
<1>6. c = lat.n
  <2>1. SUFFICES ASSUME c # lat.n PROVE FALSE
    OBVIOUS
  <2>2. PICK l \in DOMAIN lat.nodes : lat.nodes[l].start = c /\ lat.nodes[l].end \in cuts
    BY <1>2, <1>5, <2>1
  <2>3. PICK e : e = lat.nodes[l].end
    OBVIOUS
  <2>4. l \in 1 .. Eos /\ Start(l) = c /\ e \in cuts /\ e \in 0 .. lat.n /\ c < e /\ c \in 0 .. lat.n
    <3>1. lat.nodes[l].start < lat.nodes[l].end
      BY <2>2 DEF InputOK
    <3>2. l \in 1 .. Eos /\ l # Eos
      BY <1>1, <2>2
    <3>3. QED
      BY <1>2, <2>2, <2>3, <3>1, <3>2 DEF Start
  <2>5. PICK h : h \in Histories[l]
    BY <1>5, <2>4
  <2>6. l \in Left(e)
    BY <1>1, <2>2, <2>3, <2>4 DEF Left
  <2>7. ASSUME NEW r \in 1 .. Eos, Start(r) = e
        PROVE  Histories[r] # {}
    <3>1. Start(r) # 0 /\ l \in Left(Start(r))
      BY <2>4, <2>6, <2>7
    <3>2. <<l>> \o h \in Histories[r]
      BY <2>5, <3>1, HistoriesOf
    <3>3. QED
      BY <3>2
  <2>8. e \in T
    BY <2>4, <2>7
  <2>9. QED
    BY <1>5, <2>4, <2>8
<1>7. QED
  BY <1>1, <1>5, <1>6

\* Where some path leads there is an element, and only there.
LEMMA NodesWithPaths ==
  ASSUME IInv
  PROVE  NoNodeLost
<1>1. InputOK /\ PhaseOK /\ TypesOK /\ BeamsOK
  BY DEF IInv
<1>2. \A r \in 1 .. Eos : Start(r) \in 0 .. lat.n
  BY <1>1, NodesOfLattice
<1>3. bnd \in Int /\ lat.n \in Nat
  BY <1>1, NodesOfLattice DEF PhaseOK
<1>. DEFINE S == {r \in 1 .. Eos : r \in Processed => (beams[r] # <<>> <=> Histories[r] # {})}
<1>4. ASSUME NEW r \in 1 .. Eos,
             \A l \in 1 .. Eos : Start(l) < Start(r) => l \in S
      PROVE  r \in S
  <2>1. SUFFICES ASSUME r \in Processed PROVE beams[r] # <<>> <=> Histories[r] # {}
    OBVIOUS
  <2>2. beams[r] # <<>> <=> \E l \in Left(Start(r)) : beams[l] # <<>>
    BY <1>1, <2>1 DEF BeamsOK, MadeOf
  <2>3. CASE Start(r) = 0
    <3>1. Left(Start(r)) = {Bos} /\ Histories[r] = {<<>>}
      BY <1>1, <2>3, NodesOfLattice, HistoriesOf
    <3>2. beams[Bos] # <<>>
      BY <1>1 DEF TypesOK
    <3>3. QED
      BY <2>2, <3>1, <3>2
  <2>4. CASE Start(r) # 0
    <3>1. ASSUME NEW l \in Left(Start(r))
          PROVE  beams[l] # <<>> <=> Histories[l] # {}
      <4>1. l \in 1 .. Eos /\ Start(l) < Start(r)
        BY <1>1, <1>2, <2>4, NodesOfLattice
      <4>2. Start(r) < bnd => Start(l) < bnd
        BY <1>2, <1>3, <4>1
      <4>3. l \in Processed
        BY <2>1, <4>1, <4>2 DEF Processed
      <4>4. QED
        BY <1>4, <4>1, <4>3
    <3>2. Histories[r] # {} <=> \E l \in Left(Start(r)) : Histories[l] # {}
      <4>1. \A h : h \in Histories[r] <=>
              \E l \in Left(Start(r)) : \E g \in Histories[l] : h = <<l>> \o g
        BY <1>1, <2>4, HistoriesOf
      <4>2. QED
        BY <4>1
    <3>3. QED
      BY <2>2, <3>1, <3>2
  <2>5. QED
    BY <2>3, <2>4
<1>. HIDE DEF S
<1>5. S = 1 .. Eos
  <2>1. S \in SUBSET (1 .. Eos)
    BY DEF S
  <2>2. QED
    BY <1>1, <1>4, <2>1, NodeInduction
<1>6. \A r \in Processed : r \in 1 .. Eos
  BY DEF Processed
<1>7. QED
  BY <1>5, <1>6 DEF S, NoNodeLost

\* Whatever the widths of the global beam, the right check and the right beam, a
\* node to which a path leads has an element in its beam, and EOS always has one.
THEOREM NoNodeIsLost == Spec => []NoNodeLost
<1>1. IInv => NoNodeLost
  BY NodesWithPaths
<1>2. QED
  BY <1>1, IInvAlways, PTL

-------------------------------------------------------------------------------

\* While totals are those of the features, each is the score of its path.
LEMMA TotalsOfPaths ==
  ASSUME InputOK, PhaseOK, TypesOK, BeamsOK, Pure
  PROVE  \A r \in Processed : \A k \in DOMAIN beams[r] : beams[r][k].total = PathScore(Trace(r, k), r)
<1>1. \A r \in 1 .. Eos : Start(r) \in 0 .. lat.n
  BY NodesOfLattice
<1>2. bnd \in Int /\ lat.n \in Nat
  BY NodesOfLattice DEF PhaseOK
<1>. DEFINE S == {r \in 1 .. Eos : r \in Processed =>
                    \A k \in DOMAIN beams[r] : beams[r][k].total = PathScore(Trace(r, k), r)}
<1>3. ASSUME NEW r \in 1 .. Eos,
             \A l \in 1 .. Eos : Start(l) < Start(r) => l \in S
      PROVE  r \in S
  <2>1. SUFFICES ASSUME r \in Processed, NEW k \in DOMAIN beams[r]
                 PROVE  beams[r][k].total = PathScore(Trace(r, k), r)
    OBVIOUS
  <2>2. PICK el : el = beams[r][k]
    OBVIOUS
  <2>3. Trace(r, k) = WayOf(el) /\ Points(el, Start(r))
    BY <2>1, <2>2, TraceOfElement
  <2>4. el.total = beams[el.left][el.beam].total + FeatureScore(el, r)
    BY <2>1, <2>2 DEF BeamsOK, ScoredOf
  <2>5. PathScore(WayOf(el), r) = ScoreBefore(el) + FeatureScore(el, r)
    BY <2>3, WaysArePaths
  <2>6. el.left \in Left(Start(r)) /\ el.beam \in DOMAIN beams[el.left]
    BY <2>3 DEF Points
  <2>7. ScoreBefore(el) = beams[el.left][el.beam].total
    <3>1. CASE el.left = Bos
      <4>1. beams[Bos] = <<BosElement>>
        BY DEF TypesOK
      <4>2. beams[el.left][el.beam] = BosElement
        BY <2>6, <3>1, <4>1
      <4>3. QED
        BY <3>1, <4>2 DEF ScoreBefore, BosElement, Element
    <3>2. CASE el.left # Bos
      <4>1. el.left \in 1 .. Eos /\ Start(el.left) < Start(r) /\ Start(el.left) \in 0 .. lat.n
        BY <1>1, <2>6, <3>2, NodesOfLattice
      <4>2. Start(r) < bnd => Start(el.left) < bnd
        BY <1>1, <1>2, <4>1
      <4>3. el.left \in Processed
        BY <2>1, <4>1, <4>2 DEF Processed
      <4>4. QED
        BY <1>3, <2>6, <3>2, <4>1, <4>3 DEF ScoreBefore
    <3>3. QED
      BY <3>1, <3>2
  <2>8. QED
    BY <2>2, <2>3, <2>4, <2>5, <2>7
<1>. HIDE DEF S
<1>4. S = 1 .. Eos
  <2>1. S \in SUBSET (1 .. Eos)
    BY DEF S
  <2>2. QED
    BY <1>3, <2>1, NodeInduction
<1>5. \A r \in Processed : r \in 1 .. Eos
  BY DEF Processed
<1>6. QED
  BY <1>4, <1>5 DEF S

\* Until the additional scorers come in, beams are sorted and hold different
\* paths of the lattice, each with the sum of the scores along the whole path.
THEOREM BeamsHoldPaths == Spec => []BeamsHoldScoredPaths
<1>1. ASSUME IInv
      PROVE  BeamsHoldScoredPaths
  <2>1. InputOK /\ PhaseOK /\ TypesOK /\ BeamsOK
    BY <1>1 DEF IInv
  <2>2. SUFFICES ASSUME pc \in {"score", "adjust"} /\ ~(pc = "adjust" /\ bnd > 1),
                        NEW r \in Processed, NEW i \in DOMAIN beams[r]
                 PROVE  /\ Trace(r, i) \in Histories[r]
                        /\ beams[r][i].total = PathScore(Trace(r, i), r)
                        /\ \A j \in 1 .. i - 1 : /\ beams[r][j].total >= beams[r][i].total
                                                 /\ Trace(r, j) # Trace(r, i)
    BY DEF BeamsHoldScoredPaths
  <2>3. Pure
    <3>1. bnd \in Int /\ (pc = "adjust" => bnd >= 1)
      BY <2>1, NodesOfLattice DEF PhaseOK
    <3>2. QED
      BY <2>2, <3>1 DEF Pure
  <2>4. r \in 1 .. Eos /\ r \in NodeIds
    BY <2>1, NodesOfLattice DEF Processed
  <2>5. Trace(r, i) \in Histories[r]
    BY <2>1, <2>4, TraceOfElement, WaysArePaths
  <2>6. beams[r][i].total = PathScore(Trace(r, i), r)
    BY <2>1, <2>3, TotalsOfPaths
  <2>7. ASSUME NEW j \in 1 .. i - 1
        PROVE  beams[r][j].total >= beams[r][i].total /\ Trace(r, j) # Trace(r, i)
    <3>1. DOMAIN beams[r] = 1 .. Len(beams[r]) /\ Len(beams[r]) \in Nat
      BY <2>1, <2>4, BeamFacts
    <3>2. j \in DOMAIN beams[r] /\ j < i /\ j # i
      BY <3>1
    <3>3. beams[r][j].total >= beams[r][i].total
      BY <2>1, <2>3, <3>2 DEF BeamsOK, ScoredOf
    <3>4. QED
      BY <2>1, <2>4, <3>2, <3>3, WaysDiffer
  <2>8. QED
    BY <2>5, <2>6, <2>7
<1>2. QED
  BY <1>1, IInvAlways, PTL

\* The weighted sum of two pairs of scores, one after the other
LEMMA Weighing ==
  ASSUME NEW a \in Int, NEW b \in Int, NEW p \in Int, NEW q \in Int, NEW e \in Int, NEW f \in Int
  PROVE  a * (p + q) + b * (e + f) = (a * p + b * e) + (a * q + b * f)
<1>1. a * (p + q) = a * p + a * q /\ b * (e + f) = b * e + b * f
  OBVIOUS
<1>2. a * p \in Int /\ a * q \in Int /\ b * e \in Int /\ b * f \in Int
  OBVIOUS
<1>3. QED
  BY <1>1, <1>2

\* The score by all scorers of the path of an element, from that of the path of
\* the one it points at
LEMMA AllScoresOfElement ==
  ASSUME InputOK, TypesOK, BeamsOK, NEW r \in 1 .. Eos, NEW el, Points(el, Start(r))
  PROVE  /\ WayOf(el) \in Histories[r]
         /\ AllScores(WayOf(el), r)
              = (IF el.left = Bos THEN 0 ELSE AllScores(Trace(el.left, el.beam), el.left))
                  + WeightedScore(el, r)
<1>1. FeatureWeight \in Int /\ ExtraWeight \in Int
  BY BeamConstants
<1>2. /\ WayOf(el) \in Histories[r]
      /\ PathScore(WayOf(el), r) = ScoreBefore(el) + FeatureScore(el, r)
      /\ ExtraSum(WayOf(el), r) = ExtraBefore(el) + lat.extra[<<T2(el), el.left, r>>]
      /\ ScoreBefore(el) \in Int /\ ExtraBefore(el) \in Int
  BY WaysArePaths
<1>3. FeatureScore(el, r) \in Int /\ lat.extra[<<T2(el), el.left, r>>] \in Int
  BY PointersHaveScores
<1>4. PICK p, q, e, f : /\ p = ScoreBefore(el) /\ q = FeatureScore(el, r)
                        /\ e = ExtraBefore(el) /\ f = lat.extra[<<T2(el), el.left, r>>]
  OBVIOUS
<1>5. AllScores(WayOf(el), r) = FeatureWeight * (p + q) + ExtraWeight * (e + f)
  <2>1. AllScores(WayOf(el), r)
          = FeatureWeight * PathScore(WayOf(el), r) + ExtraWeight * ExtraSum(WayOf(el), r)
    BY DEF AllScores, ExtraSum
  <2>2. QED
    BY <1>2, <1>4, <2>1
<1>6. AllScores(WayOf(el), r)
        = (FeatureWeight * p + ExtraWeight * e) + (FeatureWeight * q + ExtraWeight * f)
  BY <1>1, <1>2, <1>3, <1>4, <1>5, Weighing
<1>7. WeightedScore(el, r) = FeatureWeight * q + ExtraWeight * f
  BY <1>4 DEF WeightedScore
<1>8. FeatureWeight * p + ExtraWeight * e
        = IF el.left = Bos THEN 0 ELSE AllScores(Trace(el.left, el.beam), el.left)
  <2>1. CASE el.left = Bos
    <3>1. p = 0 /\ e = 0
      BY <1>4, <2>1 DEF ScoreBefore, ExtraBefore
    <3>2. QED
      BY <1>1, <2>1, <3>1
  <2>2. CASE el.left # Bos
    <3>1. PICK h : h = Trace(el.left, el.beam)
      OBVIOUS
    <3>2. p = PathScore(h, el.left) /\ e = ExtraSum(h, el.left)
      BY <1>4, <2>2, <3>1 DEF ScoreBefore, ExtraBefore
    <3>3. AllScores(h, el.left) = FeatureWeight * PathScore(h, el.left) + ExtraWeight * ExtraSum(h, el.left)
      BY DEF AllScores, ExtraSum
    <3>4. QED
      BY <2>2, <3>1, <3>2, <3>3
  <2>3. QED
    BY <2>1, <2>2
<1>9. QED
  BY <1>2, <1>6, <1>7, <1>8

\* After the adjustment, the elements that the global beams point at carry the
\* scores of all scorers over their paths.
LEMMA TotalsOfScorers ==
  ASSUME IInv, cfg.extra, pc \in {"remake", "fill", "done"},
         NEW b \in 1 .. lat.n, NEW i \in DOMAIN gbeam[b]
  PROVE  LET l == gbeam[b][i].left
             k == gbeam[b][i].beam
         IN beams[l][k].total = AllScores(Trace(l, k), l)
<1>1. InputOK /\ TypesOK /\ BeamsOK /\ GlobalOK /\ AdjustedOK
      /\ AdjustedSoFar = 1 .. lat.n /\ Processed = 1 .. Eos /\ cfg.global > 0 /\ lat.n \in Nat
  BY DEF IInv, AdjustedSoFar, Processed, InputOK
<1>2. \A r \in 1 .. Eos : Start(r) \in 0 .. lat.n
  BY <1>1, NodesOfLattice
<1>. DEFINE Global(l, k) == \E c \in 1 .. lat.n : \E j \in DOMAIN gbeam[c] :
                              gbeam[c][j].left = l /\ gbeam[c][j].beam = k
            S == {l \in 1 .. Eos : \A k : Global(l, k) => beams[l][k].total = AllScores(Trace(l, k), l)}
<1>3. ASSUME NEW l, NEW k, Global(l, k)
      PROVE  /\ l \in 1 .. Eos /\ k \in DOMAIN beams[l] /\ Weighted(beams[l][k], l)
  <2>1. PICK c \in 1 .. lat.n : \E j \in DOMAIN gbeam[c] : gbeam[c][j].left = l /\ gbeam[c][j].beam = k
    BY <1>3
  <2>2. PICK j \in DOMAIN gbeam[c] : gbeam[c][j].left = l /\ gbeam[c][j].beam = k
    BY <2>1
  <2>3. c \in 0 .. lat.n /\ c # 0
    BY <1>1
  <2>4. l \in Left(c) /\ k \in DOMAIN beams[l]
    BY <1>1, <2>2, <2>3 DEF GlobalOK, Points
  <2>5. l \in 1 .. Eos
    BY <1>1, <2>3, <2>4, NodesOfLattice
  <2>6. Weighted(beams[l][k], l)
    BY <1>1, <2>2 DEF AdjustedOK
  <2>7. QED
    BY <2>4, <2>5, <2>6
<1>4. ASSUME NEW r \in 1 .. Eos,
             \A l \in 1 .. Eos : Start(l) < Start(r) => l \in S
      PROVE  r \in S
  <2>1. SUFFICES ASSUME NEW k, Global(r, k)
                 PROVE  beams[r][k].total = AllScores(Trace(r, k), r)
    OBVIOUS
  <2>2. PICK el : el = beams[r][k]
    OBVIOUS
  <2>. HIDE DEF Global
  <2>3. k \in DOMAIN beams[r] /\ el.total = beams[el.left][el.beam].total + WeightedScore(el, r)
    BY <1>3, <2>1, <2>2 DEF Weighted
  <2>4. Trace(r, k) = WayOf(el) /\ Points(el, Start(r))
    BY <1>1, <2>2, <2>3, TraceOfElement
  <2>5. AllScores(WayOf(el), r)
          = (IF el.left = Bos THEN 0 ELSE AllScores(Trace(el.left, el.beam), el.left))
              + WeightedScore(el, r)
    BY <1>1, <2>4, AllScoresOfElement
  <2>6. el.left \in Left(Start(r)) /\ el.beam \in DOMAIN beams[el.left]
    BY <2>4 DEF Points
  <2>7. beams[el.left][el.beam].total
          = IF el.left = Bos THEN 0 ELSE AllScores(Trace(el.left, el.beam), el.left)
    <3>1. CASE el.left = Bos
      <4>1. beams[Bos] = <<BosElement>>
        BY <1>1 DEF TypesOK
      <4>2. beams[el.left][el.beam] = BosElement
        BY <2>6, <3>1, <4>1
      <4>3. QED
        BY <3>1, <4>2 DEF BosElement, Element
    <3>2. CASE el.left # Bos
      <4>1. Start(r) \in 1 .. lat.n /\ el.left \in 1 .. Eos /\ Start(el.left) < Start(r)
        BY <1>1, <1>2, <2>6, <3>2, NodesOfLattice
      <4>2. FromGlobal(beams[r], gbeam[Start(r)])
        BY <1>1 DEF GlobalOK
      <4>3. PICK j \in DOMAIN gbeam[Start(r)] : SamePlace(gbeam[Start(r)][j], el)
        BY <2>2, <2>3, <4>2 DEF FromGlobal
      <4>4. Global(el.left, el.beam)
        BY <4>1, <4>3 DEF SamePlace, Global
      <4>5. QED
        BY <1>4, <3>2, <4>1, <4>4
    <3>3. QED
      BY <3>1, <3>2
  <2>8. QED
    BY <2>2, <2>3, <2>4, <2>5, <2>7
<1>. HIDE DEF S
<1>5. S = 1 .. Eos
  <2>1. S \in SUBSET (1 .. Eos)
    BY DEF S
  <2>2. QED
    BY <1>1, <1>4, <2>1, NodeInduction
<1>6. PICK l, k : l = gbeam[b][i].left /\ k = gbeam[b][i].beam
  OBVIOUS
<1>7. Global(l, k)
  BY <1>6
<1>8. l \in 1 .. Eos
  BY <1>3, <1>7
<1>. HIDE DEF Global
<1>9. beams[l][k].total = AllScores(Trace(l, k), l)
  BY <1>5, <1>7, <1>8 DEF S
<1>10. QED
  BY <1>6, <1>9

\* EOS gets the best of the elements of the last global beam, each with the
\* score of its path.
LEMMA EosOfScorers ==
  ASSUME IInv, cfg.extra, pc \in {"fill", "done"}
  PROVE  EosBeamRemade
<1>1. InputOK /\ TypesOK /\ BeamsOK /\ RemadeOK /\ cfg.beam \in Nat \ {0} /\ lat.n \in Nat \ {0}
      /\ lat.n \in 1 .. lat.n /\ Eos \in 1 .. Eos /\ Start(Eos) = lat.n /\ lat.n # 0
  BY NodesOfLattice DEF IInv, InputOK
<1>2. PICK g, s : g = ToSet(gbeam[lat.n]) /\ s = beams[Eos]
  OBVIOUS
<1>3. /\ RemadeSet \in SUBSET Elements /\ IsFiniteSet(RemadeSet)
      /\ \A c \in g : /\ Points(c, lat.n) /\ SamePlace(Remade(c), c)
                      /\ Remade(c).total = beams[c.left][c.beam].total + WeightedScore(c, Eos)
  BY <1>2, RemadeCandidates
<1>4. RemadeSet = {Remade(c) : c \in g}
  BY <1>2 DEF RemadeSet
<1>5. s \in BestBeams(RemadeSet, cfg.beam)
  BY <1>1, <1>2, <1>4 DEF RemadeOK
<1>6. /\ \A k \in DOMAIN s : s[k] \in RemadeSet
      /\ \A c \in RemadeSet : \/ \E k \in DOMAIN s : s[k] = c
                              \/ \A k \in DOMAIN s : s[k].total >= c.total
  <2>. HIDE DEF Elements
  <2>1. QED
    BY <1>1, <1>3, <1>5, BestBeamsProperties
<1>7. ASSUME NEW c \in g
      PROVE  /\ WayOf(c) = <<c.left>> \o Trace(c.left, c.beam)
             /\ WayOf(Remade(c)) = WayOf(c)
             /\ Remade(c).total = AllScores(WayOf(c), Eos)
  <2>1. c.left \in Left(lat.n) /\ c.left # Bos /\ c.left \in 1 .. Eos
    BY <1>1, <1>3, NodesOfLattice DEF Points
  <2>2. PICK i \in DOMAIN gbeam[lat.n] : gbeam[lat.n][i] = c
    BY <1>2 DEF ToSet
  <2>3. beams[c.left][c.beam].total = AllScores(Trace(c.left, c.beam), c.left)
    BY <1>1, <2>2, TotalsOfScorers
  <2>4. AllScores(WayOf(c), Eos) = AllScores(Trace(c.left, c.beam), c.left) + WeightedScore(c, Eos)
    <3>1. Points(c, Start(Eos))
      BY <1>1, <1>3
    <3>2. AllScores(WayOf(c), Eos)
            = (IF c.left = Bos THEN 0 ELSE AllScores(Trace(c.left, c.beam), c.left))
                + WeightedScore(c, Eos)
      BY <1>1, <3>1, AllScoresOfElement
    <3>3. QED
      BY <2>1, <3>2
  <2>5. WayOf(c) = <<c.left>> \o Trace(c.left, c.beam)
    BY <2>1 DEF WayOf
  <2>6. WayOf(Remade(c)) = WayOf(c)
    BY <1>3 DEF SamePlace, WayOf
  <2>7. QED
    BY <1>3, <2>3, <2>4, <2>5, <2>6
<1>8. ASSUME NEW k \in DOMAIN s
      PROVE  \E c \in g : s[k] = Remade(c) /\ Trace(Eos, k) = WayOf(c)
  <2>1. PICK c \in g : s[k] = Remade(c)
    BY <1>4, <1>6
  <2>2. Trace(Eos, k) = WayOf(s[k])
    BY <1>1, <1>2, TraceOfElement
  <2>3. QED
    BY <1>7, <2>1, <2>2
<1>. DEFINE ways == {<<c.left>> \o Trace(c.left, c.beam) : c \in g}
            chosen == {Trace(Eos, k) : k \in DOMAIN s}
<1>9. chosen \subseteq ways
  <2>1. ASSUME NEW k \in DOMAIN s
        PROVE  Trace(Eos, k) \in ways
    <3>1. PICK c \in g : Trace(Eos, k) = WayOf(c)
      BY <1>8
    <3>2. WayOf(c) \in ways
      BY <1>7, Zenon
    <3>3. QED
      BY <3>1, <3>2
  <2>2. QED
    BY <2>1
<1>10. \A k \in DOMAIN s : s[k].total = AllScores(Trace(Eos, k), Eos)
  BY <1>7, <1>8
<1>11. ASSUME NEW w \in ways \ chosen, NEW x \in chosen
       PROVE  AllScores(x, Eos) >= AllScores(w, Eos)
  <2>1. PICK c \in g : w = WayOf(c)
    BY <1>7
  <2>2. PICK k \in DOMAIN s : x = Trace(Eos, k)
    OBVIOUS
  <2>3. Remade(c) \in RemadeSet /\ Remade(c).total = AllScores(w, Eos)
    BY <1>4, <1>7, <2>1
  <2>4. ~ \E j \in DOMAIN s : s[j] = Remade(c)
    <3>1. SUFFICES ASSUME NEW j \in DOMAIN s, s[j] = Remade(c) PROVE FALSE
      OBVIOUS
    <3>2. Trace(Eos, j) = WayOf(Remade(c))
      BY <1>1, <1>2, <3>1, TraceOfElement
    <3>3. w = Trace(Eos, j)
      BY <1>7, <2>1, <3>2
    <3>4. QED
      BY <3>1, <3>3
  <2>5. s[k].total >= Remade(c).total
    BY <1>6, <2>3, <2>4
  <2>6. QED
    BY <1>10, <2>2, <2>3, <2>5
<1>. HIDE DEF ways, chosen
<1>12. QED
  BY <1>2, <1>9, <1>10, <1>11 DEF EosBeamRemade, ways, chosen

\* After adjustBeamScores and remakeEosBeam the totals are the scores of all
\* scorers over whole paths, and EOS holds the best of the last global beam.
THEOREM ScorersAreApplied == Spec => []ExtraScoresApplied
<1>1. ASSUME IInv
      PROVE  AdjustedTotals /\ EosBeamRemade
  <2>1. AdjustedTotals
    BY <1>1, TotalsOfScorers DEF AdjustedTotals
  <2>2. CASE cfg.extra /\ pc \in {"fill", "done"}
    BY <1>1, <2>1, <2>2, EosOfScorers
  <2>3. CASE ~(cfg.extra /\ pc \in {"fill", "done"})
    BY <2>1, <2>3 DEF EosBeamRemade
  <2>4. QED
    BY <2>2, <2>3
<1>2. IInv => ExtraScoresApplied
  BY <1>1 DEF ExtraScoresApplied
<1>3. QED
  BY <1>2, IInvAlways, PTL

\* In the end there is an element at EOS, so that there is a result.
LEMMA ResultOfEos ==
  ASSUME IInv, pc \in {"fill", "done"}
  PROVE  1 \in DOMAIN beams[Eos] /\ Trace(Eos, 1) \in Histories[Eos]
<1>1. InputOK /\ TypesOK /\ BeamsOK /\ Processed = 1 .. Eos /\ Eos \in 1 .. Eos /\ Eos \in NodeIds
  BY NodesOfLattice DEF IInv, Processed
<1>2. beams[Eos] # <<>>
  <2>1. IInv => NoNodeLost
    BY NodesWithPaths
  <2>2. QED
    BY <1>1, <2>1, EndIsReached DEF NoNodeLost
<1>3. 1 \in DOMAIN beams[Eos]
  <2>1. beams[Eos] \in Seq(Elements) /\ Len(beams[Eos]) \in Nat
        /\ DOMAIN beams[Eos] = 1 .. Len(beams[Eos])
    BY <1>1, BeamFacts
  <2>. HIDE DEF Elements
  <2>2. Len(beams[Eos]) # 0
    BY <1>2, <2>1, EmptySeq
  <2>3. QED
    BY <2>1, <2>2
<1>4. QED
  BY <1>1, <1>3, TraceOfElement, WaysArePaths

\* The result is a segmentation of the whole sentence, with the score that the
\* first element of EOS carries.
THEOREM ResultIsTop == Spec => []ResultHasTopScore
<1>1. ASSUME IInv
      PROVE  ResultHasTopScore
  <2>1. SUFFICES ASSUME pc = "done"
                 PROVE  /\ path \in Histories[Eos]
                        /\ beams[Eos][1].total =
                             IF cfg.extra THEN AllScores(path, Eos) ELSE PathScore(path, Eos)
    BY DEF ResultHasTopScore
  <2>2. InputOK /\ PhaseOK /\ TypesOK /\ BeamsOK /\ ResultOK /\ Processed = 1 .. Eos /\ Eos \in 1 .. Eos
    BY <1>1, <2>1, NodesOfLattice DEF IInv, Processed
  <2>3. path = Trace(Eos, 1) /\ 1 \in DOMAIN beams[Eos] /\ path \in Histories[Eos]
    BY <1>1, <2>1, <2>2, ResultOfEos DEF ResultOK
  <2>4. CASE cfg.extra
    <3>1. EosBeamRemade
      BY <1>1, <2>1, <2>4, EosOfScorers
    <3>2. beams[Eos][1].total = AllScores(Trace(Eos, 1), Eos)
      BY <2>1, <2>3, <2>4, <3>1 DEF EosBeamRemade
    <3>3. QED
      BY <2>3, <2>4, <3>2
  <2>5. CASE ~cfg.extra
    <3>1. Pure
      BY <2>5 DEF Pure
    <3>2. beams[Eos][1].total = PathScore(Trace(Eos, 1), Eos)
      BY <2>2, <2>3, <3>1, TotalsOfPaths
    <3>3. QED
      BY <2>3, <2>5, <3>2
  <2>6. QED
    BY <2>4, <2>5
<1>2. QED
  BY <1>1, IInvAlways, PTL

\* With scores of the first order, the node two places back does not matter.
LEMMA FirstOrderScores ==
  ASSUME InputOK, FirstOrder, NEW t \in Linked(lat), NEW u \in Linked(lat), t[2] = u[2], t[3] = u[3]
  PROVE  TrigramScore(t) = TrigramScore(u)
<1>. DEFINE L == Linked(lat)
            A == {<<x[2], x[3], TrigramScore(x)>> : x \in L}
            B == {<<x[2], x[3]>> : x \in L}
            f == [a \in A |-> <<a[1], a[2]>>]
            last == Len(lat.nodes)
<1>1. last \in Nat
  BY NodesOfLattice DEF InputOK
<1>2. IsFiniteSet(L)
  <2>1. -1 \in Int /\ 0 \in Int /\ 1 \in Int /\ last \in Int /\ last + 1 \in Int
    BY <1>1
  <2>2. IsFiniteSet((-1) .. last) /\ IsFiniteSet(0 .. last) /\ IsFiniteSet(1 .. last + 1)
    BY <2>1, FS_Interval
  <2>3. IsFiniteSet((0 .. last) \X (1 .. last + 1))
    BY <2>2, FS_Product
  <2>4. IsFiniteSet(((-1) .. last) \X ((0 .. last) \X (1 .. last + 1)))
    BY <2>2, <2>3, FS_Product
  <2>. DEFINE P == ((-1) .. last) \X ((0 .. last) \X (1 .. last + 1))
              Q == ((-1) .. last) \X (0 .. last) \X (1 .. last + 1)
  <2>5. IsFiniteSet(Q)
    <3>. DEFINE h == [p \in P |-> <<p[1], p[2][1], p[2][2]>>]
    <3>1. h \in Surjection(P, Q)
      <4>1. h \in [P -> Q]
        OBVIOUS
      <4>2. ASSUME NEW q \in Q
            PROVE  \E p \in P : h[p] = q
        <5>1. <<q[1], <<q[2], q[3]>>>> \in P /\ h[<<q[1], <<q[2], q[3]>>>>] = q
          OBVIOUS
        <5>2. QED
          BY <5>1
      <4>3. QED
        BY <4>1, <4>2 DEF Surjection
    <3>. HIDE DEF P, Q, h
    <3>2. QED
      BY <2>4, <3>1, FS_Surjection DEF P
  <2>6. L \subseteq Q
    BY DEF Linked
  <2>. HIDE DEF Q, L
  <2>7. QED
    BY <2>5, <2>6, FS_Subset
<1>3. IsFiniteSet(A)
  <2>. DEFINE h == [x \in L |-> <<x[2], x[3], TrigramScore(x)>>]
  <2>1. h \in Surjection(L, A)
    BY DEF Surjection
  <2>. HIDE DEF A, L, h
  <2>2. QED
    BY <1>2, <2>1, FS_Surjection
<1>4. f \in Surjection(A, B)
  <2>1. \A a \in A : f[a] \in B
    OBVIOUS
  <2>2. \A b \in B : \E a \in A : f[a] = b
    <3>. SUFFICES ASSUME NEW b \in B PROVE \E a \in A : f[a] = b
      OBVIOUS
    <3>1. PICK x \in L : b = <<x[2], x[3]>>
      OBVIOUS
    <3>2. <<x[2], x[3], TrigramScore(x)>> \in A
      OBVIOUS
    <3>3. f[<<x[2], x[3], TrigramScore(x)>>] = <<x[2], x[3]>>
      BY <3>2
    <3>4. QED
      BY <3>1, <3>2, <3>3
  <2>3. DOMAIN f = A /\ f = [a \in A |-> f[a]]
    OBVIOUS
  <2>. HIDE DEF A, B, f
  <2>4. QED
    BY <2>1, <2>2, <2>3 DEF Surjection
<1>5. Cardinality(B) = Cardinality(A)
  BY DEF FirstOrder, InputOK
<1>6. f \in Injection(A, B)
  <2>. HIDE DEF A, B, f
  <2>1. QED
    BY <1>3, <1>4, <1>5, FS_Surjection
<1>7. PICK a, b : a = <<t[2], t[3], TrigramScore(t)>> /\ b = <<u[2], u[3], TrigramScore(u)>>
  OBVIOUS
<1>8. a \in A /\ b \in A
  BY <1>7
<1>9. f[a] = f[b]
  BY <1>7, <1>8
<1>10. a = b
  <2>. HIDE DEF A, B, f
  <2>1. QED
    BY <1>6, <1>8, <1>9 DEF Injection, IsInjective
<1>11. QED
  BY <1>7, <1>10

\* A beam that loses nothing that matters: what is left out of it is no better
\* than anything in it, and then it is full.
LEMMA BestOfPaths ==
  ASSUME IInv, Exact
  PROVE  \A r \in Processed : \A y \in Histories[r] :
           \/ \E k \in DOMAIN beams[r] : Trace(r, k) = y
           \/ Len(beams[r]) = cfg.beam /\ \A k \in DOMAIN beams[r] : beams[r][k].total >= PathScore(y, r)
<1>1. /\ InputOK /\ PhaseOK /\ TypesOK /\ BeamsOK /\ Wide /\ Pure /\ FirstOrder
      /\ cfg.beam \in Nat \ {0} /\ bnd \in Int /\ lat.n \in Nat
  <2>1. InputOK /\ PhaseOK /\ TypesOK /\ BeamsOK /\ Wide /\ Pure /\ FirstOrder
    BY DEF IInv, Exact, Wide, Pure
  <2>2. QED
    BY <2>1, NodesOfLattice DEF InputOK, PhaseOK
<1>2. \A r \in 1 .. Eos : Start(r) \in 0 .. lat.n /\ r \in Nat
  BY <1>1, NodesOfLattice
<1>. DEFINE Fine(r, y) ==
              \/ \E k \in DOMAIN beams[r] : Trace(r, k) = y
              \/ Len(beams[r]) = cfg.beam /\ \A k \in DOMAIN beams[r] : beams[r][k].total >= PathScore(y, r)
            S == {r \in 1 .. Eos : r \in Processed => \A y \in Histories[r] : Fine(r, y)}
<1>3. ASSUME NEW r \in 1 .. Eos,
             \A l \in 1 .. Eos : Start(l) < Start(r) => l \in S
      PROVE  r \in S
  <2>. SUFFICES ASSUME r \in Processed, NEW y \in Histories[r] PROVE Fine(r, y)
    OBVIOUS
  <2>1. MadeOf(beams[r], r) /\ ScoredOf(beams[r], r) /\ CompleteOf(beams[r], r)
    BY <1>1 DEF BeamsOK
  <2>2. /\ Len(beams[r]) \in Nat /\ DOMAIN beams[r] = 1 .. Len(beams[r]) /\ Len(beams[r]) <= cfg.beam
        /\ \A k \in DOMAIN beams[r] : beams[r][k].total \in Int
    <3>1. r \in NodeIds
      BY <1>1, NodesOfLattice
    <3>2. QED
      BY <1>1, <3>1, BeamFacts
  <2>3. CASE Start(r) = 0
    <3>1. Histories[r] = {<<>>} /\ Left(Start(r)) = {Bos}
      BY <1>1, <2>3, HistoriesOf, NodesOfLattice
    <3>2. beams[r] # <<>>
      <4>1. beams[Bos] # <<>>
        BY <1>1 DEF TypesOK
      <4>2. QED
        BY <2>1, <3>1, <4>1 DEF MadeOf
    <3>3. 1 \in DOMAIN beams[r]
      <4>1. beams[r] \in Seq(Elements)
        BY <1>1, NodesOfLattice DEF TypesOK
      <4>. HIDE DEF Elements
      <4>2. Len(beams[r]) # 0
        BY <3>2, <4>1, EmptySeq
      <4>3. QED
        BY <2>2, <4>2
    <3>4. Trace(r, 1) \in Histories[r]
      BY <1>1, <3>3, TraceOfElement, WaysArePaths
    <3>5. Trace(r, 1) = y
      BY <3>1, <3>4
    <3>6. QED
      BY <3>3, <3>5
  <2>4. CASE Start(r) # 0
    <3>1. PICK l \in Left(Start(r)) : \E g \in Histories[l] : y = <<l>> \o g
      <4>1. \A h : h \in Histories[r] <=> \E l \in Left(Start(r)) : \E g \in Histories[l] : h = <<l>> \o g
        BY <1>1, <2>4, HistoriesOf
      <4>2. QED
        BY <4>1
    <3>2. PICK g \in Histories[l] : y = <<l>> \o g
      BY <3>1
    <3>3. l \in 1 .. Eos /\ Start(l) < Start(r) /\ l # Bos /\ l \in Nat /\ l \in NodeIds
      BY <1>1, <1>2, <2>4, NodesOfLattice
    <3>4. l \in Processed
      <4>1. Start(r) < bnd => Start(l) < bnd
        BY <1>1, <1>2, <3>3
      <4>2. QED
        BY <3>3, <4>1 DEF Processed
    <3>5. Fine(l, g)
      BY <1>3, <3>3, <3>4
    <3>6. g \in Seq(Nat) /\ PathScore(g, l) \in Int /\ Before(g) \in Left(Start(l))
          /\ (g = <<>> <=> Start(l) = 0)
      BY <1>1, <3>2, <3>3, PathsOfLattice
    <3>7. PICK last : last = TrigramScore(<<Before(g), l, r>>)
      OBVIOUS
    <3>8. PathScore(y, r) = PathScore(g, l) + last
      BY <1>2, <3>2, <3>3, <3>6, <3>7, ScoreOfLongerPath
    <3>9. <<Before(g), l, r>> \in Linked(lat) /\ last \in Int
      BY <1>1, <3>3, <3>6, <3>7, TrigramsHaveScores
    <3>10. ASSUME NEW k \in DOMAIN beams[l]
           PROVE  \E c \in Candidates(Start(r)) :
                    /\ c.left = l /\ c.beam = k /\ Points(c, Start(r))
                    /\ Extended(c, r).total = beams[l][k].total + last
                    /\ beams[l][k].total \in Int
      <4>1. PICK c \in Candidates(Start(r)) : c.left = l /\ c.beam = k
        BY <1>1, <1>2, CandidatesOfBoundary
      <4>2. Points(c, Start(r)) /\ c.total = beams[l][k].total
        BY <1>1, <1>2, <4>1, CandidatesOfBoundary
      <4>3. <<T2(c), l, r>> \in Linked(lat)
        BY <1>1, <4>1, <4>2, PointersHaveScores
      <4>4. TrigramScore(<<T2(c), l, r>>) = TrigramScore(<<Before(g), l, r>>)
        <5>1. PICK t, u : t = <<T2(c), l, r>> /\ u = <<Before(g), l, r>>
          OBVIOUS
        <5>2. t \in Linked(lat) /\ u \in Linked(lat) /\ t[2] = u[2] /\ t[3] = u[3]
          BY <3>9, <4>3, <5>1
        <5>3. TrigramScore(t) = TrigramScore(u)
          BY <1>1, <5>2, FirstOrderScores
        <5>4. QED
          BY <5>1, <5>3
      <4>5. FeatureScore(c, r) = last
        BY <3>7, <4>1, <4>4 DEF FeatureScore
      <4>6. Extended(c, r).total = beams[l][k].total + last
        BY <4>2, <4>5 DEF Extended, Element
      <4>7. beams[l][k].total \in Int
        BY <1>1, <3>3, BeamFacts
      <4>8. QED
        BY <4>1, <4>2, <4>6, <4>7
    <3>11. ASSUME NEW k \in DOMAIN beams[l]
           PROVE  \/ \E j \in DOMAIN beams[r] : beams[r][j].left = l /\ beams[r][j].beam = k
                  \/ Len(beams[r]) = cfg.beam
                     /\ \A j \in DOMAIN beams[r] : beams[r][j].total >= beams[l][k].total + last
      <4>1. PICK c \in Candidates(Start(r)) :
              c.left = l /\ c.beam = k /\ Extended(c, r).total = beams[l][k].total + last
        BY <3>10
      <4>2. QED
        BY <2>1, <4>1 DEF CompleteOf, SamePlace
    <3>12. ASSUME NEW j \in DOMAIN beams[r], beams[r][j].left = l
           PROVE  /\ beams[r][j].beam \in DOMAIN beams[l]
                  /\ beams[r][j].total = beams[l][beams[r][j].beam].total + last
      <4>1. PICK el : el = beams[r][j]
        OBVIOUS
      <4>2. Points(el, Start(r)) /\ el.left = l
        BY <2>1, <3>12, <4>1 DEF MadeOf
      <4>3. el.beam \in DOMAIN beams[l]
        BY <4>2 DEF Points
      <4>4. el.total = beams[l][el.beam].total + FeatureScore(el, r)
        BY <2>1, <4>1, <4>2 DEF ScoredOf
      <4>5. PICK c \in Candidates(Start(r)) :
              /\ c.left = l /\ c.beam = el.beam /\ Points(c, Start(r))
              /\ Extended(c, r).total = beams[l][el.beam].total + last
              /\ beams[l][el.beam].total \in Int
        BY <3>10, <4>3
      <4>6. FeatureScore(c, r) = FeatureScore(el, r)
        BY <4>2, <4>5 DEF FeatureScore, T2
      <4>7. FeatureScore(c, r) = last
        <5>1. Extended(c, r).total = c.total + FeatureScore(c, r)
          BY DEF Extended, Element
        <5>2. FeatureScore(c, r) \in Int
          BY <1>1, <4>5, PointersHaveScores
        <5>3. c.total = beams[l][el.beam].total
          BY <1>1, <1>2, <4>5, CandidatesOfBoundary
        <5>4. PICK p, q : p = FeatureScore(c, r) /\ q = beams[l][el.beam].total
          OBVIOUS
        <5>5. p \in Int /\ q \in Int /\ last \in Int /\ q + p = q + last
          BY <3>9, <4>5, <5>1, <5>2, <5>3, <5>4
        <5>6. p = last
          BY <5>5
        <5>7. QED
          BY <5>4, <5>6
      <4>8. QED
        BY <4>1, <4>3, <4>4, <4>6, <4>7
    <3>13. CASE \E k \in DOMAIN beams[l] : Trace(l, k) = g
      <4>1. PICK k \in DOMAIN beams[l] : Trace(l, k) = g
        BY <3>13
      <4>2. CASE \E j \in DOMAIN beams[r] : beams[r][j].left = l /\ beams[r][j].beam = k
        <5>1. PICK j \in DOMAIN beams[r] : beams[r][j].left = l /\ beams[r][j].beam = k
          BY <4>2
        <5>2. Trace(r, j) = <<l>> \o Trace(l, k)
          BY <1>1, <3>3, <5>1, TraceOfElement DEF WayOf
        <5>3. Trace(r, j) = y
          BY <3>2, <4>1, <5>2
        <5>4. QED
          BY <5>1, <5>3
      <4>3. CASE /\ Len(beams[r]) = cfg.beam
                 /\ \A j \in DOMAIN beams[r] : beams[r][j].total >= beams[l][k].total + last
        <5>1. beams[l][k].total = PathScore(g, l)
          BY <1>1, <3>4, <4>1, TotalsOfPaths
        <5>2. QED
          BY <3>8, <4>3, <5>1
      <4>4. QED
        BY <3>11, <4>2, <4>3
    <3>14. CASE /\ Len(beams[l]) = cfg.beam
                /\ \A k \in DOMAIN beams[l] : beams[l][k].total >= PathScore(g, l)
      <4>1. DOMAIN beams[l] = 1 .. cfg.beam
            /\ \A k \in DOMAIN beams[l] : beams[l][k].total \in Int
        BY <1>1, <3>3, <3>14, BeamFacts
      <4>2. CASE \E k \in DOMAIN beams[l] :
                   ~ \E j \in DOMAIN beams[r] : beams[r][j].left = l /\ beams[r][j].beam = k
        <5>1. PICK k \in DOMAIN beams[l] :
                ~ \E j \in DOMAIN beams[r] : beams[r][j].left = l /\ beams[r][j].beam = k
          BY <4>2
        <5>2. Len(beams[r]) = cfg.beam
              /\ \A j \in DOMAIN beams[r] : beams[r][j].total >= beams[l][k].total + last
          BY <3>11, <5>1
        <5>3. \A j \in DOMAIN beams[r] : beams[r][j].total >= PathScore(y, r)
          <6>1. beams[l][k].total >= PathScore(g, l) /\ beams[l][k].total \in Int
            BY <3>14, <4>1
          <6>2. PICK p, q : p = beams[l][k].total /\ q = PathScore(g, l)
            OBVIOUS
          <6>3. p \in Int /\ q \in Int /\ last \in Int /\ p >= q /\ PathScore(y, r) = q + last
            BY <3>6, <3>8, <3>9, <6>1, <6>2
          <6>4. p + last \in Int /\ PathScore(y, r) \in Int /\ p + last >= PathScore(y, r)
            BY <6>3
          <6>5. \A j \in DOMAIN beams[r] : beams[r][j].total \in Int /\ beams[r][j].total >= p + last
            BY <2>2, <5>2, <6>2
          <6>6. QED
            BY <6>4, <6>5
        <5>4. QED
          BY <5>2, <5>3
      <4>3. CASE \A k \in DOMAIN beams[l] :
                   \E j \in DOMAIN beams[r] : beams[r][j].left = l /\ beams[r][j].beam = k
        <5>. DEFINE At(k) == CHOOSE j \in DOMAIN beams[r] : beams[r][j].left = l /\ beams[r][j].beam = k
                    f == [k \in 1 .. cfg.beam |-> At(k)]
        <5>1. ASSUME NEW k \in 1 .. cfg.beam
              PROVE  f[k] \in DOMAIN beams[r] /\ beams[r][f[k]].left = l /\ beams[r][f[k]].beam = k
          BY <4>1, <4>3
        <5>2. f \in [1 .. cfg.beam -> DOMAIN beams[r]]
          BY <4>1, <4>3
        <5>. HIDE DEF f
        <5>3. f \in Injection(1 .. cfg.beam, DOMAIN beams[r])
          BY <5>1, <5>2 DEF Injection, IsInjective
        <5>4. /\ IsFiniteSet(1 .. cfg.beam) /\ Cardinality(1 .. cfg.beam) = cfg.beam
              /\ IsFiniteSet(1 .. Len(beams[r])) /\ Cardinality(1 .. Len(beams[r])) = Len(beams[r])
          <6>1. 1 \in Int /\ cfg.beam \in Int /\ Len(beams[r]) \in Int
            BY <1>1, <2>2
          <6>2. /\ IsFiniteSet(1 .. cfg.beam)
                /\ Cardinality(1 .. cfg.beam) = IF 1 > cfg.beam THEN 0 ELSE cfg.beam - 1 + 1
                /\ IsFiniteSet(1 .. Len(beams[r]))
                /\ Cardinality(1 .. Len(beams[r])) = IF 1 > Len(beams[r]) THEN 0 ELSE Len(beams[r]) - 1 + 1
            BY <6>1, FS_Interval
          <6>3. QED
            BY <1>1, <2>2, <6>2
        <5>5. Len(beams[r]) = cfg.beam
          <6>1. Cardinality(1 .. cfg.beam) <= Cardinality(DOMAIN beams[r])
            BY <2>2, <5>3, <5>4, FS_Injection
          <6>2. QED
            BY <1>1, <2>2, <5>4, <6>1
        <5>6. f \in Surjection(1 .. cfg.beam, DOMAIN beams[r])
          BY <2>2, <5>3, <5>4, <5>5, FS_Injection
        <5>7. ASSUME NEW j \in DOMAIN beams[r]
              PROVE  beams[r][j].total >= PathScore(y, r)
          <6>1. PICK k \in 1 .. cfg.beam : f[k] = j
            BY <5>6 DEF Surjection
          <6>2. beams[r][j].left = l /\ beams[r][j].beam = k
            BY <5>1, <6>1
          <6>3. beams[r][j].total = beams[l][k].total + last
            BY <3>12, <6>2
          <6>4. beams[l][k].total >= PathScore(g, l) /\ beams[l][k].total \in Int
            BY <3>14, <4>1, <6>1
          <6>5. QED
            BY <3>6, <3>8, <3>9, <6>3, <6>4
        <5>8. QED
          BY <5>5, <5>7
      <4>4. QED
        BY <4>2, <4>3
    <3>15. QED
      BY <3>5, <3>13, <3>14
  <2>5. QED
    BY <2>3, <2>4
<1>. HIDE DEF S
<1>4. S = 1 .. Eos
  <2>1. S \in SUBSET (1 .. Eos)
    BY DEF S
  <2>2. QED
    BY <1>1, <1>3, <2>1, NodeInduction
<1>5. \A r \in Processed : r \in 1 .. Eos
  BY DEF Processed
<1>6. QED
  BY <1>4, <1>5 DEF S

\* In an exact configuration a beam is full unless it holds all the paths to its
\* node, and no path outside it is better than one inside.
LEMMA NoBetterPath == IInv => BeamsHoldBestPaths
<1>. SUFFICES ASSUME IInv, Exact, NEW r \in Processed
              PROVE  LET inside == {Trace(r, i) : i \in DOMAIN beams[r]}
                     IN /\ Len(beams[r]) = cfg.beam \/ inside = Histories[r]
                        /\ \A x \in inside, y \in Histories[r] \ inside : PathScore(x, r) >= PathScore(y, r)
  BY DEF BeamsHoldBestPaths
<1>. DEFINE inside == {Trace(r, i) : i \in DOMAIN beams[r]}
<1>1. /\ InputOK /\ PhaseOK /\ TypesOK /\ BeamsOK /\ Pure /\ r \in 1 .. Eos
  BY DEF IInv, Exact, Pure, Processed
<1>2. inside \subseteq Histories[r]
  <2>1. \A i \in DOMAIN beams[r] : Trace(r, i) \in Histories[r]
    BY <1>1, TraceOfElement, WaysArePaths
  <2>2. QED
    BY <2>1
<1>3. ASSUME NEW y \in Histories[r] \ inside
      PROVE  Len(beams[r]) = cfg.beam /\ \A k \in DOMAIN beams[r] : beams[r][k].total >= PathScore(y, r)
  <2>1. ~ \E k \in DOMAIN beams[r] : Trace(r, k) = y
    OBVIOUS
  <2>2. QED
    BY <2>1, BestOfPaths
<1>4. ASSUME NEW x \in inside, NEW y \in Histories[r] \ inside
      PROVE  PathScore(x, r) >= PathScore(y, r)
  <2>1. PICK k \in DOMAIN beams[r] : x = Trace(r, k)
    OBVIOUS
  <2>2. beams[r][k].total = PathScore(x, r)
    BY <1>1, <2>1, TotalsOfPaths
  <2>3. QED
    BY <1>3, <2>2
<1>. HIDE DEF inside
<1>5. QED
  BY <1>2, <1>3, <1>4 DEF inside

\* With scores that depend on neighbours only, and a global beam that is off or
\* wide enough, the beams hold the best paths to their nodes, at any width.
THEOREM BeamsHoldTheBest == Spec => []BeamsHoldBestPaths
<1>1. IInv => BeamsHoldBestPaths
  BY NoBetterPath
<1>2. QED
  BY <1>1, IInvAlways, PTL

\* The sentence of the abstract analysis, with its segmentations and scores, is
\* what it was.
LEMMA SentenceStays ==
  ASSUME lat' = lat, cfg' = cfg
  PROVE  /\ Segmentations' = Segmentations /\ Exact' = Exact
         /\ [h \in Segmentations |-> PathScore(h, Eos)]' = [h \in Segmentations |-> PathScore(h, Eos)]
<1>1. Eos' = Eos /\ Histories' = Histories
  BY LatticeStays, HistoriesStay
<1>2. Segmentations' = Segmentations
  BY <1>1 DEF Segmentations
<1>3. \A t : TrigramScore(t)' = TrigramScore(t)
  BY LatticeStays
<1>4. FirstOrder' = FirstOrder
  BY <1>3 DEF FirstOrder
<1>5. Exact' = Exact
  BY <1>4 DEF Exact
<1>6. ASSUME NEW h
      PROVE  PathScore(h, Eos)' = PathScore(h, Eos)
  <2>1. PathScore(h, Eos)' = PathScore(h, Eos)
    BY <1>1, <1>3 DEF PathScore, SumOver
  <2>2. QED
    BY <2>1
<1>7. QED
  BY <1>2, <1>5, <1>6

\* The last step of an analysis is that of the abstract one: the path that fillIn
\* reads off is a segmentation, and a best one if the configuration is exact.
LEMMA FillInChooses ==
  ASSUME IInv, FillIn
  PROVE  Analysed!Choose
<1>1. /\ pc = "fill" /\ pc' = "done" /\ path' = Trace(Eos, 1) /\ lat' = lat /\ cfg' = cfg
  BY DEF FillIn
<1>2. Segmentations' = Segmentations /\ Exact' = Exact
      /\ [h \in Segmentations |-> PathScore(h, Eos)]' = [h \in Segmentations |-> PathScore(h, Eos)]
  BY <1>1, SentenceStays
<1>3. 1 \in DOMAIN beams[Eos] /\ Trace(Eos, 1) \in Segmentations
  BY <1>1, ResultOfEos DEF Segmentations
<1>4. ASSUME Exact, NEW x \in Segmentations
      PROVE  PathScore(Trace(Eos, 1), Eos) >= PathScore(x, Eos)
  <2>1. InputOK /\ PhaseOK /\ TypesOK /\ BeamsOK /\ Pure /\ Eos \in Processed /\ Eos \in 1 .. Eos
        /\ Eos \in NodeIds
    BY <1>1, <1>4, NodesOfLattice DEF IInv, Exact, Pure, Processed
  <2>2. beams[Eos][1].total = PathScore(Trace(Eos, 1), Eos)
    BY <1>3, <2>1, TotalsOfPaths
  <2>3. CASE \E k \in DOMAIN beams[Eos] : Trace(Eos, k) = x
    <3>1. PICK k \in DOMAIN beams[Eos] : Trace(Eos, k) = x
      BY <2>3
    <3>2. beams[Eos][k].total = PathScore(x, Eos)
      BY <2>1, <3>1, TotalsOfPaths
    <3>3. k \in 1 .. Len(beams[Eos]) /\ Len(beams[Eos]) \in Nat
          /\ beams[Eos][1].total \in Int
      BY <1>3, <2>1, BeamFacts
    <3>4. 1 < k => beams[Eos][1].total >= beams[Eos][k].total
      BY <1>3, <2>1 DEF BeamsOK, ScoredOf
    <3>5. beams[Eos][1].total >= beams[Eos][k].total
      BY <3>3, <3>4
    <3>6. QED
      BY <2>2, <3>2, <3>5
  <2>4. CASE \A k \in DOMAIN beams[Eos] : beams[Eos][k].total >= PathScore(x, Eos)
    BY <1>3, <2>2, <2>4
  <2>5. QED
    BY <1>4, <2>1, <2>3, <2>4, BestOfPaths DEF Segmentations
<1>. DEFINE sentence == [ways |-> Segmentations,
                         score |-> [h \in Segmentations |-> PathScore(h, Eos)],
                         exact |-> Exact]
<1>5. sentence' = sentence
  BY <1>2
<1>6. Exact => Trace(Eos, 1) \in Analysed!BestOf(sentence)
  BY <1>3, <1>4 DEF Analysed!BestOf
<1>7. Trace(Eos, 1) \in IF sentence.exact THEN Analysed!BestOf(sentence) ELSE sentence.ways
  BY <1>3, <1>6
<1>8. (IF pc = "done" THEN <<path>> ELSE <<>>) = <<>>
      /\ (IF pc = "done" THEN <<path>> ELSE <<>>)' = <<Trace(Eos, 1)>>
  BY <1>1
<1>9. QED
  BY <1>5, <1>7, <1>8 DEF Analysed!Choose

\* The analysis with all its beams implements the abstract one, which picks a
\* segmentation in one step: all the steps before the last one are stutters.
THEOREM BestPathIsImplemented == Spec => ImplementsBestPath
<1>1. Init => Analysed!Init
  BY DEF Init, Analysed!Init
<1>2. ASSUME IInv, [Next]_vars
      PROVE  [Analysed!Choose]_(Analysed!vars)
  <2>1. lat' = lat /\ cfg' = cfg
    BY <1>2, NextKeepsInput
  <2>2. Segmentations' = Segmentations /\ Exact' = Exact
        /\ [h \in Segmentations |-> PathScore(h, Eos)]' = [h \in Segmentations |-> PathScore(h, Eos)]
    BY <2>1, SentenceStays
  <2>3. CASE FillIn
    BY <1>2, <2>3, FillInChooses
  <2>4. CASE ~FillIn
    <3>1. (pc = "done" <=> pc' = "done") /\ path' = path
      BY <1>2, <2>4 DEF Next, vars, ScoreFull, ScoreGlobal, SkipBoundary, AdjustBoundary, RemakeEosBeam,
                        Done, NextBoundary
    <3>2. UNCHANGED Analysed!vars
      BY <2>2, <3>1 DEF Analysed!vars
    <3>3. QED
      BY <3>2
  <2>5. QED
    BY <2>3, <2>4
<1>3. QED
  BY <1>1, <1>2, IInvAlways, PTL DEF Spec, ImplementsBestPath, Analysed!Spec
===============================================================================
