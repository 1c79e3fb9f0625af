---------------------------- MODULE LatticeBuilder ----------------------------
(***************************************************************************)
(* LatticeBuilder and Lattice (lattice_builder and lattice_types under     *)
(* core/analysis): the node seeds of one sentence, the boundary            *)
(* descriptions computed from them, and the lattice built from both.       *)
(*                                                                         *)
(* A seed is a possible word: an entry and the codepoints it spans.        *)
(* Boundaries are numbered from 0 as in the code; boundary b of the input  *)
(* is boundary b + 2 of the lattice, which starts with two BOS boundaries. *)
(* A node of a lattice boundary is found by its position, also from 0.     *)
(***************************************************************************)
EXTENDS Integers, Sequences, SequencesExt, FiniteSets

VARIABLES seeds,         \* seeds_
          boundaries,    \* boundaries_
          connectible,   \* connectible
          maxBoundaries, \* maxBoundaries_
          lattice        \* Lattice::boundaries

builderVars == <<seeds, boundaries, connectible, maxBoundaries, lattice>>

Seed(entry, start, end) == [entry |-> entry, start |-> start, end |-> end]
Bos == Seed([kind |-> "bos", id |-> 0], 0, 0)
Eos(n) == Seed([kind |-> "eos", id |-> 0], n, n)

Ptr(boundary, position) == [boundary |-> boundary, position |-> position]

\* A boundary of the lattice with room for that many ending nodes
LatticeBoundary(endNodes, starts) ==
  [endNodes |-> endNodes, ends |-> <<>>, starts |-> starts]

\* Lattice::boundary(idx) and the node a LatticeNodePtr leads to
Boundary(idx) == lattice[idx + 1]
NodeAt(ptr) == Boundary(ptr.boundary).starts[ptr.position + 1]

BuilderInit ==
  /\ seeds = <<>>
  /\ boundaries = <<>>
  /\ connectible = <<>>
  /\ maxBoundaries = 0
  /\ lattice = <<>>

BuilderReset(codepoints) ==
  /\ seeds' = <<>>
  /\ boundaries' = <<>>
  /\ maxBoundaries' = codepoints + 1

\* Some numbers in increasing order
InOrder(I) ==
  LET rank == [i \in I |-> Cardinality({j \in I : j < i}) + 1]
  IN [k \in 1 .. Cardinality(I) |-> CHOOSE i \in I : rank[i] = k]

\* The elements of a sequence at some of its places, in their order
Keep(s, places) == LET at == InOrder(places) IN [k \in DOMAIN at |-> s[at[k]]]
Where(s, Test(_)) == Keep(s, {i \in DOMAIN s : Test(s[i])})

StartingAt(s, b) == Where(s, LAMBDA seed : seed.start = b)

\* Mutation of Sorted: by start, then by end.
SortedByEnd(s) ==
  SortSeq(s, LAMBDA x, y : x.start < y.start \/ (x.start = y.start /\ x.end < y.end))

\* Mutation of Sorted: the seeds stay in the order in which they were made.
Unsorted(s) == s

\* sortSeeds: a stable sort by the first codepoint
Before(s, i, j) == s[i].start < s[j].start \/ (s[i].start = s[j].start /\ i < j)
Sorted(s) ==
  LET rank == [j \in DOMAIN s |-> Cardinality({i \in DOMAIN s : Before(s, i, j)}) + 1]
  IN [k \in DOMAIN s |-> s[CHOOSE j \in DOMAIN s : rank[j] = k]]

\* checkConnectability: one pass over the sorted seeds marks every boundary
\* that a chain of seeds from boundary 0 ends at.
Mark(marks, seed) == IF marks[seed.start] THEN [marks EXCEPT ![seed.end] = TRUE] ELSE marks
Marked(sorted) ==
  LET after[k \in 0 .. Len(sorted)] ==
        IF k = 0 THEN [b \in 0 .. maxBoundaries - 1 |-> b = 0]
        ELSE Mark(after[k - 1], sorted[k])
  IN after[Len(sorted)]

CheckConnectability ==
  /\ seeds' = Sorted(seeds)
  /\ connectible' = Marked(seeds')

Connected(marks) == marks[maxBoundaries - 1]

Count(s, Test(_)) == Cardinality({i \in DOMAIN s : Test(s[i])})

\* Mutation of BoundaryInfo: no place is counted for BOS at boundary 0.
BoundaryInfoNoBos(s) ==
  LET last == maxBoundaries - 1
      startCount == [b \in 0 .. last |->
                       Count(s, LAMBDA seed : seed.start = b) + (IF b = last THEN 1 ELSE 0)]
      endCount == [b \in 0 .. last |-> Count(s, LAMBDA seed : seed.end = b)]
      first[b \in 0 .. last] == IF b = 0 THEN 0 ELSE first[b - 1] + startCount[b - 1]
  IN [b \in 0 .. last |-> [startCount |-> startCount[b], endCount |-> endCount[b],
                           firstNodeOffset |-> first[b]]]

\* prepare: how many nodes start and end at each boundary, BOS and EOS
\* included, and where the nodes of a boundary begin among the sorted seeds
BoundaryInfo(s) ==
  LET last == maxBoundaries - 1
      startCount == [b \in 0 .. last |->
                       Count(s, LAMBDA seed : seed.start = b) + (IF b = last THEN 1 ELSE 0)]
      endCount == [b \in 0 .. last |->
                     Count(s, LAMBDA seed : seed.end = b) + (IF b = 0 THEN 1 ELSE 0)]
      first[b \in 0 .. last] == IF b = 0 THEN 0 ELSE first[b - 1] + startCount[b - 1]
  IN [b \in 0 .. last |-> [startCount |-> startCount[b], endCount |-> endCount[b],
                           firstNodeOffset |-> first[b]]]

\* The slice of the seeds that belongs to a boundary
Slice(s, info) == SubSeq(s, info.firstNodeOffset + 1, info.firstNodeOffset + info.startCount)

\* Lattice::makeBoundary
MakeBoundary(bnd) == lattice' = Append(lattice, bnd)

MakeBos ==
  lattice' = lattice \o <<LatticeBoundary(0, <<Bos>>), LatticeBoundary(1, <<Bos>>)>>

ConstructSingleBoundary(b) ==
  LET info == boundaries[b]
  IN /\ MakeBoundary(LatticeBoundary(info.endCount, Slice(seeds, info)))
     /\ connectible' = [connectible EXCEPT ![b] = info.startCount # 0 /\ info.endCount # 0]

MakeEos ==
  LET last == maxBoundaries - 1
  IN MakeBoundary(LatticeBoundary(boundaries[last].endCount, <<Eos(last)>>))

AddEnd(lat, idx, ptr) == [lat EXCEPT ![idx + 1].ends = Append(@, ptr)]

\* Seed i becomes the node at its index within the slice of its boundary.
SeedPtr(i) == Ptr(seeds[i].start + 2, (i - 1) - boundaries[seeds[i].start].firstNodeOffset)

\* Every node is entered at the boundary it ends at, BOS nodes first; a seed
\* of no length is one that compaction erased.
FillEnds ==
  LET filled[i \in 0 .. Len(seeds)] ==
        IF i = 0 THEN AddEnd(AddEnd(lattice, 1, Ptr(0, 0)), 2, Ptr(1, 0))
        ELSE IF seeds[i].start = seeds[i].end THEN filled[i - 1]
        ELSE AddEnd(filled[i - 1], seeds[i].end + 2, SeedPtr(i))
  IN lattice' = filled[Len(seeds)]
===============================================================================
