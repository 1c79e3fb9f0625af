------------------------------- MODULE Selection -------------------------------
(***************************************************************************)
(* The selection of the best candidates for a beam: util::partition with   *)
(* part_step (util/stl_util.h) as processBeamCandidates and makeT0Beam     *)
(* (core/analysis/score_processor.cc) call it.  Candidates are indexes     *)
(* into scores; they are moved about until between beam and limit of them  *)
(* stand in front, none worse than any behind, and those are sorted.       *)
(*                                                                         *)
(* A range is [start, end), as the iterators of the code are; one step is  *)
(* one comparison with its effect.                                         *)
(***************************************************************************)
EXTENDS Integers, FiniteSets

CONSTANT Requests   \* [size, score, beam, limit]

\* The callers pass the size of a beam and twice or four thirds of it.
ASSUME SelectionConstants ==
  \A r \in Requests :
    /\ r.size \in Nat
    /\ r.beam \in Nat \ {0}
    /\ r.limit \in {2 * r.beam, (r.beam * 4) \div 3}
    /\ r.score \in [0 .. r.size - 1 -> Int]

VARIABLES request,      \* the candidates and the bounds
          order,        \* the candidates as they stand
          pc,           \* "call", "narrow", "scan", "sort", "done"
          start, end,   \* the range of partition
          min, max,     \* minSize and maxSize, counted from start
          left, right,  \* start and end of part_step while it scans
          kept,         \* where the candidates that are kept end
          chosen        \* what becomes the beam

vars == <<request, order, pc, start, end, min, max, left, right, kept, chosen>>

Places == 0 .. request.size - 1

\* comp(x, y): the better candidate comes first.
Before(x, y) == request.score[x] > request.score[y]
NotWorse(x, y) == request.score[x] >= request.score[y]

Swap(a, i, j) == [a EXCEPT ![i] = a[j], ![j] = a[i]]

\* Two places in order
InOrder(a, i, j) == IF Before(a[j], a[i]) THEN Swap(a, i, j) ELSE a

Init ==
  /\ request \in Requests
  /\ order = [i \in Places |-> i]
  /\ pc = "call"
  /\ start = 0 /\ end = request.size
  /\ min = request.beam /\ max = request.limit
  /\ left = 0 /\ right = 0
  /\ kept = request.size
  /\ chosen = {}

\* The callers partition only what is longer than they want it.
Call ==
  /\ pc = "call"
  /\ pc' = IF request.size > request.limit THEN "narrow" ELSE "sort"
  /\ UNCHANGED <<request, order, start, end, min, max, left, right, kept, chosen>>

\* Mutation of GoRight: the pivot is not counted.
GoRightPastPivotOnly(mid) ==
  /\ start' = mid + 1
  /\ min' = min - (mid - start)
  /\ max' = max - (mid - start)
  /\ IF min' = 0 THEN pc' = "sort" /\ kept' = mid + 1 ELSE pc' = "narrow" /\ kept' = kept
  /\ UNCHANGED end

\* partition with too few candidates before the pivot: they and the pivot stay
\* in front, and the bounds shrink by their number.
GoRight(mid) ==
  /\ start' = mid + 1
  /\ min' = min - (mid - start + 1)
  /\ max' = max - (mid - start + 1)
  /\ IF min' = 0 THEN pc' = "sort" /\ kept' = mid + 1 ELSE pc' = "narrow" /\ kept' = kept
  /\ UNCHANGED end

\* Mutation of GoLeft: the candidate after the pivot stays in the range.
GoLeftPastPivot(mid) ==
  /\ end' = mid + 1
  /\ pc' = "narrow"
  /\ UNCHANGED <<start, min, max, kept>>

\* partition with too many candidates before the pivot
GoLeft(mid) ==
  /\ end' = mid
  /\ pc' = "narrow"
  /\ UNCHANGED <<start, min, max, kept>>

\* partition once part_step has returned mid
Returned(mid) ==
  \/ /\ min <= mid - start /\ mid - start <= max
     /\ pc' = "sort" /\ kept' = mid
     /\ UNCHANGED <<start, end, min, max>>
  \/ mid - start > max /\ GoLeft(mid)
  \/ mid - start < min /\ GoRight(mid)

\* part_step of up to three candidates: the middle one is the pivot.
PartSmall ==
  /\ pc = "narrow"
  /\ \/ /\ end - start = 1
        /\ Returned(end)
        /\ UNCHANGED order
     \/ /\ end - start = 2
        /\ order' = InOrder(order, start, start + 1)
        /\ Returned(start + 1)
     \/ /\ end - start = 3
        /\ order' = InOrder(InOrder(InOrder(order, start, start + 1), start + 1, start + 2),
                            start, start + 1)
        /\ Returned(start + 1)
  /\ UNCHANGED <<request, left, right, chosen>>

\* part_step of more: the middle candidate is the pivot and goes to the end.
PartLarge ==
  /\ pc = "narrow"
  /\ end - start > 3
  /\ order' = Swap(order, start + (end - start) \div 2, end - 1)
  /\ left' = start
  /\ right' = end - 2
  /\ pc' = "scan"
  /\ UNCHANGED <<request, start, end, min, max, kept, chosen>>

Scanning == pc = "scan" /\ left # right

ScanBetter ==
  /\ Scanning
  /\ Before(order[left], order[end - 1])
  /\ left' = left + 1
  /\ UNCHANGED <<request, order, pc, start, end, min, max, right, kept, chosen>>

ScanOther ==
  /\ Scanning
  /\ ~Before(order[left], order[end - 1])
  /\ order' = Swap(order, left, right)
  /\ right' = right - 1
  /\ UNCHANGED <<request, pc, start, end, min, max, left, kept, chosen>>

\* Mutation of PivotPlace: the last candidate is taken to be a worse one.
PivotPlaceHere == right

\* Where the pivot belongs, once the last candidate has been compared with it
PivotPlace == IF Before(order[end - 1], order[right]) THEN right ELSE right + 1

PlacePivot ==
  /\ pc = "scan" /\ left = right
  /\ order' = Swap(order, end - 1, PivotPlace)
  /\ Returned(PivotPlace)
  /\ UNCHANGED <<request, left, right, chosen>>

InFront == {order[i] : i \in 0 .. kept - 1}

BeamLength == IF request.beam < kept THEN request.beam ELSE kept

\* std::sort of the candidates kept, of which the first become the beam:
\* among equals, any may come first.
Sort ==
  /\ pc = "sort"
  /\ chosen' \in {S \in SUBSET InFront :
                    /\ Cardinality(S) = BeamLength
                    /\ \A x \in S, y \in InFront \ S : NotWorse(x, y)}
  /\ pc' = "done"
  /\ UNCHANGED <<request, order, start, end, min, max, left, right, kept>>

Done == pc = "done" /\ UNCHANGED vars

Next == Call \/ PartSmall \/ PartLarge \/ ScanBetter \/ ScanOther \/ PlacePivot \/ Sort \/ Done

\* A thread runs the selection without waiting for anything.
Spec == Init /\ [][Next]_vars /\ WF_vars(Next)

-------------------------------------------------------------------------------

TypeOK ==
  /\ request \in Requests
  /\ order \in [Places -> Places]
  /\ pc \in {"call", "narrow", "scan", "sort", "done"}
  /\ start \in 0 .. request.size
  /\ end \in 0 .. request.size
  /\ {min, max, left, right} \subseteq Int
  /\ kept \in 0 .. request.size

\* The checks at the head of partition hold for every range it goes on with,
\* not only for the first: the bounds shrink with the range, and the range
\* never gets too short for them, nor empty, which part_step could not take.
RangeHasRoom ==
  pc \in {"narrow", "scan"} =>
    1 <= min /\ min <= max /\ max <= end - start

\* However the candidates were moved, all of them are still there; as many as
\* the beam needs and no more than the limit are in front, and none of those is
\* worse than one behind.
PartitionSelects ==
  pc \in {"sort", "done"} =>
    /\ \A x \in Places : \E i \in Places : order[i] = x
    /\ kept = request.size \/ request.beam <= kept
    /\ kept <= request.limit
    /\ \A i, j \in Places : i < kept /\ kept <= j => NotWorse(order[i], order[j])

\* The beam is full if there are enough candidates, and nothing outside of it
\* is better than something inside.
BeamHoldsBest ==
  pc = "done" =>
    /\ Cardinality(chosen) = IF request.beam < request.size THEN request.beam ELSE request.size
    /\ \A x \in chosen, y \in Places \ chosen : NotWorse(x, y)

\* Whatever the scores, many equal ones included, partition ends: a part_step
\* that gives no good pivot always leaves a shorter range.
SelectionEnds == <>(pc = "done")
===============================================================================
