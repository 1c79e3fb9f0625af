----------------------------- MODULE FeatureDiff -----------------------------
(***************************************************************************)
(* The features by which a training step moves the weights:                *)
(* LossCalculator::computeFeatureDiff (core/training/loss.cc).  The        *)
(* features of the gold path and those of the best path found are masked   *)
(* to the size of the weight table, sorted and merged; a feature of both   *)
(* counts for nothing, the others get a score.                             *)
(*                                                                         *)
(* Scores are counts until the end, when those of one sign are multiplied  *)
(* by a quotient; the product is left as it stands (see Weighted).         *)
(***************************************************************************)
EXTENDS Integers, Sequences, FiniteSets

CONSTANTS RawFeatures,    \* hashes of n-gram features
          NumFeatures,    \* size of the weight table, mask + 1
          Lengths         \* how many of them a path may have

ASSUME FeatureConstants ==
  /\ RawFeatures \subseteq Nat
  /\ NumFeatures \in Nat \ {0}
  /\ Lengths \subseteq Nat

Features == 0 .. NumFeatures - 1

VARIABLES goldFeatures, top1Features,
          goldPos, topPos,   \* how many of either the merge has consumed
          scored,            \* the difference, one entry per feature
          weight,            \* what scores of one sign are multiplied by
          stage              \* "masked", "merge", "tails", "done"

vars == <<goldFeatures, top1Features, goldPos, topPos, scored, weight, stage>>

-------------------------------------------------------------------------------

SeqsOver(S) == UNION {[1 .. n -> S] : n \in Lengths}

\* Occurrences of a feature among the first n elements of a sequence
CountIn(s, n, f) == Cardinality({i \in 1 .. n : s[i] = f})
Count(s, f) == CountIn(s, Len(s), f)

IsSorted(s) == \A i, j \in DOMAIN s : i < j => s[i] <= s[j]

\* f & mask, where mask + 1 is a power of two
Masked(s) == [i \in DOMAIN s |-> s[i] % NumFeatures]

\* Mutation of Sorted: the features are left in the order they came in.
Unsorted(s) == {s}

\* util::sort
Sorted(s) ==
  LET elements == {s[i] : i \in DOMAIN s}
  IN {t \in [1 .. Len(s) -> elements] :
        IsSorted(t) /\ \A f \in elements : Count(t, f) = Count(s, f)}

Entry(f, score) == [feature |-> f, score |-> score]

\* Mutation of MergeOne: the score of an entry is overwritten.
MergeLast(target, score) ==
  IF scored[Len(scored)].feature = target
  THEN [scored EXCEPT ![Len(scored)].score = score]
  ELSE Append(scored, Entry(target, score))

\* mergeOne: the entry at the back, or a new one behind it
MergeOne(target, score) ==
  IF scored[Len(scored)].feature = target
  THEN [scored EXCEPT ![Len(scored)].score = @ + score]
  ELSE Append(scored, Entry(target, score))

SumTo(f, n) ==
  LET sum[i \in 0 .. n] == IF i = 0 THEN 0 ELSE sum[i - 1] + f[i]
  IN sum[n]

\* The sum of f over the entries
SumEntries(f(_)) == SumTo([i \in DOMAIN scored |-> f(scored[i].score)], Len(scored))

NumGold == SumEntries(LAMBDA score : IF score > 0 THEN score ELSE 0)
NumTop == SumEntries(LAMBDA score : IF score > 0 THEN 0 ELSE -score)

Factor(sign, num, den) == [sign |-> sign, num |-> num, den |-> den]

\* Mutation of WeightOf: without the second case.
WeightOfTop(gold, top) ==
  IF top = 0 THEN Factor("negative", 1, 1) ELSE Factor("negative", gold, top)

\* The scores of the top path are multiplied by numGold / numTop, those of the
\* gold path by the inverse when that quotient is greater than two.
WeightOf(gold, top) ==
  CASE top = 0 -> Factor("negative", 1, 1)
    [] top > 0 /\ gold > 2 * top -> Factor("positive", top, gold)
    [] OTHER -> Factor("negative", gold, top)

-------------------------------------------------------------------------------

Init ==
  /\ goldFeatures \in SeqsOver(RawFeatures)
  /\ top1Features \in SeqsOver(RawFeatures)
  /\ goldPos = 0
  /\ topPos = 0
  /\ scored = <<Entry(0, 0)>>
  /\ weight = Factor("negative", 1, 1)
  /\ stage = "masked"

MaskAndSort ==
  /\ stage = "masked"
  /\ goldFeatures' \in Sorted(Masked(goldFeatures))
  /\ top1Features' \in Sorted(Masked(top1Features))
  /\ stage' = "merge"
  /\ UNCHANGED <<goldPos, topPos, scored, weight>>

GoldEl == goldFeatures[goldPos + 1]
TopEl == top1Features[topPos + 1]
GoldLeft == goldPos < Len(goldFeatures)
TopLeft == topPos < Len(top1Features)

SkipEqual ==
  /\ stage = "merge"
  /\ GoldLeft /\ TopLeft
  /\ GoldEl = TopEl
  /\ goldPos' = goldPos + 1
  /\ topPos' = topPos + 1
  /\ UNCHANGED <<goldFeatures, top1Features, scored, weight, stage>>

TakeGold ==
  /\ stage = "merge"
  /\ GoldLeft /\ TopLeft
  /\ GoldEl < TopEl
  /\ scored' = MergeOne(GoldEl, 1)
  /\ goldPos' = goldPos + 1
  /\ UNCHANGED <<goldFeatures, top1Features, topPos, weight, stage>>

TakeTop ==
  /\ stage = "merge"
  /\ GoldLeft /\ TopLeft
  /\ GoldEl > TopEl
  /\ scored' = MergeOne(TopEl, -1)
  /\ topPos' = topPos + 1
  /\ UNCHANGED <<goldFeatures, top1Features, goldPos, weight, stage>>

EndMerge ==
  /\ stage = "merge"
  /\ ~(GoldLeft /\ TopLeft)
  /\ stage' = "tails"
  /\ UNCHANGED <<goldFeatures, top1Features, goldPos, topPos, scored, weight>>

TailTop ==
  /\ stage = "tails"
  /\ TopLeft
  /\ scored' = MergeOne(TopEl, 1)
  /\ topPos' = topPos + 1
  /\ UNCHANGED <<goldFeatures, top1Features, goldPos, weight, stage>>

TailGold ==
  /\ stage = "tails"
  /\ ~TopLeft
  /\ GoldLeft
  /\ scored' = MergeOne(GoldEl, -1)
  /\ goldPos' = goldPos + 1
  /\ UNCHANGED <<goldFeatures, top1Features, topPos, weight, stage>>

Rescale ==
  /\ stage = "tails"
  /\ ~TopLeft /\ ~GoldLeft
  /\ weight' = WeightOf(NumGold, NumTop)
  /\ stage' = "done"
  /\ UNCHANGED <<goldFeatures, top1Features, goldPos, topPos, scored>>

Done == stage = "done" /\ UNCHANGED vars

Next == MaskAndSort \/ SkipEqual \/ TakeGold \/ TakeTop \/ EndMerge \/ TailTop \/ TailGold
        \/ Rescale \/ Done

Spec == Init /\ [][Next]_vars

-------------------------------------------------------------------------------

\* The score an entry ends with, as a numerator over weight.den
Weighted(score) ==
  IF (weight.sign = "positive") <=> (score > 0)
  THEN score * weight.num ELSE score * weight.den

TypeOK ==
  /\ {goldFeatures, top1Features} \subseteq
       SeqsOver(IF stage = "masked" THEN RawFeatures ELSE Features)
  /\ goldPos \in 0 .. Len(goldFeatures)
  /\ topPos \in 0 .. Len(top1Features)
  /\ scored \in Seq([feature : Features, score : Int])
  /\ scored # <<>>
  /\ weight.sign \in {"positive", "negative"}
  /\ stage \in {"masked", "merge", "tails", "done"}

\* mergeOne looks at the entry at the back only, in the merge and in both
\* tails, yet no feature gets two entries, whatever the hashes collide to.  The
\* update of the weights and of the variances relies on it: the square of a
\* score is not the sum of the squares of its parts.
OneEntryPerFeature ==
  \A i, j \in DOMAIN scored : i < j => scored[i].feature < scored[j].feature

\* The size of a score is by how much the counts of the feature on the two
\* paths differ; a feature both paths have as often has no entry but, for
\* feature zero, the one the list starts with.
ScoresAreDifferences ==
  stage = "done" =>
    \A f \in Features :
      LET diff == Count(goldFeatures, f) - Count(top1Features, f)
          entries == {i \in DOMAIN scored : scored[i].feature = f}
      IN \/ diff = 0 /\ \A i \in entries : scored[i].score = 0 /\ i = 1
         \/ diff # 0 /\ \E i \in entries : scored[i].score \in {diff, -diff}

\* The quotient never divides by zero.  When there are scores of both signs,
\* those of either sign weigh the same after the multiplication, and no score
\* has more than doubled.
BalancedUpdate ==
  stage = "done" =>
    /\ weight.den > 0
    /\ NumGold > 0 /\ NumTop > 0 => SumEntries(Weighted) = 0
    /\ \A i \in DOMAIN scored :
         LET size == IF scored[i].score < 0 THEN -1 ELSE 1
         IN size * Weighted(scored[i].score) <= size * 2 * weight.den * scored[i].score

\* What the names numGold and numTop say of the signs: a feature the gold path
\* has more often has a positive score, one the top path has more often a
\* negative score, so that the update favours the gold path.
PositiveIsGold ==
  stage = "done" =>
    \A i \in DOMAIN scored :
      LET f == scored[i].feature
      IN scored[i].score > 0 => Count(goldFeatures, f) > Count(top1Features, f)
===============================================================================
