------------------------------ MODULE Comparison ------------------------------
(***************************************************************************)
(* How far the best path is from the annotated one: LossCalculator         *)
(* (core/training/loss.cc and loss.h) after the lattice has been scored.   *)
(* computeComparison walks the two segmentations of the sentence from left *)
(* to right and records a step for every boundary at which either has a    *)
(* word; fallOffBeam and maxViolation say up to which step features are    *)
(* compared (Trainer::computeTrainingLoss); computeLoss adds up the        *)
(* mismatches and collects the n-grams of the steps that are in error.     *)
(*                                                                         *)
(* A node carries its values of the training fields (data); a step is      *)
(* described with the numbers of its nodes, 0 where it has none.           *)
(***************************************************************************)
EXTENDS BeamSearch

CONSTANTS FieldWeights,   \* TrainingSpec::fields: the weight of each field
          Modes           \* TrainingMode

\* Some field makes a difference.
ASSUME ComparisonConstants ==
  /\ FieldWeights \in Seq(Nat)
  /\ \E f \in DOMAIN FieldWeights : FieldWeights[f] > 0
  /\ Modes \subseteq {"Full", "FalloffBeam", "MaxViolation"}

VARIABLES gold,        \* GoldenPath: the annotated words, first one first
          mode,        \* TrainingConfig::mode
          comparison,  \* the steps recorded
          curTop, curGold,  \* words of either path that are behind
          loss,        \* sum of the mismatch weights, -1 before computeLoss
          goldFeatures, top1Features  \* the n-grams collected, as trigrams

lossVars == <<gold, mode, comparison, curTop, curGold, loss, goldFeatures, top1Features>>

-------------------------------------------------------------------------------
(* The two paths                                                           *)

\* The words before each beam element with their places in the beams, first one
\* first
Places ==
  LET walk[r \in 1 .. Eos] ==
        [k \in DOMAIN beams[r] |->
           IF Start(r) = 0 THEN <<>>
           ELSE Append(walk[beams[r][k].left][beams[r][k].beam],
                       [node |-> beams[r][k].left, beam |-> beams[r][k].beam])]
  IN walk

\* The words of the best path
Top1 == Places[Eos][1]

TopElement == beams[Top1[curTop + 1].node][Top1[curTop + 1].beam]

GoldNode(i) == CASE i = -2 -> -1 [] i = -1 -> Bos [] i = Len(gold) -> Eos [] OTHER -> gold[i + 1]

GoldTrigram(i) == <<GoldNode(i - 2), GoldNode(i - 1), GoldNode(i)>>

\* computeGoldScores: the partial sums of the scores of the gold nodes
GoldScores ==
  [i \in 0 .. Len(gold) |-> SumTo([j \in 1 .. i + 1 |-> lat.score[GoldTrigram(j - 1)]], i + 1)]

HasNextTop == curTop < Len(Top1)
HasNextGold == curGold < Len(gold)
TopBoundary == IF HasNextTop THEN Start(Top1[curTop + 1].node) ELSE lat.n
GoldBoundary == IF HasNextGold THEN Start(gold[curGold + 1]) ELSE lat.n

\* Mutation of LastGoldScore: that of the gold word met next.
NextGoldScore == IF curGold = 0 THEN 0 ELSE GoldScores[curGold]

\* The score of the gold word met last
LastGoldScore == IF curGold = 0 THEN 0 ELSE GoldScores[curGold - 1]

\* The training fields in which a node differs from another
Mismatches(x, y) ==
  {f \in DOMAIN FieldWeights : lat.nodes[x].data[f] # lat.nodes[y].data[f]}

WeightOf(fields) ==
  SumTo([f \in DOMAIN FieldWeights |-> IF f \in fields THEN FieldWeights[f] ELSE 0],
        Len(FieldWeights))
FullWeight == WeightOf(DOMAIN FieldWeights)

\* Mutation of GoldStillInBeam: only the best element of the beam counts.
GoldAtTopOfBeam(r, i) == i = 0 \/ beams[r][1].left = gold[i]

\* isGoldStillInBeam: some way to the gold node comes from the one before it.
GoldStillInBeam(r, i) ==
  i = 0 \/ \E k \in DOMAIN beams[r] : beams[r][k].left = gold[i]

Step(class, boundary, top, goldNode) ==
  [class |-> class, boundary |-> boundary, top |-> top, gold |-> goldNode,
   topTrigram |-> <<>>, numGold |-> -1, lastGoldScore |-> 0, violation |-> 0,
   mismatches |-> 0, weight |-> 0, goldInBeam |-> FALSE]

\* Mutation of TrigramOf: the best way to the left node, not the element's own.
TrigramOfTop(el, r) == <<beams[el.left][1].left, el.left, r>>

\* The n-gram context of a beam element
TrigramOf(el, r) == <<beams[el.left][el.beam].left, el.left, r>>

-------------------------------------------------------------------------------

\* Only full training compares; the annotated words are among the nodes.
CompareInit ==
  /\ IF lat.user = "fullTraining" THEN gold \in {Reverse(h) : h \in Histories[Eos]} /\ mode \in Modes
     ELSE gold = <<>> /\ mode = "None"
  /\ comparison = <<>>
  /\ curTop = 0
  /\ curGold = 0
  /\ loss = -1
  /\ goldFeatures = <<>>
  /\ top1Features = <<>>

Training == pc = "done" /\ lat.user = "fullTraining" /\ loss = -1

Comparing == Training /\ (HasNextTop \/ HasNextGold)

\* Mutation of Order: the top path goes on until it is past the gold word.
TopRunsAhead(g, t) ==
  CASE g >= t /\ HasNextTop -> "TopOnly" [] g = t -> "Both" [] OTHER -> "GoldOnly"

\* Which path has the next boundary
Order(g, t) == CASE g = t -> "Both" [] g > t -> "TopOnly" [] OTHER -> "GoldOnly"

\* The boundaries match: the words there are compared field by field.
CompareBoth ==
  /\ Comparing
  /\ Order(GoldBoundary, TopBoundary) = "Both"
  /\ LET top == Top1[curTop + 1].node
         fields == Mismatches(top, GoldNode(curGold))
     IN comparison' = Append(comparison,
          [Step("Both", TopBoundary, top, GoldNode(curGold)) EXCEPT
             !.topTrigram = TrigramOf(TopElement, top),
             !.numGold = curGold,
             !.lastGoldScore = GoldScores[curGold],
             !.violation = TopElement.total - GoldScores[curGold],
             !.mismatches = Cardinality(fields),
             !.weight = WeightOf(fields),
             !.goldInBeam = GoldStillInBeam(GoldNode(curGold), curGold)])
  /\ curTop' = curTop + 1
  /\ curGold' = curGold + 1
  /\ UNCHANGED <<gold, mode, loss, goldFeatures, top1Features>>

CompareTopOnly ==
  /\ Comparing
  /\ Order(GoldBoundary, TopBoundary) = "TopOnly"
  /\ LET top == Top1[curTop + 1].node
     IN comparison' = Append(comparison,
          [Step("TopOnly", TopBoundary, top, 0) EXCEPT
             !.topTrigram = TrigramOf(TopElement, top),
             !.lastGoldScore = LastGoldScore,
             !.violation = TopElement.total - LastGoldScore])
  /\ curTop' = curTop + 1
  /\ UNCHANGED <<gold, mode, curGold, loss, goldFeatures, top1Features>>

CompareGoldOnly ==
  /\ Comparing
  /\ Order(GoldBoundary, TopBoundary) = "GoldOnly"
  /\ comparison' = Append(comparison,
       [Step("GoldOnly", GoldBoundary, 0, GoldNode(curGold)) EXCEPT
          !.numGold = curGold,
          !.lastGoldScore = GoldScores[curGold],
          !.goldInBeam = GoldStillInBeam(GoldNode(curGold), curGold)])
  /\ curGold' = curGold + 1
  /\ UNCHANGED <<gold, mode, curTop, loss, goldFeatures, top1Features>>

EosCompared == comparison # <<>> /\ Last(comparison).boundary = lat.n

\* After the loop: the step for EOS
CompareEos ==
  /\ Training
  /\ ~HasNextTop /\ ~HasNextGold /\ ~EosCompared
  /\ comparison' = Append(comparison,
       [Step("Both", lat.n, Eos, Eos) EXCEPT
          !.topTrigram = TrigramOf(beams[Eos][1], Eos),
          !.numGold = curGold,
          !.lastGoldScore = GoldScores[curGold],
          !.violation = beams[Eos][1].total - GoldScores[curGold],
          !.goldInBeam = GoldStillInBeam(Eos, curGold)])
  /\ UNCHANGED <<gold, mode, curTop, curGold, loss, goldFeatures, top1Features>>

-------------------------------------------------------------------------------
(* The loss, and the steps whose n-grams are collected                     *)

Size == Len(comparison)

\* ComparisonStep::hasError, built with JPP_TRAIN_VIOLATION_INVALID
HasError(s) == s.class # "Both" \/ s.violation > 0 \/ s.mismatches > 0

\* Mutation of TwoBehind: the end of the comparison is ignored.
TwoBehindAnyway(i) == i + 1

\* The index, from zero, two steps behind one numbered from one
TwoBehind(i) == IF i + 1 < Size - 1 THEN i + 1 ELSE Size - 1

OutOfBeam == {i \in 1 .. Size : comparison[i].class # "TopOnly" /\ ~comparison[i].goldInBeam}

\* fallOffBeam
FallOffBeam ==
  IF OutOfBeam = {} THEN Size
  ELSE TwoBehind(CHOOSE i \in OutOfBeam : \A j \in OutOfBeam : i <= j)

\* maxViolation: the first step with the largest violation above zero, or the
\* very first one if there is none
MaxViolation ==
  LET violated == {i \in 1 .. Size : comparison[i].class # "GoldOnly" /\ comparison[i].violation > 0}
      Largest(i) == \A j \in violated : \/ comparison[j].violation < comparison[i].violation
                                        \/ comparison[j].violation = comparison[i].violation /\ i <= j
  IN TwoBehind(IF violated = {} THEN 1 ELSE CHOOSE i \in violated : Largest(i))

\* computeTrainingLoss: how many steps give features
UsedSteps ==
  CASE mode = "Full" -> Size
    [] mode = "FalloffBeam" -> FallOffBeam
    [] mode = "MaxViolation" -> MaxViolation

\* Mutation of StepLoss: fields are counted, not weighed.
StepLossUnweighted(s) == IF s.class = "Both" THEN s.mismatches ELSE FullWeight

StepLoss(s) == IF s.class = "Both" THEN s.weight ELSE FullWeight

\* The values of a function on some of the first n numbers, in order: what a loop
\* over them leaves in the vector it appends to
InOrder(f, n) ==
  LET upTo[i \in 0 .. n] ==
        IF i = 0 THEN <<>>
        ELSE IF i \in DOMAIN f THEN Append(upTo[i - 1], f[i]) ELSE upTo[i - 1]
  IN upTo[n]

\* The steps in error before the end of the used ones, but for those of one path
InError(other) ==
  {i \in 1 .. Size : i <= UsedSteps /\ HasError(comparison[i]) /\ comparison[i].class # other}

\* computeLoss; the quotient by Size * FullWeight is left as it stands.
ComputeLoss ==
  /\ Training /\ EosCompared
  /\ loss' = SumTo([i \in 1 .. Size |-> StepLoss(comparison[i])], Size)
  /\ goldFeatures' =
       InOrder([i \in InError("TopOnly") |-> GoldTrigram(comparison[i].numGold)], Size)
  /\ top1Features' = InOrder([i \in InError("GoldOnly") |-> comparison[i].topTrigram], Size)
  /\ UNCHANGED <<gold, mode, comparison, curTop, curGold>>

CompareStep == CompareBoth \/ CompareTopOnly \/ CompareGoldOnly \/ CompareEos \/ ComputeLoss

-------------------------------------------------------------------------------

\* The words of the best path
TopWords == [i \in DOMAIN Top1 |-> Top1[i].node]

\* The score of a path up to its last word that is at or before a boundary
ScoreUpTo(words, b) ==
  LET nodes == Append(words, Eos)
      k == Cardinality({i \in DOMAIN nodes : Start(nodes[i]) <= b})
  IN IF k = 0 THEN 0 ELSE PathScore(Reverse(SubSeq(nodes, 1, k - 1)), nodes[k])

PathTrigrams(words) ==
  LET all == <<-1, Bos>> \o words \o <<Eos>>
  IN [i \in 1 .. Len(words) + 1 |-> <<all[i], all[i + 1], all[i + 2]>>]

\* The walk over two segmentations of one sentence loses no word of either and
\* meets no boundary twice, whichever path is ahead and however they end.
EveryWordComparedOnce ==
  EosCompared =>
    /\ {comparison[i].top : i \in 1 .. Size} \ {0} = ToSet(TopWords) \cup {Eos}
    /\ {comparison[i].gold : i \in 1 .. Size} \ {0} = ToSet(gold) \cup {Eos}
    /\ \A i, j \in 1 .. Size : i < j => comparison[i].boundary < comparison[j].boundary
    /\ \A i \in 1 .. Size :
         LET s == comparison[i]
         IN /\ \A r \in {s.top, s.gold} \ {0} : Start(r) = s.boundary
            /\ s.class = "Both" <=> s.top # 0 /\ s.gold # 0

\* The violation of a step compares the scores of both paths at the same place:
\* up to the words that start at its boundary or, where the gold path has none,
\* up to the gold word before it.
ViolationsCompareSamePlace ==
  \A i \in 1 .. Size :
    LET s == comparison[i]
    IN /\ s.lastGoldScore = ScoreUpTo(gold, s.boundary)
       /\ s.class # "GoldOnly" =>
            s.violation = ScoreUpTo(TopWords, s.boundary) - ScoreUpTo(gold, s.boundary)

\* The loss is zero exactly if the best path has the segmentation of the
\* annotation and its values in all the training fields that count, and it is
\* less than one: EOS never counts as a mismatch.
LossMeasuresDifference ==
  loss # -1 =>
    /\ 0 <= loss /\ loss < Size * FullWeight
    /\ loss = 0 <=> /\ Len(TopWords) = Len(gold)
                    /\ \A i \in DOMAIN gold :
                         /\ Start(TopWords[i]) = Start(gold[i])
                         /\ \A f \in Mismatches(TopWords[i], gold[i]) : FieldWeights[f] = 0
    /\ \A f \in DOMAIN FieldWeights :
         (\E i \in 1 .. Size : comparison[i].class = "Both" /\ comparison[i].boundary < lat.n
                                /\ f \in Mismatches(comparison[i].top, comparison[i].gold))
           => loss >= FieldWeights[f]

\* As long as the beams hold the gold path up to a word, the step of that word
\* says so: features are never cut off before the gold path is lost.
GoldInBeamIsSeen ==
  \A i \in 1 .. Size :
    LET s == comparison[i]
        way == Reverse(SubSeq(gold, 1, s.numGold))
    IN s.class # "TopOnly" /\ (\E k \in DOMAIN beams[s.gold] : Trace(s.gold, k) = way) => s.goldInBeam

\* Trigrams of a path, in its order and none of them twice
Within(trigrams, words) ==
  \E at \in [DOMAIN trigrams -> 1 .. Len(words) + 1] :
    /\ \A j, k \in DOMAIN trigrams : j < k => at[j] < at[k]
    /\ \A k \in DOMAIN trigrams : trigrams[k] = PathTrigrams(words)[at[k]]

\* Whatever the mode, the features end within the comparison, and the n-grams
\* collected are n-grams of the path they are collected for, each place of the
\* path once: context words come from the same path.
FeaturesOfOwnPath ==
  /\ EosCompared => UsedSteps \in 0 .. Size
  /\ loss # -1 => Within(goldFeatures, gold) /\ Within(top1Features, TopWords)

\* The assertions of SoftConfidenceWeighted::update (scw.cc), that the step
\* sizes are finite: they are not when there is a loss and nothing to update,
\* because the variance of the update is divided by.
LossHasFeatures ==
  loss > 0 => goldFeatures # <<>> \/ top1Features # <<>>
===============================================================================
