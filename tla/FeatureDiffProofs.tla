-------------------------- MODULE FeatureDiffProofs --------------------------
(***************************************************************************)
(* Proofs about FeatureDiff, for all hashes, any size of the weight table  *)
(* and paths of any length: the merge gives every feature one entry, whose *)
(* score is the difference of its counts on the two paths, up to the sign  *)
(* that the tails give it.                                                 *)
(*                                                                         *)
(* mergeOne looks at the entry at the back only.  That is enough because   *)
(* the entry never runs ahead of what is left to merge (BackBehind), which *)
(* needs both lists to be sorted and, in the tails, one of them to be used *)
(* up (OneTail).                                                           *)
(*                                                                         *)
(* The merge gives a feature scores of one sign only, and never meets it   *)
(* again once it has given it a score of the other list (Balance): that is *)
(* why the tails, which use the opposite signs, cannot cancel a score, and *)
(* why no entry but the first can end with a score of zero (NoZero).       *)
(*                                                                         *)
(* The quotient that balances the update comes last: it is that of the     *)
(* sums of the two signs (WeightSet), and what it does to the scores is a  *)
(* fact about sums.                                                        *)
(***************************************************************************)
EXTENDS FeatureDiff, SequenceTheorems, FiniteSetTheorems, WellFoundedInduction, TLAPS

ScoredType == scored \in Seq([feature : Features, score : Int]) /\ scored # <<>>

ListTypes ==
  /\ goldFeatures \in Seq(Nat) /\ top1Features \in Seq(Nat)
  /\ goldPos \in 0 .. Len(goldFeatures) /\ topPos \in 0 .. Len(top1Features)
  /\ stage \in {"masked", "merge", "tails", "done"}

ListsSorted ==
  stage # "masked" =>
    /\ \A i \in DOMAIN goldFeatures : goldFeatures[i] \in Features
    /\ \A i \in DOMAIN top1Features : top1Features[i] \in Features
    /\ IsSorted(goldFeatures) /\ IsSorted(top1Features)

StartOfMerge ==
  stage = "masked" => goldPos = 0 /\ topPos = 0 /\ scored = <<Entry(0, 0)>>

OneTail == stage \in {"tails", "done"} => ~(GoldLeft /\ TopLeft)

Back == scored[Len(scored)].feature

BackBehind ==
  stage # "masked" => /\ GoldLeft => Back <= GoldEl
                      /\ TopLeft => Back <= TopEl

IInv ==
  /\ ScoredType
  /\ ListTypes
  /\ ListsSorted
  /\ StartOfMerge
  /\ OneTail
  /\ BackBehind
  /\ OneEntryPerFeature

-------------------------------------------------------------------------------

\* mergeOne with a target not below the entry at the back keeps the entries in
\* order, and the target is at the back then.
LEMMA MergeKeepsOrder ==
  ASSUME ScoredType, OneEntryPerFeature,
         NEW target \in Features, NEW score \in Int, Back <= target,
         NEW new, new = MergeOne(target, score)
  PROVE  /\ new \in Seq([feature : Features, score : Int])
         /\ new # <<>>
         /\ new[Len(new)].feature = target
         /\ \A i, j \in DOMAIN new : i < j => new[i].feature < new[j].feature
<1> DEFINE n == Len(scored)
<1> DEFINE Rec == [feature : Features, score : Int]
<1>0. scored \in Seq(Rec) /\ scored # <<>>
  BY DEF ScoredType
<1>1. n \in Nat \ {0} /\ DOMAIN scored = 1 .. n /\ \A i \in 1 .. n : scored[i] \in Rec
  <2> HIDE DEF Rec
  <2> QED
    BY <1>0, LenProperties, EmptySeq, ElementOfSeq
<1>2. Features \subseteq Int
  BY DEF Features
<1>9. /\ \A i \in 1 .. n : scored[i].feature \in Features
      /\ \A i, j \in 1 .. n : i < j => scored[i].feature < scored[j].feature
  BY <1>1 DEF OneEntryPerFeature
<1>5. n \in Nat \ {0} /\ Back = scored[n].feature
  BY <1>1 DEF Back
<1>3. CASE Back = target
  <2> DEFINE e == [scored[n] EXCEPT !.score = @ + score]
  <2>1. new = [scored EXCEPT ![n] = e]
    BY <1>3, <1>1 DEF MergeOne, Back
  <2>2. e \in [feature : Features, score : Int] /\ e.feature = target
    BY <1>3, <1>1 DEF Back
  <2> HIDE DEF e
  <2>3. /\ new \in Seq(Rec)
        /\ Len(new) = n /\ DOMAIN new = 1 .. n
        /\ new[n] = e /\ \A i \in 1 .. n - 1 : new[i] = scored[i]
    <3>1. e \in Rec
      BY <2>2
    <3> HIDE DEF Rec, n
    <3>2. n = Len(scored) /\ n \in 1 .. n
      BY <1>1 DEF n
    <3> QED
      BY <2>1, <3>1, <3>2, <1>0, <1>1, ExceptSeq
  <2>4. \A i \in 1 .. n : new[i].feature = scored[i].feature
    BY <2>3, <2>2, <1>1, <1>3 DEF Back
  <2> QED
    BY <2>2, <2>3, <2>4, <1>1 DEF OneEntryPerFeature
<1>4. CASE Back # target
  <2>1. new = Append(scored, Entry(target, score))
    BY <1>4 DEF MergeOne, Back
  <2>2. Entry(target, score) \in [feature : Features, score : Int]
        /\ Entry(target, score).feature = target
    BY DEF Entry
  <2>3. /\ new \in Seq([feature : Features, score : Int])
        /\ Len(new) = n + 1 /\ DOMAIN new = 1 .. n + 1
        /\ new[n + 1] = Entry(target, score) /\ \A i \in 1 .. n : new[i] = scored[i]
    BY <2>1, <2>2, <1>0, <1>1
  <2>4. Back \in Features /\ Back < target
    <3> HIDE DEF n, Rec
    <3>1. Back \in Features
      BY <1>5, <1>9
    <3> QED
      BY <3>1, <1>2, <1>4
  <2>5. \A i \in 1 .. n : scored[i].feature \in Int /\ scored[i].feature < target
    <3> HIDE DEF n, Rec
    <3> SUFFICES ASSUME NEW i \in 1 .. n
                 PROVE  scored[i].feature \in Int /\ scored[i].feature < target
      OBVIOUS
    <3>1. scored[i].feature \in Int /\ Back \in Int /\ target \in Int
      BY <1>2, <1>9, <2>4
    <3>2. i = n \/ scored[i].feature < Back
      BY <1>5, <1>9
    <3> QED
      BY <3>1, <3>2, <2>4, <1>5
  <2>6. ASSUME NEW i \in 1 .. n + 1, NEW j \in 1 .. n + 1, i < j
        PROVE  new[i].feature < new[j].feature
    <3>1. i \in 1 .. n /\ new[i] = scored[i]
      BY <1>1, <2>3, <2>6
    <3>2. CASE j = n + 1
      BY <2>2, <2>3, <2>5, <3>1, <3>2
    <3>3. CASE j # n + 1
      <4>1. j \in 1 .. n /\ new[j] = scored[j]
        BY <1>1, <2>3, <3>3
      <4> QED
        BY <1>9, <2>6, <3>1, <4>1
    <3> QED
      BY <3>2, <3>3
  <2>7. new # <<>> /\ new[Len(new)].feature = target
    BY <1>1, <2>2, <2>3
  <2> QED
    BY <2>3, <2>6, <2>7
<1> QED
  BY <1>3, <1>4

LEMMA BackIsFeature ==
  ASSUME ScoredType
  PROVE  Back \in Features
<1> DEFINE Rec == [feature : Features, score : Int]
<1>1. scored \in Seq(Rec) /\ scored # <<>>
  BY DEF ScoredType
<1>2. scored[Len(scored)] \in Rec
  <2> HIDE DEF Rec
  <2> QED
    BY <1>1, LenProperties, EmptySeq, ElementOfSeq
<1> QED
  BY <1>2 DEF Back

LEMMA InitHolds == Init => IInv
<1> SUFFICES ASSUME Init PROVE IInv
  OBVIOUS
<1>1. \A s \in SeqsOver(RawFeatures) : s \in Seq(Nat)
  BY FeatureConstants DEF SeqsOver
<1>2. Entry(0, 0) \in [feature : Features, score : Int]
  BY FeatureConstants DEF Entry, Features
<1>3. scored \in Seq([feature : Features, score : Int]) /\ Len(scored) = 1
  BY <1>2 DEF Init
<1>4. ScoredType
  BY <1>3 DEF ScoredType
<1> QED
  BY <1>1, <1>3, <1>4
  DEF Init, IInv, ListTypes, ListsSorted, StartOfMerge, OneTail, BackBehind, OneEntryPerFeature

\* What sort leaves behind
LEMMA SortedLists ==
  ASSUME NEW s \in Seq(Nat), NEW t \in Sorted(Masked(s))
  PROVE  /\ t \in Seq(Nat)
         /\ \A i \in DOMAIN t : t[i] \in Features
         /\ IsSorted(t)
<1>1. \A i \in DOMAIN Masked(s) : Masked(s)[i] \in Features
  BY FeatureConstants DEF Masked, Features
<1>2. IsSorted(t) /\ t \in [1 .. Len(Masked(s)) -> {Masked(s)[i] : i \in DOMAIN Masked(s)}]
  BY DEF Sorted
<1>3. Masked(s) \in Seq(Nat)
  BY FeatureConstants DEF Masked
<1>4. Len(Masked(s)) \in Nat
  BY <1>3
<1>5. \A i \in DOMAIN t : t[i] \in Features
  BY <1>1, <1>2
<1>6. Features \subseteq Nat
  BY DEF Features
<1> QED
  BY <1>2, <1>4, <1>5, <1>6

LEMMA NextKeeps == IInv /\ [Next]_vars => IInv'
<1> SUFFICES ASSUME IInv, [Next]_vars PROVE IInv'
  OBVIOUS
<1> USE DEF IInv
<1>0. Features \subseteq Int
  BY DEF Features
<1>1. CASE MaskAndSort
  <2>1. /\ goldFeatures' \in Seq(Nat) /\ top1Features' \in Seq(Nat)
        /\ \A i \in DOMAIN goldFeatures' : goldFeatures'[i] \in Features
        /\ \A i \in DOMAIN top1Features' : top1Features'[i] \in Features
        /\ IsSorted(goldFeatures') /\ IsSorted(top1Features')
    BY <1>1, SortedLists DEF MaskAndSort, ListTypes
  <2>2. goldPos = 0 /\ topPos = 0 /\ scored = <<Entry(0, 0)>> /\ stage' = "merge"
        /\ UNCHANGED <<goldPos, topPos, scored>>
    BY <1>1 DEF MaskAndSort, StartOfMerge
  <2>3. ListTypes' /\ ListsSorted' /\ StartOfMerge' /\ OneTail'
    BY <2>1, <2>2 DEF ListTypes, ListsSorted, StartOfMerge, OneTail, IsSorted
  <2>4. Back' = 0
    BY <2>2 DEF Back, Entry
  <2>5. BackBehind'
    BY <2>1, <2>2, <2>3, <2>4 DEF BackBehind, GoldLeft, TopLeft, GoldEl, TopEl, Features, ListTypes
  <2>6. ScoredType' /\ OneEntryPerFeature'
    BY <2>2 DEF ScoredType, OneEntryPerFeature
  <2> QED
    BY <2>3, <2>5, <2>6
<1>8. Back \in Int
  BY <1>0, BackIsFeature
<1>2. CASE SkipEqual
  <2>0. IsSorted(goldFeatures) /\ IsSorted(top1Features)
    BY <1>2 DEF SkipEqual, ListsSorted
  <2>1. ScoredType' /\ ListTypes' /\ ListsSorted' /\ StartOfMerge' /\ OneTail' /\ OneEntryPerFeature'
    BY <1>2 DEF SkipEqual, ScoredType, ListTypes, ListsSorted, StartOfMerge, OneTail,
                OneEntryPerFeature, GoldLeft, TopLeft, IsSorted
  <2>2. Back' = Back
    BY <1>2 DEF Back, SkipEqual
  <2>3. GoldLeft' => GoldEl <= GoldEl'
    BY <1>2, <2>0 DEF SkipEqual, ListTypes, IsSorted, GoldLeft, GoldEl
  <2>5. TopLeft' => TopEl <= TopEl'
    BY <1>2, <2>0 DEF SkipEqual, ListTypes, IsSorted, TopLeft, TopEl
  <2>4. BackBehind'
    BY <1>2, <1>0, <1>8, <2>2, <2>3, <2>5 DEF BackBehind, SkipEqual, ListsSorted, ListTypes, GoldLeft, TopLeft, GoldEl, TopEl
  <2> QED
    BY <2>1, <2>4
<1>3. CASE TakeGold \/ TailGold
  <2>1. /\ GoldLeft /\ stage # "masked" /\ stage' = stage
        /\ scored' = MergeOne(GoldEl, 1) \/ scored' = MergeOne(GoldEl, -1)
        /\ goldPos' = goldPos + 1
        /\ UNCHANGED <<goldFeatures, top1Features, topPos>>
        /\ TopLeft => GoldEl < TopEl
    BY <1>3 DEF TakeGold, TailGold
  <2>2. GoldEl \in Features /\ Back <= GoldEl
    BY <2>1 DEF ListsSorted, ListTypes, BackBehind, GoldLeft, GoldEl
  <2>3. ScoredType' /\ OneEntryPerFeature' /\ Back' = GoldEl
    BY <2>1, <2>2, MergeKeepsOrder DEF ScoredType, OneEntryPerFeature, Back
  <2>4. ListTypes' /\ ListsSorted' /\ StartOfMerge' /\ OneTail'
    BY <2>1 DEF ListTypes, ListsSorted, StartOfMerge, OneTail, GoldLeft, TopLeft, IsSorted
  <2>5. GoldLeft' => GoldEl <= GoldEl'
    BY <2>1 DEF ListsSorted, ListTypes, IsSorted, GoldLeft, GoldEl
  <2>6. BackBehind'
    BY <2>1, <2>2, <2>3, <2>5, <1>0
    DEF BackBehind, ListsSorted, ListTypes, GoldLeft, TopLeft, GoldEl, TopEl
  <2> QED
    BY <2>3, <2>4, <2>6
<1>4. CASE TakeTop \/ TailTop
  <2>1. /\ TopLeft /\ stage # "masked" /\ stage' = stage
        /\ scored' = MergeOne(TopEl, 1) \/ scored' = MergeOne(TopEl, -1)
        /\ topPos' = topPos + 1
        /\ UNCHANGED <<goldFeatures, top1Features, goldPos>>
        /\ GoldLeft => GoldEl > TopEl
    BY <1>4 DEF TakeTop, TailTop, OneTail
  <2>2. TopEl \in Features /\ Back <= TopEl
    BY <2>1 DEF ListsSorted, ListTypes, BackBehind, TopLeft, TopEl
  <2>3. ScoredType' /\ OneEntryPerFeature' /\ Back' = TopEl
    BY <2>1, <2>2, MergeKeepsOrder DEF ScoredType, OneEntryPerFeature, Back
  <2>4. ListTypes' /\ ListsSorted' /\ StartOfMerge' /\ OneTail'
    BY <2>1 DEF ListTypes, ListsSorted, StartOfMerge, OneTail, GoldLeft, TopLeft, IsSorted
  <2>5. TopLeft' => TopEl <= TopEl'
    BY <2>1 DEF ListsSorted, ListTypes, IsSorted, TopLeft, TopEl
  <2>6. BackBehind'
    BY <2>1, <2>2, <2>3, <2>5, <1>0
    DEF BackBehind, ListsSorted, ListTypes, GoldLeft, TopLeft, GoldEl, TopEl
  <2> QED
    BY <2>3, <2>4, <2>6
<1>5. CASE EndMerge
  BY <1>5 DEF EndMerge, ScoredType, ListTypes, ListsSorted, StartOfMerge, OneTail,
              BackBehind, OneEntryPerFeature, GoldLeft, TopLeft, GoldEl, TopEl, Back
<1>6. CASE Rescale
  BY <1>6 DEF Rescale, ScoredType, ListTypes, ListsSorted, StartOfMerge, OneTail,
              BackBehind, OneEntryPerFeature, GoldLeft, TopLeft, GoldEl, TopEl, Back
<1>7. CASE Done \/ UNCHANGED vars
  BY <1>7 DEF Done, vars, ScoredType, ListTypes, ListsSorted, StartOfMerge, OneTail,
              BackBehind, OneEntryPerFeature, GoldLeft, TopLeft, GoldEl, TopEl, Back
<1> QED
  BY <1>1, <1>2, <1>3, <1>4, <1>5, <1>6, <1>7 DEF Next

\* Whatever the features of the two paths and however their hashes collide,
\* computeFeatureDiff lists every feature once, in increasing order.
THEOREM EntriesAreUnique == Spec => []OneEntryPerFeature
<1>1. IInv => OneEntryPerFeature
  BY DEF IInv
<1> QED
  BY <1>1, InitHolds, NextKeeps, PTL DEF Spec

-------------------------------------------------------------------------------

\* Masking and sorting keep the length of a list of features.
LEMMA SortedLength ==
  ASSUME NEW s \in SeqsOver(RawFeatures), NEW t \in Sorted(Masked(s))
  PROVE  t \in SeqsOver(Features)
<1>1. PICK n \in Lengths : s \in [1 .. n -> RawFeatures]
  BY DEF SeqsOver
<1>2. n \in Nat
  BY FeatureConstants
<1>3. Masked(s) \in [1 .. n -> Features]
  <2>1. \A r \in RawFeatures : r % NumFeatures \in Features
    BY FeatureConstants DEF Features
  <2>2. DOMAIN s = 1 .. n /\ \A i \in 1 .. n : s[i] \in RawFeatures
    BY <1>1
  <2>3. Masked(s) = [i \in 1 .. n |-> s[i] % NumFeatures]
    BY <2>2 DEF Masked
  <2> QED
    BY <2>1, <2>2, <2>3
<1>4. Len(Masked(s)) = n /\ DOMAIN Masked(s) = 1 .. n
  BY <1>2, <1>3
<1>5. t \in [1 .. n -> {Masked(s)[i] : i \in 1 .. n}]
  BY <1>4 DEF Sorted
<1>6. \A i \in 1 .. n : Masked(s)[i] \in Features
  BY <1>3
<1>7. t \in [1 .. n -> Features]
  BY <1>5, <1>6
<1> QED
  BY <1>1, <1>7 DEF SeqsOver

LEMMA TypesNext == IInv /\ TypeOK /\ [Next]_vars => TypeOK'
<1> SUFFICES ASSUME IInv, TypeOK, [Next]_vars PROVE TypeOK'
  OBVIOUS
<1>1. IInv'
  BY NextKeeps
<1>2. {goldFeatures', top1Features'} \subseteq
        SeqsOver(IF stage' = "masked" THEN RawFeatures ELSE Features)
  <2>1. CASE MaskAndSort
    BY <2>1, SortedLength DEF MaskAndSort, TypeOK
  <2>2. CASE ~MaskAndSort
    <3>1. /\ goldFeatures' = goldFeatures /\ top1Features' = top1Features
          /\ stage' = "masked" <=> stage = "masked"
      BY <2>2 DEF Next, vars, SkipEqual, TakeGold, TakeTop, EndMerge, TailTop, TailGold, Rescale, Done
    <3> QED
      BY <3>1 DEF TypeOK
  <2> QED
    BY <2>1, <2>2
<1>3. weight'.sign \in {"positive", "negative"}
  <2>1. weight' = weight \/ weight' = WeightOf(NumGold, NumTop)
    BY DEF Next, vars, MaskAndSort, SkipEqual, TakeGold, TakeTop, EndMerge, TailTop, TailGold,
           Rescale, Done
  <2>2. WeightOf(NumGold, NumTop).sign \in {"positive", "negative"}
    BY DEF WeightOf, Factor
  <2> QED
    BY <2>1, <2>2 DEF TypeOK
<1> QED
  BY <1>1, <1>2, <1>3 DEF TypeOK, IInv, ListTypes, ScoredType

\* The state keeps its types, whatever the hashes and the lengths of the paths:
\* in particular no position of the merge runs past the end of its list.
THEOREM FeatureTypes == Spec => []TypeOK
<1>1. Init => TypeOK
  <2> SUFFICES ASSUME Init PROVE TypeOK
    OBVIOUS
  <2>1. IInv
    BY InitHolds
  <2> QED
    BY <2>1 DEF Init, TypeOK, IInv, ListTypes, ScoredType, Factor
<1> QED
  BY <1>1, InitHolds, NextKeeps, TypesNext, PTL DEF Spec

-------------------------------------------------------------------------------
(* Scores                                                                     *)

\* The score of the entry of a feature in a list, zero if it has none
ScoreIn(list, f) ==
  IF \E i \in DOMAIN list : list[i].feature = f
  THEN list[CHOOSE i \in DOMAIN list : list[i].feature = f].score
  ELSE 0

ScoreOf(f) == ScoreIn(scored, f)

\* How often the merge has met a feature on either path
InGold(f) == CountIn(goldFeatures, goldPos, f)
InTop(f) == CountIn(top1Features, topPos, f)

\* The merge will not meet the feature in this list any more.
GoldPast(f) == GoldLeft => GoldEl > f
TopPast(f) == TopLeft => TopEl > f

\* What the merge owes to a feature at any moment
BalanceOf(f) ==
  /\ \/ ScoreOf(f) = InGold(f) - InTop(f)
     \/ stage # "merge" /\ ScoreOf(f) = InTop(f) - InGold(f)
  /\ InGold(f) > InTop(f) => TopPast(f)
  /\ InTop(f) > InGold(f) => GoldPast(f)
  /\ InGold(f) > InTop(f) /\ ScoreOf(f) = InGold(f) - InTop(f) =>
       (TopLeft /\ TopEl > f) \/ GoldPast(f)
  /\ InTop(f) > InGold(f) /\ ScoreOf(f) = InGold(f) - InTop(f) =>
       (GoldLeft /\ GoldEl > f) \/ TopPast(f)

Balance == stage # "masked" => \A f \in Features : BalanceOf(f)

NoZero == \A i \in DOMAIN scored : scored[i].score = 0 => i = 1

AllConsumed == stage = "done" => ~GoldLeft /\ ~TopLeft

SInv == IInv /\ Balance /\ NoZero /\ AllConsumed

-------------------------------------------------------------------------------

\* Counting one element further
LEMMA CountStep ==
  ASSUME NEW s, NEW n \in Nat, NEW f
  PROVE  /\ CountIn(s, n, f) \in Nat
         /\ CountIn(s, 0, f) = 0
         /\ CountIn(s, n + 1, f) = CountIn(s, n, f) + (IF s[n + 1] = f THEN 1 ELSE 0)
<1> DEFINE At(m) == {i \in 1 .. m : s[i] = f}
<1>1. IsFiniteSet(At(n))
  <2>1. IsFiniteSet(1 .. n) /\ At(n) \in SUBSET (1 .. n)
    BY FS_Interval
  <2> QED
    BY <2>1, FS_Subset
<1>2. Cardinality(At(n)) \in Nat
  BY <1>1, FS_CardinalityType
<1>3. At(0) = {}
  OBVIOUS
<1>6. /\ CountIn(s, n, f) = Cardinality(At(n))
      /\ CountIn(s, n + 1, f) = Cardinality(At(n + 1))
      /\ CountIn(s, 0, f) = 0
  BY <1>3, FS_EmptySet DEF CountIn
<1>4. CASE s[n + 1] = f
  <2>1. At(n + 1) = At(n) \cup {n + 1} /\ n + 1 \notin At(n)
    BY <1>4
  <2>2. Cardinality(At(n + 1)) = Cardinality(At(n)) + 1
    BY <1>1, <2>1, FS_AddElement
  <2> QED
    BY <1>2, <1>4, <1>6, <2>2
<1>5. CASE s[n + 1] # f
  <2>1. At(n + 1) = At(n)
    BY <1>5
  <2> QED
    BY <1>2, <1>5, <1>6, <2>1
<1> QED
  BY <1>4, <1>5

LEMMA EntryTypes ==
  ASSUME ScoredType
  PROVE  /\ Len(scored) \in Nat \ {0} /\ DOMAIN scored = 1 .. Len(scored)
         /\ \A i \in DOMAIN scored : scored[i].feature \in Features /\ scored[i].score \in Int
         /\ \A i \in DOMAIN scored : scored[i] = Entry(scored[i].feature, scored[i].score)
<1> DEFINE Rec == [feature : Features, score : Int]
<1>1. scored \in Seq(Rec) /\ scored # <<>>
  BY DEF ScoredType
<1>2. Len(scored) \in Nat \ {0} /\ DOMAIN scored = 1 .. Len(scored)
      /\ \A i \in DOMAIN scored : scored[i] \in Rec
  <2> HIDE DEF Rec
  <2> QED
    BY <1>1, LenProperties, EmptySeq, ElementOfSeq
<1> QED
  BY <1>2 DEF Entry

\* The only entry of a feature has its score.
LEMMA ScoreOfEntry ==
  ASSUME NEW list, NEW i \in DOMAIN list,
         \A j \in DOMAIN list : list[j].feature = list[i].feature => j = i
  PROVE  ScoreIn(list, list[i].feature) = list[i].score
<1> DEFINE c == CHOOSE j \in DOMAIN list : list[j].feature = list[i].feature
<1>1. c \in DOMAIN list /\ list[c].feature = list[i].feature
  OBVIOUS
<1>2. c = i
  BY <1>1
<1> QED
  BY <1>2 DEF ScoreIn

\* Entries in increasing order of their features are the only ones of theirs.
LEMMA OnlyEntry ==
  ASSUME ScoredType, OneEntryPerFeature, NEW i \in DOMAIN scored
  PROVE  \A j \in DOMAIN scored : scored[j].feature = scored[i].feature => j = i
<1> SUFFICES ASSUME NEW j \in DOMAIN scored, scored[j].feature = scored[i].feature, j # i
             PROVE  FALSE
  OBVIOUS
<1>1. i \in Int /\ j \in Int /\ scored[i].feature \in Int
  BY EntryTypes DEF Features
<1> QED
  BY <1>1 DEF OneEntryPerFeature

\* What mergeOne leaves behind, position by position
LEMMA MergeShape ==
  ASSUME ScoredType, NEW target \in Features, NEW score \in Int,
         scored' = MergeOne(target, score)
  PROVE  \/ /\ Back = target
            /\ DOMAIN scored' = DOMAIN scored
            /\ \A i \in DOMAIN scored :
                 /\ scored'[i].feature = scored[i].feature
                 /\ scored'[i].score =
                      IF i = Len(scored) THEN scored[i].score + score ELSE scored[i].score
         \/ /\ Back # target
            /\ DOMAIN scored' = DOMAIN scored \cup {Len(scored) + 1}
            /\ \A i \in DOMAIN scored : scored'[i] = scored[i]
            /\ scored'[Len(scored) + 1].feature = target
            /\ scored'[Len(scored) + 1].score = score
<1>1. CASE Back = target
  <2>1. scored' = [scored EXCEPT ![Len(scored)] = [scored[Len(scored)] EXCEPT !.score = @ + score]]
    BY <1>1 DEF MergeOne, Back
  <2>2. scored[Len(scored)] = Entry(scored[Len(scored)].feature, scored[Len(scored)].score)
    BY EntryTypes
  <2>3. DOMAIN scored' = DOMAIN scored
    BY <2>1
  <2>4. ASSUME NEW i \in DOMAIN scored
        PROVE  /\ scored'[i].feature = scored[i].feature
               /\ scored'[i].score =
                    IF i = Len(scored) THEN scored[i].score + score ELSE scored[i].score
    BY <2>1, <2>2 DEF Entry
  <2> QED
    BY <1>1, <2>3, <2>4
<1>2. CASE Back # target
  <2>1. scored' = Append(scored, Entry(target, score))
    BY <1>2 DEF MergeOne, Back
  <2>2. scored \in Seq([feature : Features, score : Int])
    BY DEF ScoredType
  <2>3. /\ DOMAIN scored' = DOMAIN scored \cup {Len(scored) + 1}
        /\ \A i \in DOMAIN scored : scored'[i] = scored[i]
        /\ scored'[Len(scored) + 1] = Entry(target, score)
    BY <2>1, <2>2
  <2> QED
    BY <1>2, <2>3 DEF Entry
<1> QED
  BY <1>1, <1>2

\* mergeOne adds to the score of its target and to no other.
LEMMA MergeEffect ==
  ASSUME ScoredType, OneEntryPerFeature,
         NEW target \in Features, NEW score \in Int, Back <= target,
         scored' = MergeOne(target, score)
  PROVE  /\ ScoreOf(target)' = ScoreOf(target) + score
         /\ \A f \in Features \ {target} : ScoreOf(f)' = ScoreOf(f)
         /\ NoZero /\ ScoreOf(target) + score # 0 => NoZero'
<1> DEFINE n == Len(scored)
<1>1. /\ n \in Nat \ {0} /\ DOMAIN scored = 1 .. n
      /\ \A i \in DOMAIN scored : scored[i].feature \in Int /\ scored[i].score \in Int
      /\ target \in Int
  BY EntryTypes DEF Features
<1>2. \A i, j \in DOMAIN scored : scored[j].feature = scored[i].feature => j = i
  BY OnlyEntry
<1>3. \A i \in DOMAIN scored : ScoreIn(scored, scored[i].feature) = scored[i].score
  BY <1>2, ScoreOfEntry
<1>4. CASE Back = target
  <2>1. /\ DOMAIN scored' = DOMAIN scored
        /\ \A i \in DOMAIN scored :
             /\ scored'[i].feature = scored[i].feature
             /\ scored'[i].score = IF i = n THEN scored[i].score + score ELSE scored[i].score
    BY <1>4, MergeShape
  <2>2. \A i \in DOMAIN scored' : ScoreIn(scored', scored'[i].feature) = scored'[i].score
    <3>1. \A i, j \in DOMAIN scored' : scored'[j].feature = scored'[i].feature => j = i
      BY <1>2, <2>1
    <3> QED
      BY <3>1, ScoreOfEntry
  <2>3. n \in DOMAIN scored /\ scored[n].feature = target
    BY <1>1, <1>4 DEF Back
  <2>4. ScoreIn(scored', target) = ScoreIn(scored, target) + score
    BY <1>3, <2>1, <2>2, <2>3
  <2>5. ASSUME NEW f \in Features \ {target}
        PROVE  ScoreIn(scored', f) = ScoreIn(scored, f)
    <3>1. CASE \E i \in DOMAIN scored : scored[i].feature = f
      <4>1. PICK i \in DOMAIN scored : scored[i].feature = f
        BY <3>1
      <4>2. i # n
        BY <2>3, <2>5, <4>1
      <4> QED
        BY <1>3, <2>1, <2>2, <4>1, <4>2
    <3>2. CASE ~ \E i \in DOMAIN scored : scored[i].feature = f
      BY <2>1, <3>2 DEF ScoreIn
    <3> QED
      BY <3>1, <3>2
  <2>6. ScoreIn(scored, target) = scored[n].score
    BY <1>3, <2>3
  <2>7. NoZero /\ ScoreIn(scored, target) + score # 0 => NoZero'
    BY <2>1, <2>6 DEF NoZero
  <2> QED
    BY <2>4, <2>5, <2>7 DEF ScoreOf
<1>5. CASE Back # target
  <2>1. /\ DOMAIN scored' = DOMAIN scored \cup {n + 1}
        /\ \A i \in DOMAIN scored : scored'[i] = scored[i]
        /\ scored'[n + 1].feature = target /\ scored'[n + 1].score = score
    BY <1>5, MergeShape
  <2>2. ASSUME NEW i \in DOMAIN scored
        PROVE  scored[i].feature # target
    <3>1. scored[n].feature < target /\ n \in DOMAIN scored
      BY <1>1, <1>5 DEF Back
    <3>2. i = n \/ scored[i].feature < scored[n].feature
      BY <1>1, <3>1 DEF OneEntryPerFeature
    <3> QED
      BY <1>1, <3>1, <3>2
  <2>3. \A i, j \in DOMAIN scored' : scored'[j].feature = scored'[i].feature => j = i
    BY <1>2, <2>1, <2>2
  <2>4. \A i \in DOMAIN scored' : ScoreIn(scored', scored'[i].feature) = scored'[i].score
    BY <2>3, ScoreOfEntry
  <2>5. ScoreIn(scored, target) = 0 /\ ScoreIn(scored', target) = score
    <3>1. ScoreIn(scored, target) = 0
      BY <2>2 DEF ScoreIn
    <3>2. n + 1 \in DOMAIN scored'
      BY <2>1
    <3> QED
      BY <2>1, <2>4, <3>1, <3>2
  <2>6. ASSUME NEW f \in Features \ {target}
        PROVE  ScoreIn(scored', f) = ScoreIn(scored, f)
    <3>1. CASE \E i \in DOMAIN scored : scored[i].feature = f
      <4>1. PICK i \in DOMAIN scored : scored[i].feature = f
        BY <3>1
      <4> QED
        BY <1>3, <2>1, <2>4, <4>1
    <3>2. CASE ~ \E i \in DOMAIN scored : scored[i].feature = f
      <4>1. ~ \E i \in DOMAIN scored' : scored'[i].feature = f
        BY <2>1, <2>6, <3>2
      <4> QED
        BY <3>2, <4>1 DEF ScoreIn
    <3> QED
      BY <3>1, <3>2
  <2>7. NoZero /\ ScoreIn(scored, target) + score # 0 => NoZero'
    BY <2>1, <2>5 DEF NoZero
  <2> QED
    BY <2>5, <2>6, <2>7 DEF ScoreOf
<1> QED
  BY <1>4, <1>5

-------------------------------------------------------------------------------

LEMMA MergeTypes ==
  ASSUME IInv, NEW f \in Features
  PROVE  /\ f \in Int /\ InGold(f) \in Nat /\ InTop(f) \in Nat /\ ScoreOf(f) \in Int
         /\ stage # "masked" /\ GoldLeft => GoldEl \in Features /\ GoldEl \in Int /\ Back <= GoldEl
         /\ stage # "masked" /\ TopLeft => TopEl \in Features /\ TopEl \in Int /\ Back <= TopEl
<1> USE DEF IInv
<1>1. f \in Int
  BY DEF Features
<1>2. InGold(f) \in Nat /\ InTop(f) \in Nat
  BY CountStep DEF InGold, InTop, ListTypes
<1>3. ScoreOf(f) \in Int
  <2>1. CASE \E i \in DOMAIN scored : scored[i].feature = f
    BY <2>1, EntryTypes DEF ScoreOf, ScoreIn
  <2>2. CASE ~ \E i \in DOMAIN scored : scored[i].feature = f
    BY <2>2 DEF ScoreOf, ScoreIn
  <2> QED
    BY <2>1, <2>2
<1>4. stage # "masked" /\ GoldLeft => GoldEl \in Features /\ GoldEl \in Int /\ Back <= GoldEl
  BY DEF ListTypes, ListsSorted, BackBehind, GoldLeft, GoldEl, Features
<1>5. stage # "masked" /\ TopLeft => TopEl \in Features /\ TopEl \in Int /\ Back <= TopEl
  BY DEF ListTypes, ListsSorted, BackBehind, TopLeft, TopEl, Features
<1> QED
  BY <1>1, <1>2, <1>3, <1>4, <1>5

\* One element of the gold list is consumed.
LEMMA GoldStep ==
  ASSUME IInv, stage # "masked", GoldLeft, goldPos' = goldPos + 1, goldFeatures' = goldFeatures
  PROVE  /\ \A f \in Features : InGold(f)' = InGold(f) + (IF GoldEl = f THEN 1 ELSE 0)
         /\ GoldLeft' => GoldEl' \in Int /\ GoldEl <= GoldEl'
<1> USE DEF IInv
<1>1. goldPos \in Nat
  BY DEF ListTypes
<1>2. \A f \in Features :
         CountIn(goldFeatures, goldPos + 1, f)
           = CountIn(goldFeatures, goldPos, f) + (IF goldFeatures[goldPos + 1] = f THEN 1 ELSE 0)
  BY <1>1, CountStep
<1>3. \A f \in Features : InGold(f)' = InGold(f) + (IF GoldEl = f THEN 1 ELSE 0)
  BY <1>2 DEF InGold, GoldEl
<1>4. GoldLeft' => GoldEl' \in Int /\ GoldEl <= GoldEl'
  BY DEF ListTypes, ListsSorted, IsSorted, GoldLeft, GoldEl
<1> QED
  BY <1>3, <1>4

\* One element of the list of the best path is consumed.
LEMMA TopStep ==
  ASSUME IInv, stage # "masked", TopLeft, topPos' = topPos + 1, top1Features' = top1Features
  PROVE  /\ \A f \in Features : InTop(f)' = InTop(f) + (IF TopEl = f THEN 1 ELSE 0)
         /\ TopLeft' => TopEl' \in Int /\ TopEl <= TopEl'
<1> USE DEF IInv
<1>1. topPos \in Nat
  BY DEF ListTypes
<1>2. \A f \in Features :
         CountIn(top1Features, topPos + 1, f)
           = CountIn(top1Features, topPos, f) + (IF top1Features[topPos + 1] = f THEN 1 ELSE 0)
  BY <1>1, CountStep
<1>3. \A f \in Features : InTop(f)' = InTop(f) + (IF TopEl = f THEN 1 ELSE 0)
  BY <1>2 DEF InTop, TopEl
<1>4. TopLeft' => TopEl' \in Int /\ TopEl <= TopEl'
  BY DEF ListTypes, ListsSorted, IsSorted, TopLeft, TopEl
<1> QED
  BY <1>3, <1>4

\* A feature on both paths leaves every difference as it was.
LEMMA SkipBalances ==
  ASSUME IInv, Balance, SkipEqual
  PROVE  Balance'
<1> SUFFICES ASSUME NEW f \in Features PROVE BalanceOf(f)'
  BY DEF Balance
<1>1. /\ stage = "merge" /\ stage' = "merge" /\ GoldLeft /\ TopLeft /\ GoldEl = TopEl
      /\ BalanceOf(f)
  BY DEF SkipEqual, Balance
<1>2. /\ InGold(f)' = InGold(f) + (IF GoldEl = f THEN 1 ELSE 0)
      /\ GoldLeft' => GoldEl' \in Int /\ GoldEl <= GoldEl'
  BY <1>1, GoldStep DEF SkipEqual
<1>3. /\ InTop(f)' = InTop(f) + (IF TopEl = f THEN 1 ELSE 0)
      /\ TopLeft' => TopEl' \in Int /\ TopEl <= TopEl'
  BY <1>1, TopStep DEF SkipEqual
<1>4. ScoreOf(f)' = ScoreOf(f)
  BY DEF SkipEqual, ScoreOf
<1>5. f \in Int /\ InGold(f) \in Nat /\ InTop(f) \in Nat /\ ScoreOf(f) \in Int /\ GoldEl \in Int
  BY <1>1, MergeTypes
<1> QED
  BY <1>1, <1>2, <1>3, <1>4, <1>5 DEF BalanceOf, GoldPast, TopPast

\* A feature of the gold path gets one more.
LEMMA TakeGoldBalances ==
  ASSUME IInv, Balance, NoZero, TakeGold
  PROVE  Balance' /\ NoZero'
<1>1. /\ stage = "merge" /\ stage' = "merge" /\ GoldLeft /\ TopLeft /\ GoldEl < TopEl
      /\ TopLeft' = TopLeft /\ TopEl' = TopEl
      /\ \A f \in Features : BalanceOf(f) /\ InTop(f)' = InTop(f)
  BY DEF TakeGold, Balance, TopLeft, TopEl, InTop
<1>2. /\ \A f \in Features : InGold(f)' = InGold(f) + (IF GoldEl = f THEN 1 ELSE 0)
      /\ GoldLeft' => GoldEl' \in Int /\ GoldEl <= GoldEl'
  BY <1>1, GoldStep DEF TakeGold
<1>3. 0 \in Features
  BY FeatureConstants DEF Features
<1>4. GoldEl \in Features /\ GoldEl \in Int /\ TopEl \in Int /\ Back <= GoldEl
  BY <1>1, <1>3, MergeTypes
<1>5. \A f \in Features :
         f \in Int /\ InGold(f) \in Nat /\ InTop(f) \in Nat /\ ScoreOf(f) \in Int
  BY MergeTypes
<1>6. /\ ScoreOf(GoldEl) = InGold(GoldEl) - InTop(GoldEl)
      /\ ~(InTop(GoldEl) > InGold(GoldEl))
  BY <1>1, <1>4, <1>5 DEF BalanceOf, GoldPast
<1>7. /\ \A f \in Features : ScoreOf(f)' = ScoreOf(f) + (IF GoldEl = f THEN 1 ELSE 0)
      /\ NoZero'
  <2>1. scored' = MergeOne(GoldEl, 1) /\ ScoredType /\ OneEntryPerFeature
    BY DEF TakeGold, IInv
  <2>2. ScoreOf(GoldEl) + 1 # 0
    BY <1>4, <1>5, <1>6
  <2>3. /\ ScoreIn(scored', GoldEl) = ScoreOf(GoldEl) + 1
        /\ \A f \in Features \ {GoldEl} : ScoreIn(scored', f) = ScoreOf(f)
        /\ NoZero'
    BY <1>4, <2>1, <2>2, MergeEffect DEF ScoreOf
  <2>4. ASSUME NEW f \in Features
        PROVE  ScoreIn(scored', f) = ScoreOf(f) + (IF GoldEl = f THEN 1 ELSE 0)
    BY <1>5, <2>3
  <2> QED
    BY <2>3, <2>4 DEF ScoreOf
<1>8. ASSUME NEW f \in Features PROVE BalanceOf(f)'
  BY <1>1, <1>2, <1>4, <1>5, <1>7 DEF BalanceOf, GoldPast, TopPast
<1> QED
  BY <1>7, <1>8 DEF Balance

\* A feature of the best path gets one less.
LEMMA TakeTopBalances ==
  ASSUME IInv, Balance, NoZero, TakeTop
  PROVE  Balance' /\ NoZero'
<1>1. /\ stage = "merge" /\ stage' = "merge" /\ TopLeft /\ GoldLeft /\ GoldEl > TopEl
      /\ GoldLeft' = GoldLeft /\ GoldEl' = GoldEl
      /\ \A f \in Features : BalanceOf(f) /\ InGold(f)' = InGold(f)
  BY DEF TakeTop, Balance, GoldLeft, GoldEl, InGold
<1>2. /\ \A f \in Features : InTop(f)' = InTop(f) + (IF TopEl = f THEN 1 ELSE 0)
      /\ TopLeft' => TopEl' \in Int /\ TopEl <= TopEl'
  BY <1>1, TopStep DEF TakeTop
<1>3. 0 \in Features
  BY FeatureConstants DEF Features
<1>4. TopEl \in Features /\ TopEl \in Int /\ (GoldLeft => GoldEl \in Int) /\ Back <= TopEl
  BY <1>1, <1>3, MergeTypes
<1>5. \A f \in Features :
         f \in Int /\ InGold(f) \in Nat /\ InTop(f) \in Nat /\ ScoreOf(f) \in Int
  BY MergeTypes
<1>6. /\ ScoreOf(TopEl) = InGold(TopEl) - InTop(TopEl)
      /\ ~(InGold(TopEl) > InTop(TopEl))
  BY <1>1, <1>4, <1>5 DEF BalanceOf, GoldPast, TopPast
<1>7. /\ \A f \in Features : ScoreOf(f)' = ScoreOf(f) - (IF TopEl = f THEN 1 ELSE 0)
      /\ NoZero'
  <2>1. scored' = MergeOne(TopEl, -1) /\ ScoredType /\ OneEntryPerFeature
    BY DEF TakeTop, IInv
  <2>2. ScoreOf(TopEl) + (-1) # 0
    BY <1>4, <1>5, <1>6
  <2>3. /\ ScoreIn(scored', TopEl) = ScoreOf(TopEl) + (-1)
        /\ \A f \in Features \ {TopEl} : ScoreIn(scored', f) = ScoreOf(f)
        /\ NoZero'
    BY <1>4, <2>1, <2>2, MergeEffect DEF ScoreOf
  <2>4. ASSUME NEW f \in Features
        PROVE  ScoreIn(scored', f) = ScoreOf(f) - (IF TopEl = f THEN 1 ELSE 0)
    BY <1>5, <2>3
  <2> QED
    BY <2>3, <2>4 DEF ScoreOf
<1>8. ASSUME NEW f \in Features PROVE BalanceOf(f)'
  BY <1>1, <1>2, <1>4, <1>5, <1>6, <1>7 DEF BalanceOf, GoldPast, TopPast
<1> QED
  BY <1>7, <1>8 DEF Balance

\* In the tail of the best path its features get one more: the sign changes.
LEMMA TailTopBalances ==
  ASSUME IInv, Balance, NoZero, TailTop
  PROVE  Balance' /\ NoZero'
<1>1. /\ stage = "tails" /\ stage' = "tails" /\ TopLeft /\ ~GoldLeft
      /\ GoldLeft' = GoldLeft /\ GoldEl' = GoldEl
      /\ \A f \in Features : BalanceOf(f) /\ InGold(f)' = InGold(f)
  BY DEF TailTop, Balance, GoldLeft, GoldEl, InGold, IInv, OneTail
<1>2. /\ \A f \in Features : InTop(f)' = InTop(f) + (IF TopEl = f THEN 1 ELSE 0)
      /\ TopLeft' => TopEl' \in Int /\ TopEl <= TopEl'
  BY <1>1, TopStep DEF TailTop
<1>3. 0 \in Features
  BY FeatureConstants DEF Features
<1>4. TopEl \in Features /\ TopEl \in Int /\ (GoldLeft => GoldEl \in Int) /\ Back <= TopEl
  BY <1>1, <1>3, MergeTypes
<1>5. \A f \in Features :
         f \in Int /\ InGold(f) \in Nat /\ InTop(f) \in Nat /\ ScoreOf(f) \in Int
  BY MergeTypes
<1>6. /\ ScoreOf(TopEl) = InTop(TopEl) - InGold(TopEl)
      /\ ~(InGold(TopEl) > InTop(TopEl))
  BY <1>1, <1>4, <1>5 DEF BalanceOf, GoldPast, TopPast
<1>7. /\ \A f \in Features : ScoreOf(f)' = ScoreOf(f) + (IF TopEl = f THEN 1 ELSE 0)
      /\ NoZero'
  <2>1. scored' = MergeOne(TopEl, 1) /\ ScoredType /\ OneEntryPerFeature
    BY DEF TailTop, IInv
  <2>2. ScoreOf(TopEl) + (1) # 0
    BY <1>4, <1>5, <1>6
  <2>3. /\ ScoreIn(scored', TopEl) = ScoreOf(TopEl) + (1)
        /\ \A f \in Features \ {TopEl} : ScoreIn(scored', f) = ScoreOf(f)
        /\ NoZero'
    BY <1>4, <2>1, <2>2, MergeEffect DEF ScoreOf
  <2>4. ASSUME NEW f \in Features
        PROVE  ScoreIn(scored', f) = ScoreOf(f) + (IF TopEl = f THEN 1 ELSE 0)
    BY <1>5, <2>3
  <2> QED
    BY <2>3, <2>4 DEF ScoreOf
<1>8. ASSUME NEW f \in Features PROVE BalanceOf(f)'
  BY <1>1, <1>2, <1>4, <1>5, <1>6, <1>7 DEF BalanceOf, GoldPast, TopPast
<1> QED
  BY <1>7, <1>8 DEF Balance

\* In the tail of the gold path its features get one less.
LEMMA TailGoldBalances ==
  ASSUME IInv, Balance, NoZero, TailGold
  PROVE  Balance' /\ NoZero'
<1>1. /\ stage = "tails" /\ stage' = "tails" /\ GoldLeft /\ ~TopLeft
      /\ TopLeft' = TopLeft /\ TopEl' = TopEl
      /\ \A f \in Features : BalanceOf(f) /\ InTop(f)' = InTop(f)
  BY DEF TailGold, Balance, TopLeft, TopEl, InTop
<1>2. /\ \A f \in Features : InGold(f)' = InGold(f) + (IF GoldEl = f THEN 1 ELSE 0)
      /\ GoldLeft' => GoldEl' \in Int /\ GoldEl <= GoldEl'
  BY <1>1, GoldStep DEF TailGold
<1>3. 0 \in Features
  BY FeatureConstants DEF Features
<1>4. GoldEl \in Features /\ GoldEl \in Int /\ (TopLeft => TopEl \in Int) /\ Back <= GoldEl
  BY <1>1, <1>3, MergeTypes
<1>5. \A f \in Features :
         f \in Int /\ InGold(f) \in Nat /\ InTop(f) \in Nat /\ ScoreOf(f) \in Int
  BY MergeTypes
<1>6. /\ ScoreOf(GoldEl) = InTop(GoldEl) - InGold(GoldEl)
      /\ ~(InTop(GoldEl) > InGold(GoldEl))
  BY <1>1, <1>4, <1>5 DEF BalanceOf, GoldPast, TopPast
<1>7. /\ \A f \in Features : ScoreOf(f)' = ScoreOf(f) - (IF GoldEl = f THEN 1 ELSE 0)
      /\ NoZero'
  <2>1. scored' = MergeOne(GoldEl, -1) /\ ScoredType /\ OneEntryPerFeature
    BY DEF TailGold, IInv
  <2>2. ScoreOf(GoldEl) + (-1) # 0
    BY <1>4, <1>5, <1>6
  <2>3. /\ ScoreIn(scored', GoldEl) = ScoreOf(GoldEl) + (-1)
        /\ \A f \in Features \ {GoldEl} : ScoreIn(scored', f) = ScoreOf(f)
        /\ NoZero'
    BY <1>4, <2>1, <2>2, MergeEffect DEF ScoreOf
  <2>4. ASSUME NEW f \in Features
        PROVE  ScoreIn(scored', f) = ScoreOf(f) - (IF GoldEl = f THEN 1 ELSE 0)
    BY <1>5, <2>3
  <2> QED
    BY <2>3, <2>4 DEF ScoreOf
<1>8. ASSUME NEW f \in Features PROVE BalanceOf(f)'
  BY <1>1, <1>2, <1>4, <1>5, <1>6, <1>7 DEF BalanceOf, GoldPast, TopPast
<1> QED
  BY <1>7, <1>8 DEF Balance

\* Before the merge nothing is counted and the only entry scores nothing.
LEMMA MergeBegins ==
  ASSUME IInv, MaskAndSort
  PROVE  Balance' /\ NoZero'
<1>1. goldPos' = 0 /\ topPos' = 0 /\ scored' = <<Entry(0, 0)>> /\ stage' = "merge"
  BY DEF MaskAndSort, IInv, StartOfMerge
<1>2. NoZero'
  BY <1>1 DEF NoZero
<1>3. ASSUME NEW f \in Features
      PROVE  ScoreIn(scored', f) = 0
  BY <1>1 DEF ScoreIn, Entry
<1>4. ASSUME NEW f \in Features
      PROVE  CountIn(goldFeatures', 0, f) = 0 /\ CountIn(top1Features', 0, f) = 0
  BY CountStep
<1>5. ASSUME NEW f \in Features
      PROVE  InGold(f)' = 0 /\ InTop(f)' = 0 /\ ScoreOf(f)' = 0
  BY <1>1, <1>3, <1>4 DEF InGold, InTop, ScoreOf
<1>6. ASSUME NEW f \in Features PROVE BalanceOf(f)'
  BY <1>5 DEF BalanceOf
<1> QED
  BY <1>2, <1>6 DEF Balance

LEMMA ScoresInit == Init => SInv
<1> SUFFICES ASSUME Init PROVE SInv
  OBVIOUS
<1>1. NoZero
  BY DEF Init, NoZero
<1> QED
  BY <1>1, InitHolds DEF Init, SInv, Balance, AllConsumed

LEMMA ScoresNext == SInv /\ [Next]_vars => SInv'
<1> SUFFICES ASSUME SInv, [Next]_vars PROVE SInv'
  OBVIOUS
<1> USE DEF SInv
<1>1. IInv'
  BY NextKeeps
<1>2. AllConsumed'
  BY DEF AllConsumed, Next, vars, MaskAndSort, SkipEqual, TakeGold, TakeTop, EndMerge, TailTop,
         TailGold, Rescale, Done, GoldLeft, TopLeft
<1>3. Balance' /\ NoZero'
  <2>1. CASE MaskAndSort
    BY <2>1, MergeBegins
  <2>2. CASE SkipEqual
    BY <2>2, SkipBalances DEF SkipEqual, NoZero
  <2>3. CASE TakeGold
    BY <2>3, TakeGoldBalances
  <2>4. CASE TakeTop
    BY <2>4, TakeTopBalances
  <2>5. CASE TailTop
    BY <2>5, TailTopBalances
  <2>6. CASE TailGold
    BY <2>6, TailGoldBalances
  <2>7. CASE EndMerge \/ Rescale \/ Done \/ UNCHANGED vars
    <3>1. /\ UNCHANGED <<goldFeatures, top1Features, goldPos, topPos, scored>>
          /\ stage' = stage \/ (stage # "masked" /\ stage' # "merge")
      BY <2>7 DEF EndMerge, Rescale, Done, vars
    <3>2. /\ UNCHANGED <<GoldLeft, TopLeft, GoldEl, TopEl>>
          /\ \A f \in Features : UNCHANGED <<InGold(f), InTop(f), ScoreOf(f)>>
      BY <3>1 DEF GoldLeft, TopLeft, GoldEl, TopEl, InGold, InTop, ScoreOf
    <3>3. ASSUME NEW f \in Features, BalanceOf(f) PROVE BalanceOf(f)'
      BY <3>1, <3>2, <3>3 DEF BalanceOf, GoldPast, TopPast
    <3> QED
      BY <3>1, <3>3 DEF Balance, NoZero
  <2> QED
    BY <2>1, <2>2, <2>3, <2>4, <2>5, <2>6, <2>7 DEF Next
<1> QED
  BY <1>1, <1>2, <1>3

\* What the balance says at the end
LEMMA BalancedScores == SInv => ScoresAreDifferences
<1> SUFFICES ASSUME SInv, stage = "done", NEW f \in Features
             PROVE  LET diff == Count(goldFeatures, f) - Count(top1Features, f)
                        entries == {i \in DOMAIN scored : scored[i].feature = f}
                    IN \/ diff = 0 /\ \A i \in entries : scored[i].score = 0 /\ i = 1
                       \/ diff # 0 /\ \E i \in entries : scored[i].score \in {diff, -diff}
  BY DEF ScoresAreDifferences
<1> USE DEF SInv
<1> DEFINE diff == Count(goldFeatures, f) - Count(top1Features, f)
<1>1. goldPos = Len(goldFeatures) /\ topPos = Len(top1Features)
  BY DEF IInv, ListTypes, AllConsumed, GoldLeft, TopLeft
<1>2. InGold(f) = Count(goldFeatures, f) /\ InTop(f) = Count(top1Features, f)
  BY <1>1 DEF InGold, InTop, Count
<1>3. InGold(f) \in Nat /\ InTop(f) \in Nat /\ ScoreOf(f) \in Int
  BY MergeTypes
<1>4. diff \in Int /\ ScoreOf(f) \in {diff, -diff}
  BY <1>2, <1>3 DEF Balance, BalanceOf
<1>5. ScoredType /\ OneEntryPerFeature
  BY DEF IInv
<1>6. \A i \in DOMAIN scored : scored[i].feature = f => scored[i].score = ScoreOf(f)
  BY <1>5, OnlyEntry, ScoreOfEntry DEF ScoreOf
<1>7. CASE diff = 0
  <2>1. ScoreOf(f) = 0
    BY <1>4, <1>7
  <2> QED
    BY <1>6, <1>7, <2>1 DEF NoZero
<1>8. CASE diff # 0
  <2>1. ScoreOf(f) # 0
    BY <1>4, <1>8
  <2>2. PICK i \in DOMAIN scored : scored[i].feature = f
    BY <2>1 DEF ScoreOf, ScoreIn
  <2> QED
    BY <1>4, <1>6, <1>8, <2>2
<1> QED
  BY <1>7, <1>8

\* Whatever the features of the two paths and however their hashes collide,
\* the score computeFeatureDiff ends with for a feature is by how much its
\* counts differ, and a feature of both paths has no entry but the first.
THEOREM ScoresAreRight == Spec => []ScoresAreDifferences
<1> QED
  BY ScoresInit, ScoresNext, BalancedScores, PTL DEF Spec

-------------------------------------------------------------------------------
(* Weights                                                                    *)

\* A set of natural numbers has a least element.
LEMMA LeastElement ==
  ASSUME NEW T \in SUBSET Nat, T # {}
  PROVE  \E x \in T : \A y \in T : x <= y
<1>. DEFINE R == {p \in Nat \X Nat : p[1] < p[2]}
<1>1. IsWellFoundedOn(R, Nat)
  BY NatLessThanWellFounded DEF OpToRel
<1>2. \A x, y \in Nat : y < x => <<y, x>> \in R
  OBVIOUS
<1>. HIDE DEF R
<1>3. PICK x \in T : \A y \in T : ~(<<y, x>> \in R)
  BY <1>1, WFMin
<1>4. \A y \in T : ~(y < x)
  BY <1>2, <1>3
<1>5. QED
  BY <1>4

\* A set that holds 0 and the successor of every number in it holds them all.
LEMMA SetInduction ==
  ASSUME NEW S, 0 \in S, \A n \in Nat : n \in S => n + 1 \in S
  PROVE  \A n \in Nat : n \in S
<1>1. SUFFICES ASSUME Nat \ S # {} PROVE FALSE
  OBVIOUS
<1>2. PICK x \in Nat \ S : \A y \in Nat \ S : x <= y
  BY <1>1, LeastElement
<1>3. x # 0 /\ x - 1 \in Nat /\ x - 1 \in S
  BY <1>2
<1>4. x \in S
  BY <1>3
<1>5. QED
  BY <1>2, <1>4

\* The partial sums of f up to n, as a function
Sums(f, n, g) == g[0] = 0 /\ \A i \in 1 .. n : g[i] = g[i - 1] + f[i]

\* SumTo is the last of any function of partial sums.
LEMMA SumIsLastSum ==
  ASSUME NEW f, NEW n \in Nat, NEW g, Sums(f, n, g)
  PROVE  SumTo(f, n) = g[n]
<1>. DEFINE F(s) == [i \in 0 .. n |-> IF i = 0 THEN 0 ELSE s[i - 1] + f[i]]
            s == CHOOSE s : s = F(s)
            h == [i \in 0 .. n |-> g[i]]
<1>1. SumTo(f, n) = s[n]
  BY DEF SumTo
<1>2. h = F(h)
  <2>1. \A i \in 0 .. n : h[i] = IF i = 0 THEN 0 ELSE h[i - 1] + f[i]
    BY DEF Sums
  <2>. HIDE DEF h
  <2>2. h = [i \in 0 .. n |-> h[i]]
    BY DEF h
  <2>3. QED
    BY <2>1, <2>2
<1>. HIDE DEF h, F
<1>3. s = F(s)
  BY <1>2
<1>. HIDE DEF s
<1>4. \A i \in 0 .. n : s[i] = IF i = 0 THEN 0 ELSE s[i - 1] + f[i]
  BY <1>3 DEF F
<1>. DEFINE Same == {i \in Nat : i <= n => s[i] = g[i]}
<1>5. 0 \in Same
  BY <1>4 DEF Sums
<1>6. ASSUME NEW i \in Nat, i \in Same
      PROVE  i + 1 \in Same
  <2>1. SUFFICES ASSUME i + 1 <= n PROVE s[i + 1] = g[i + 1]
    OBVIOUS
  <2>2. s[i] = g[i]
    BY <1>6, <2>1
  <2>3. s[i + 1] = s[i] + f[i + 1]
    <3>1. i + 1 \in 0 .. n /\ i + 1 # 0 /\ i + 1 - 1 = i
      BY <2>1
    <3>2. QED
      BY <1>4, <3>1
  <2>4. g[i + 1] = g[i] + f[i + 1]
    <3>1. i + 1 \in 1 .. n /\ i + 1 - 1 = i
      BY <2>1
    <3>2. QED
      BY <3>1 DEF Sums
  <2>5. QED
    BY <2>2, <2>3, <2>4
<1>. HIDE DEF Same
<1>7. n \in Same
  BY <1>5, <1>6, SetInduction
<1>8. QED
  BY <1>1, <1>7 DEF Same

\* There is a function of partial sums, by induction on how many there are.
LEMMA SumsExist ==
  ASSUME NEW f, NEW n \in Nat
  PROVE  \E g : Sums(f, n, g)
<1>. DEFINE S == {m \in Nat : \E g : Sums(f, m, g)}
<1>1. 0 \in S
  <2>1. Sums(f, 0, [i \in Nat |-> 0])
    BY DEF Sums
  <2>2. QED
    BY <2>1
<1>2. ASSUME NEW m \in Nat, m \in S
      PROVE  m + 1 \in S
  <2>1. PICK g : Sums(f, m, g)
    BY <1>2
  <2>. DEFINE h == [i \in Nat |-> IF i = m + 1 THEN g[m] + f[m + 1] ELSE g[i]]
  <2>2. h[0] = 0 /\ h[m + 1] = g[m] + f[m + 1] /\ h[m] = g[m]
    BY <2>1 DEF Sums
  <2>3. \A i \in 1 .. m : h[i] = g[i] /\ h[i - 1] = g[i - 1]
    OBVIOUS
  <2>. HIDE DEF h
  <2>4. ASSUME NEW i \in 1 .. m + 1
        PROVE  h[i] = h[i - 1] + f[i]
    <3>1. CASE i = m + 1
      <4>1. i - 1 = m
        BY <3>1
      <4>2. QED
        BY <2>2, <3>1, <4>1
    <3>2. CASE i # m + 1
      BY <2>1, <2>3, <3>2 DEF Sums
    <3>3. QED
      BY <3>1, <3>2
  <2>5. Sums(f, m + 1, h)
    BY <2>2, <2>4 DEF Sums
  <2>6. QED
    BY <2>5
<1>. HIDE DEF S
<1>3. n \in S
  BY <1>1, <1>2, SetInduction
<1>4. QED
  BY <1>3 DEF S

\* What SumTo is defined to be recursively: 0 for nothing ...
LEMMA SumOfNone ==
  ASSUME NEW f
  PROVE  SumTo(f, 0) = 0
<1>1. PICK g : Sums(f, 0, g)
  BY SumsExist
<1>2. QED
  BY <1>1, SumIsLastSum DEF Sums

\* ... and for one more value, that value more.
LEMMA SumOfOneMore ==
  ASSUME NEW f, NEW n \in Nat
  PROVE  SumTo(f, n + 1) = SumTo(f, n) + f[n + 1]
<1>1. PICK g : Sums(f, n + 1, g)
  BY SumsExist
<1>2. Sums(f, n, g) /\ g[n + 1] = g[n] + f[n + 1]
  <2>1. n + 1 \in 1 .. n + 1 /\ n + 1 - 1 = n /\ \A i \in 1 .. n : i \in 1 .. n + 1
    OBVIOUS
  <2>2. QED
    BY <1>1, <2>1 DEF Sums
<1>3. SumTo(f, n + 1) = g[n + 1] /\ SumTo(f, n) = g[n]
  BY <1>1, <1>2, SumIsLastSum
<1>4. QED
  BY <1>2, <1>3

\* What the scores of either sign sum up to, and what a combination of them does,
\* by induction on how many there are.
Parts(g, t, w, n, a, b) ==
  \A i \in 1 .. n : g[i] \in Nat /\ t[i] \in Nat /\ w[i] = a * g[i] - b * t[i]

Sum(x, y, z, a, b) == x \in Nat /\ y \in Nat /\ z = a * x - b * y

LEMMA SumsCombine ==
  ASSUME NEW g, NEW t, NEW w, NEW n \in Nat, NEW a \in Int, NEW b \in Int,
         Parts(g, t, w, n, a, b)
  PROVE  Sum(SumTo(g, n), SumTo(t, n), SumTo(w, n), a, b)
<1> DEFINE Good(m) == Sum(SumTo(g, m), SumTo(t, m), SumTo(w, m), a, b)
           S == {m \in Nat : m <= n => Good(m)}
<1>1. 0 \in S
  <2>1. SumTo(g, 0) = 0 /\ SumTo(t, 0) = 0 /\ SumTo(w, 0) = 0
    BY SumOfNone
  <2>2. Sum(0, 0, 0, a, b)
    BY DEF Sum
  <2> QED
    BY <2>1, <2>2
<1>2. ASSUME NEW m \in Nat, m \in S
      PROVE  m + 1 \in S
  <2>1. SUFFICES ASSUME m + 1 <= n PROVE Good(m + 1)
    OBVIOUS
  <2>2. PICK x, y, z, x1, y1, z1 :
          /\ x = SumTo(g, m) /\ y = SumTo(t, m) /\ z = SumTo(w, m)
          /\ x1 = SumTo(g, m + 1) /\ y1 = SumTo(t, m + 1) /\ z1 = SumTo(w, m + 1)
    OBVIOUS
  <2>3. PICK gn, tn, wn : gn = g[m + 1] /\ tn = t[m + 1] /\ wn = w[m + 1]
    OBVIOUS
  <2>4. x \in Nat /\ y \in Nat /\ z = a * x - b * y
    BY <1>2, <2>1, <2>2 DEF Sum
  <2>5. gn \in Nat /\ tn \in Nat /\ wn = a * gn - b * tn
    <3>1. m + 1 \in 1 .. n
      BY <2>1
    <3> QED
      BY <2>3, <3>1 DEF Parts
  <2>6. x1 = x + gn /\ y1 = y + tn /\ z1 = z + wn
    BY <2>2, <2>3, SumOfOneMore
  <2>7. x1 \in Nat /\ y1 \in Nat
    BY <2>4, <2>5, <2>6
  <2>8. z1 = a * x1 - b * y1
    <3>1. a * (x + gn) = a * x + a * gn /\ b * (y + tn) = b * y + b * tn
      BY <2>4, <2>5
    <3> QED
      BY <2>4, <2>5, <2>6, <3>1
  <2> QED
    BY <2>2, <2>7, <2>8 DEF Sum
<1> HIDE DEF S
<1>3. n \in S
  BY <1>1, <1>2, SetInduction
<1> QED
  BY <1>3 DEF S

\* The scores are weighted by the quotient of their sums.
WeightSet == stage = "done" => weight = WeightOf(NumGold, NumTop)

WInv == IInv /\ WeightSet

LEMMA WeightNext == WInv /\ [Next]_vars => WInv'
<1> SUFFICES ASSUME WInv, [Next]_vars PROVE WInv'
  OBVIOUS
<1>1. IInv'
  BY NextKeeps DEF WInv
<1>2. scored' = scored => UNCHANGED <<NumGold, NumTop>>
  BY DEF NumGold, NumTop, SumEntries
<1>3. CASE Rescale
  BY <1>1, <1>2, <1>3 DEF Rescale, WInv, WeightSet
<1>4. CASE ~Rescale
  <2>1. stage' = "done" => UNCHANGED <<scored, weight, stage>>
    BY <1>4 DEF Next, vars, MaskAndSort, SkipEqual, TakeGold, TakeTop, EndMerge, TailTop,
           TailGold, Done
  <2> QED
    BY <1>1, <1>2, <2>1 DEF WInv, WeightSet
<1> QED
  BY <1>3, <1>4

GoldPart(score) == IF score > 0 THEN score ELSE 0
TopPart(score) == IF score > 0 THEN 0 ELSE -score

\* What the quotient is: the sums of either sign, the smaller one above, unless
\* there is nothing to divide by.
LEMMA Quotients ==
  ASSUME NEW gold \in Nat, NEW top \in Nat, NEW f, f = WeightOf(gold, top)
  PROVE  /\ f.num \in Nat /\ f.den \in Nat \ {0} /\ f.num <= 2 * f.den
         /\ \/ f.sign = "negative" /\ (gold > 0 /\ top > 0 => f.num = gold /\ f.den = top)
            \/ f.sign = "positive" /\ f.num = top /\ f.den = gold
<1>1. CASE top = 0
  <2>1. f = Factor("negative", 1, 1)
    BY <1>1 DEF WeightOf
  <2> QED
    BY <1>1, <2>1 DEF Factor
<1>2. CASE top > 0 /\ gold > 2 * top
  <2>1. f = Factor("positive", top, gold)
    BY <1>2 DEF WeightOf
  <2>2. f.sign = "positive" /\ f.num = top /\ f.den = gold
    BY <2>1 DEF Factor
  <2> QED
    BY <1>2, <2>2
<1>3. CASE top > 0 /\ ~(gold > 2 * top)
  <2>1. f = Factor("negative", gold, top)
    BY <1>3 DEF WeightOf
  <2>2. f.sign = "negative" /\ f.num = gold /\ f.den = top
    BY <2>1 DEF Factor
  <2> QED
    BY <1>3, <2>2
<1> QED
  BY <1>1, <1>2, <1>3

\* What is left of a score: of the two factors, the quotient goes to those of
\* its sign.
LEMMA WeightedParts ==
  ASSUME NEW score \in Int, weight.num \in Nat, weight.den \in Nat
  PROVE  /\ GoldPart(score) \in Nat /\ TopPart(score) \in Nat
         /\ weight.sign = "negative" =>
              Weighted(score) = weight.den * GoldPart(score) - weight.num * TopPart(score)
         /\ weight.sign = "positive" =>
              Weighted(score) = weight.num * GoldPart(score) - weight.den * TopPart(score)
<1> PICK num, den : num = weight.num /\ den = weight.den
  OBVIOUS
<1>1. num \in Nat /\ den \in Nat
  OBVIOUS
<1>2. CASE score > 0
  <2>1. GoldPart(score) = score /\ TopPart(score) = 0
    BY <1>2 DEF GoldPart, TopPart
  <2>2. /\ weight.sign = "negative" => Weighted(score) = score * den
        /\ weight.sign = "positive" => Weighted(score) = score * num
    BY <1>2 DEF Weighted
  <2>3. /\ score * den = den * score - num * 0
        /\ score * num = num * score - den * 0
    BY <1>1
  <2> QED
    BY <1>2, <2>1, <2>2, <2>3
<1>3. CASE ~(score > 0)
  <2>1. GoldPart(score) = 0 /\ TopPart(score) = -score
    BY <1>3 DEF GoldPart, TopPart
  <2>2. /\ weight.sign = "negative" => Weighted(score) = score * num
        /\ weight.sign = "positive" => Weighted(score) = score * den
    BY <1>3 DEF Weighted
  <2>3. /\ score * den = num * 0 - den * (-score)
        /\ score * num = den * 0 - num * (-score)
    BY <1>1
  <2> QED
    BY <1>3, <2>1, <2>2, <2>3
<1> QED
  BY <1>2, <1>3

\* No score more than doubles.
LEMMA NotDoubled ==
  ASSUME NEW score \in Int, weight.num \in Nat, weight.den \in Nat,
         weight.num <= 2 * weight.den, NEW size \in {1, -1}, size = IF score < 0 THEN -1 ELSE 1
  PROVE  size * Weighted(score) <= size * 2 * weight.den * score
<1> PICK num, den : num = weight.num /\ den = weight.den
  OBVIOUS
<1>1. num \in Nat /\ den \in Nat /\ num <= 2 * den
  OBVIOUS
<1>2. Weighted(score) = score * num \/ Weighted(score) = score * den
  BY DEF Weighted
<1>3. ASSUME NEW x \in Nat, x <= 2 * den
      PROVE  size * (score * x) <= size * 2 * den * score
  <2>1. CASE score < 0
    <3>1. PICK d \in Nat : 2 * den = x + d
      <4>1. 2 * den - x \in Nat /\ 2 * den = x + (2 * den - x)
        BY <1>1, <1>3
      <4> QED
        BY <4>1
    <3>2. (-score) * d >= 0
      BY <2>1
    <3>3. (-score) * (x + d) = (-score) * x + (-score) * d
      OBVIOUS
    <3>4. (-1) * 2 * den * score = (-score) * (2 * den) /\ (-1) * (score * x) = (-score) * x
      BY <1>1
    <3>5. size = -1
      BY <2>1
    <3> QED
      BY <1>1, <3>1, <3>2, <3>3, <3>4, <3>5
  <2>2. CASE ~(score < 0)
    <3>1. PICK d \in Nat : 2 * den = x + d
      <4>1. 2 * den - x \in Nat /\ 2 * den = x + (2 * den - x)
        BY <1>1, <1>3
      <4> QED
        BY <4>1
    <3>2. score * d >= 0
      BY <2>2
    <3>3. score * (x + d) = score * x + score * d
      OBVIOUS
    <3>4. 1 * 2 * den * score = score * (2 * den) /\ 1 * (score * x) = score * x
      BY <1>1
    <3>5. size = 1
      BY <2>2
    <3> QED
      BY <1>1, <3>1, <3>2, <3>3, <3>4, <3>5
  <2> QED
    BY <2>1, <2>2
<1>4. num <= 2 * den /\ den <= 2 * den
  BY <1>1
<1> QED
  BY <1>1, <1>2, <1>3, <1>4

\* What the weight, once set, says at the end
LEMMA BalancedWeights == WInv => BalancedUpdate
<1> SUFFICES ASSUME WInv, stage = "done" PROVE BalancedUpdate
  BY DEF BalancedUpdate
<1>1. /\ Len(scored) \in Nat /\ DOMAIN scored = 1 .. Len(scored)
      /\ \A i \in DOMAIN scored : scored[i].score \in Int
  <2>1. ScoredType
    BY DEF WInv, IInv
  <2> QED
    BY <2>1, EntryTypes
<1>2. PICK n, g, t, w :
        /\ n = Len(scored)
        /\ g = [i \in DOMAIN scored |-> GoldPart(scored[i].score)]
        /\ t = [i \in DOMAIN scored |-> TopPart(scored[i].score)]
        /\ w = [i \in DOMAIN scored |-> Weighted(scored[i].score)]
  OBVIOUS
<1>3. PICK gold, top, sum : gold = NumGold /\ top = NumTop /\ sum = SumEntries(Weighted)
  OBVIOUS
<1>4. n \in Nat /\ gold = SumTo(g, n) /\ top = SumTo(t, n) /\ sum = SumTo(w, n)
  BY <1>1, <1>2, <1>3 DEF NumGold, NumTop, SumEntries, GoldPart, TopPart
<1>5. PICK f : f = weight
  OBVIOUS
<1>6. ASSUME NEW i \in 1 .. n
      PROVE  \E score \in Int :
               /\ score = scored[i].score
               /\ g[i] = GoldPart(score) /\ t[i] = TopPart(score) /\ w[i] = Weighted(score)
  BY <1>1, <1>2
<1>7. gold \in Nat /\ top \in Nat
  <2>1. \A i \in 1 .. n : g[i] \in Nat /\ t[i] \in Nat
    BY <1>6 DEF GoldPart, TopPart
  <2> DEFINE c == [i \in 1 .. n |-> 0 * g[i] - 0 * t[i]]
  <2>2. Parts(g, t, c, n, 0, 0)
    BY <2>1 DEF Parts
  <2> HIDE DEF c
  <2>3. Sum(SumTo(g, n), SumTo(t, n), SumTo(c, n), 0, 0)
    BY <1>4, <2>2, SumsCombine
  <2> QED
    BY <1>4, <2>3 DEF Sum
<1>8. /\ f.num \in Nat /\ f.den \in Nat \ {0} /\ f.num <= 2 * f.den
      /\ \/ f.sign = "negative" /\ (gold > 0 /\ top > 0 => f.num = gold /\ f.den = top)
         \/ f.sign = "positive" /\ f.num = top /\ f.den = gold
  <2>1. f = WeightOf(gold, top)
    BY <1>3, <1>5 DEF WInv, WeightSet
  <2> QED
    BY <1>7, <2>1, Quotients
<1>9. ASSUME gold > 0, top > 0
      PROVE  sum = 0
  <2>1. CASE f.sign = "negative"
    <3>1. Parts(g, t, w, n, f.den, f.num)
      BY <1>5, <1>6, <1>8, <2>1, WeightedParts DEF Parts
    <3>2. Sum(gold, top, sum, f.den, f.num)
      BY <1>4, <1>8, <3>1, SumsCombine
    <3>3. f.num = gold /\ f.den = top
      BY <1>8, <1>9, <2>1
    <3> QED
      BY <1>7, <3>2, <3>3 DEF Sum
  <2>2. CASE f.sign = "positive"
    <3>1. Parts(g, t, w, n, f.num, f.den)
      BY <1>5, <1>6, <1>8, <2>2, WeightedParts DEF Parts
    <3>2. Sum(gold, top, sum, f.num, f.den)
      BY <1>4, <1>8, <3>1, SumsCombine
    <3>3. f.num = top /\ f.den = gold
      BY <1>8, <2>2
    <3> QED
      BY <1>7, <3>2, <3>3 DEF Sum
  <2> QED
    BY <1>8, <2>1, <2>2
<1>10. ASSUME NEW i \in DOMAIN scored
       PROVE  LET size == IF scored[i].score < 0 THEN -1 ELSE 1
              IN size * Weighted(scored[i].score) <= size * 2 * weight.den * scored[i].score
  <2>1. PICK score \in Int : score = scored[i].score
    BY <1>1
  <2>2. PICK size \in {1, -1} : size = IF score < 0 THEN -1 ELSE 1
    OBVIOUS
  <2>3. size * Weighted(score) <= size * 2 * weight.den * score
    BY <1>5, <1>8, <2>2, NotDoubled
  <2> QED
    BY <2>1, <2>2, <2>3
<1>11. weight.den > 0
  BY <1>5, <1>8
<1> QED
  BY <1>3, <1>9, <1>10, <1>11 DEF BalancedUpdate

\* Whatever the features of the two paths, the quotient that weighs the scores
\* divides by no zero, balances the scores of both signs, and no more than doubles
\* any of them.
THEOREM UpdatesAreBalanced == Spec => []BalancedUpdate
<1>1. Init => WInv
  BY InitHolds DEF Init, WInv, WeightSet
<1> QED
  BY <1>1, WeightNext, BalancedWeights, PTL DEF Spec
===============================================================================
