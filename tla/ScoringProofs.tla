----------------------------- MODULE ScoringProofs -----------------------------
(***************************************************************************)
(* Proofs about Comparison and PartialTrainer, composed with the analysis  *)
(* in Scoring: what the trainer of a full annotation says of the best path *)
(* and of the gold one, and what the trainer of a partial annotation does, *)
(* for every lattice, configuration of the beams and weights of the fields.*)
(*                                                                         *)
(* The comparison only walks: that what it records is right needs the      *)
(* invariant of the beams, IInv, to know that the best path is one, and    *)
(* that its elements hold the scores of its prefixes.  CompareInv, which   *)
(* is inductive together with it, relates the steps recorded to both       *)
(* paths: their boundaries grow, every word behind has its step, and no    *)
(* step is at or behind the next word of either path.  Scores of a path    *)
(* are those of the word that starts last (ScoreUpTo), so that a step at   *)
(* any boundary compares the same part of the sentence (WalkOf, StepOK).   *)
(*                                                                         *)
(* The second half is about a partial annotation.  CorrectInv follows the  *)
(* walk over the best path and the corrections made on it; the lemmas      *)
(* after it relate checkViolation, which looks at one word at a time, to   *)
(* what the lines of the annotation mean for a whole segmentation.         *)
(*                                                                         *)
(* The third part is about the analysis of partially annotated input,      *)
(* where a plugin takes from the scores of what violates the annotation.   *)
(* HonourInv says that the first element of every beam agrees with it if   *)
(* any path to its node does; with additional scorers, that some element   *)
(* of the last global beam does.                                           *)
(*                                                                         *)
(* The fourth is about the n-grams that computeLoss collects: FeaturesInv  *)
(* says that the steps carry the trigrams of their words.                  *)
(*                                                                         *)
(* The last is about the update of a partial annotation: UpdateInv says    *)
(* that there is one map of features for every correction, and that what   *)
(* it takes from the features of the violation it gives to those of the    *)
(* words that take its place, but for the rest that cannot be handed out.  *)
(***************************************************************************)
EXTENDS Scoring, BeamSearchProofs

-------------------------------------------------------------------------------
(* Segmentations of a sentence                                             *)

\* A sequence with one element more in front of it
InFront(h, x, g) ==
  /\ Len(h) = Len(g) + 1 /\ h[1] = x
  /\ \A i \in 1 .. Len(g) : h[i + 1] = g[i]
  /\ \A i \in 1 .. Len(g) + 1 : SubSeq(h, i + 1, Len(g) + 1) = SubSeq(g, i, Len(g))

\* What a sequence holds that has one element more in front.
LEMMA OneMoreInFront ==
  ASSUME NEW S, NEW x \in S, NEW g \in Seq(S)
  PROVE  <<x>> \o g \in Seq(S) /\ InFront(<<x>> \o g, x, g)
<1>1. PICK b, h, n : b = <<x>> /\ h = b \o g /\ n = Len(g)
  OBVIOUS
<1>2. b \in Seq(S) /\ Len(b) = 1 /\ b[1] = x /\ n \in Nat
  BY <1>1
<1>3. h \in Seq(S) /\ Len(h) = Len(b) + Len(g)
      /\ \A i \in 1 .. Len(b) + Len(g) : h[i] = IF i <= Len(b) THEN b[i] ELSE g[i - Len(b)]
  BY <1>1, <1>2, ConcatProperties
<1>4. Len(h) = n + 1 /\ \A i \in 1 .. n + 1 : h[i] = IF i <= 1 THEN b[i] ELSE g[i - 1]
  BY <1>1, <1>2, <1>3
<1>5. h[1] = x /\ \A i \in 1 .. n : h[i + 1] = g[i]
  <2>1. h[1] = x
    BY <1>1, <1>2, <1>4
  <2>2. SUFFICES ASSUME NEW i \in 1 .. n PROVE h[i + 1] = g[i]
    BY <2>1
  <2>3. i + 1 \in 1 .. n + 1 /\ ~(i + 1 <= 1) /\ (i + 1) - 1 = i
    BY <1>2
  <2>4. h[i + 1] = g[(i + 1) - 1]
    BY <1>4, <2>3
  <2>5. QED
    BY <2>3, <2>4
<1>6. ASSUME NEW i \in 1 .. n + 1
      PROVE  SubSeq(h, i + 1, n + 1) = SubSeq(g, i, n)
  <2>1. \A j \in 1 .. (n + 1) - (i + 1) + 1 : h[(i + 1) + j - 1] = g[i + j - 1]
    <3>1. TAKE j \in 1 .. (n + 1) - (i + 1) + 1
    <3>2. i + j - 1 \in 1 .. n /\ (i + 1) + j - 1 = (i + j - 1) + 1
      BY <1>2
    <3>3. QED
      BY <1>5, <3>2
  <2>2. SubSeq(h, i + 1, n + 1) = [j \in 1 .. (n + 1) - (i + 1) + 1 |-> h[(i + 1) + j - 1]]
    <3>1. PICK m, k : m = i + 1 /\ k = n + 1
      OBVIOUS
    <3>2. h \in Seq(S) /\ m \in Nat \ {0} /\ k \in Nat
      BY <1>2, <1>3, <3>1
    <3>3. SubSeq(h, m, k) = [j \in 1 .. k - m + 1 |-> h[m + j - 1]]
      BY <3>2
    <3>4. QED
      BY <3>1, <3>3
  <2>3. SubSeq(g, i, n) = [j \in 1 .. n - i + 1 |-> g[i + j - 1]]
    BY <1>1, <1>2
  <2>4. (n + 1) - (i + 1) + 1 = n - i + 1
    BY <1>2
  <2>5. QED
    BY <2>1, <2>2, <2>3, <2>4
<1>7. QED
  BY <1>1, <1>3, <1>4, <1>5, <1>6 DEF InFront

\* A path to a node goes along nodes that start earlier and earlier, and what
\* is behind a node on it is a path to that node.
LEMMA PartsOfPaths ==
  ASSUME InputOK
  PROVE  \A r \in 1 .. Eos : \A h \in Histories[r] :
           /\ h \in Seq(1 .. Eos - 1)
           /\ \A i \in 1 .. Len(h) : /\ Start(h[i]) < Start(r)
                                     /\ SubSeq(h, i + 1, Len(h)) \in Histories[h[i]]
           /\ \A i, j \in 1 .. Len(h) : i < j => Start(h[j]) < Start(h[i])
<1>. DEFINE WordIds == 1 .. Eos - 1
            Fine(r, h) == /\ h \in Seq(WordIds)
                          /\ \A i \in 1 .. Len(h) : /\ Start(h[i]) < Start(r)
                                                    /\ SubSeq(h, i + 1, Len(h)) \in Histories[h[i]]
                          /\ \A i, j \in 1 .. Len(h) : i < j => Start(h[j]) < Start(h[i])
            S == {r \in 1 .. Eos : \A h \in Histories[r] : Fine(r, h)}
<1>1. \A r \in 1 .. Eos : Start(r) \in 0 .. lat.n /\ r \in Nat
  BY NodesOfLattice
<1>2. lat.n \in Nat /\ Bos = 0 /\ Eos \in Nat
  BY NodesOfLattice
<1>3. ASSUME NEW r \in 1 .. Eos,
             \A l \in 1 .. Eos : Start(l) < Start(r) => l \in S
      PROVE  r \in S
  <2>1. CASE Start(r) = 0
    <3>1. Histories[r] = {<<>>}
      BY <2>1, HistoriesOf
    <3>2. Fine(r, <<>>)
      OBVIOUS
    <3>. HIDE DEF Fine
    <3>3. QED
      BY <3>1, <3>2
  <2>2. CASE Start(r) # 0
    <3>1. SUFFICES ASSUME NEW h \in Histories[r] PROVE Fine(r, h)
      OBVIOUS
    <3>2. PICK l \in Left(Start(r)) : \E g \in Histories[l] : h = <<l>> \o g
      BY <2>2, HistoriesOf
    <3>3. PICK g \in Histories[l] : h = <<l>> \o g
      BY <3>2
    <3>4. l \in 1 .. Eos /\ l \in WordIds /\ Start(l) < Start(r) /\ Start(l) \in 0 .. lat.n
      BY <1>1, <1>2, <2>2, NodesOfLattice
    <3>5. Fine(l, g)
      BY <1>3, <3>4
    <3>. DEFINE n == Len(g)
    <3>. HIDE DEF WordIds
    <3>6. g \in Seq(WordIds) /\ n \in Nat /\ \A i \in 1 .. n : g[i] \in WordIds
      <4>1. g \in Seq(WordIds)
        BY <3>5
      <4>. HIDE DEF Fine
      <4>2. QED
        BY <4>1
    <3>7. h \in Seq(WordIds) /\ Len(h) = n + 1 /\ h[1] = l /\ \A i \in 1 .. n : h[i + 1] = g[i]
      BY <3>3, <3>4, <3>6, OneMoreInFront DEF InFront
    <3>8. ASSUME NEW i \in 1 .. n + 1
          PROVE  \/ i = 1 /\ h[i] = l
                 \/ i - 1 \in 1 .. n /\ h[i] = g[i - 1]
      <4>1. CASE i = 1
        BY <3>7, <4>1
      <4>2. CASE i # 1
        <5>1. i - 1 \in 1 .. n /\ (i - 1) + 1 = i
          BY <3>6, <4>2
        <5>2. QED
          BY <3>7, <5>1
      <4>3. QED
        BY <4>1, <4>2
    <3>9. \A i \in 1 .. n + 1 : SubSeq(h, i + 1, n + 1) = SubSeq(g, i, n)
      BY <3>3, <3>4, <3>6, OneMoreInFront DEF InFront
    <3>10. SubSeq(g, 1, n) = g
      BY <3>6, SubSeqFull
    <3>11. ASSUME NEW i \in 1 .. n + 1
           PROVE  /\ Start(h[i]) < Start(r)
                  /\ SubSeq(h, i + 1, n + 1) \in Histories[h[i]]
      <4>1. CASE i = 1 /\ h[i] = l
        BY <3>3, <3>4, <3>9, <3>10, <4>1
      <4>2. CASE i - 1 \in 1 .. n /\ h[i] = g[i - 1]
        <5>1. PICK k : k = i - 1
          OBVIOUS
        <5>2. k \in 1 .. n /\ h[i] = g[k] /\ k + 1 = i
          BY <4>2, <5>1
        <5>3. Start(g[k]) < Start(l) /\ SubSeq(g, k + 1, n) \in Histories[g[k]]
          BY <3>5, <5>2
        <5>4. g[k] \in 1 .. Eos
          BY <1>2, <3>6, <5>2 DEF WordIds
        <5>5. Start(g[k]) \in 0 .. lat.n
          BY <1>1, <5>4
        <5>6. Start(g[k]) < Start(r)
          BY <1>1, <1>2, <3>4, <5>3, <5>5
        <5>7. QED
          BY <3>9, <5>2, <5>3, <5>6
      <4>3. QED
        BY <3>8, <4>1, <4>2
    <3>12. ASSUME NEW i \in 1 .. n + 1, NEW j \in 1 .. n + 1, i < j
           PROVE  Start(h[j]) < Start(h[i])
      <4>1. PICK m : m = j - 1
        OBVIOUS
      <4>2. m \in 1 .. n /\ h[j] = g[m]
        <5>1. j # 1
          BY <3>6, <3>12
        <5>2. QED
          BY <3>8, <4>1, <5>1
      <4>3. CASE i = 1 /\ h[i] = l
        BY <3>5, <4>2, <4>3
      <4>4. CASE i - 1 \in 1 .. n /\ h[i] = g[i - 1]
        <5>1. PICK k : k = i - 1
          OBVIOUS
        <5>2. k \in 1 .. n /\ h[i] = g[k] /\ k < m
          BY <3>6, <3>12, <4>1, <4>4, <5>1
        <5>3. QED
          BY <3>5, <4>2, <5>2
      <4>5. QED
        BY <3>8, <4>3, <4>4
    <3>13. QED
      BY <3>7, <3>11, <3>12
  <2>3. QED
    BY <2>1, <2>2
<1>. HIDE DEF S
<1>4. S = 1 .. Eos
  <2>1. S \in SUBSET (1 .. Eos)
    BY DEF S
  <2>2. QED
    BY <1>3, <2>1, NodeInduction
<1>5. QED
  BY <1>4 DEF S

\* What is before a place in a sequence, the last one first, is what is behind
\* its place in the reversed sequence.
Backwards(w, h, n) ==
  /\ Len(w) = n
  /\ \A k \in 1 .. n : w[k] = h[n - k + 1] /\ n - k + 1 \in 1 .. n
  /\ \A i \in 1 .. n + 1 : Reverse(SubSeq(w, 1, i - 1)) = SubSeq(h, n - i + 2, n)

\* The first words of a path read from its end are the path up to there.
LEMMA ReversedPrefix ==
  ASSUME NEW S, NEW h \in Seq(S)
  PROVE  Len(h) \in Nat /\ Reverse(h) \in Seq(S) /\ Backwards(Reverse(h), h, Len(h))
<1>. DEFINE w == Reverse(h)
            n == Len(h)
<1>1. n \in Nat /\ (\A k \in 1 .. n : h[k] \in S) /\ DOMAIN h = 1 .. n
  OBVIOUS
<1>2. w = [k \in 1 .. n |-> h[n - k + 1]]
  BY <1>1 DEF Reverse
<1>3. \A k \in 1 .. n : n - k + 1 \in 1 .. n
  BY <1>1
<1>4. \A k \in 1 .. n : w[k] = h[n - k + 1] /\ w[k] \in S
  BY <1>1, <1>2, <1>3
<1>5. w \in Seq(S) /\ Len(w) = n /\ DOMAIN w = 1 .. n
  BY <1>1, <1>2, <1>3, <1>4
<1>6. ASSUME NEW i \in 1 .. n + 1
      PROVE  Reverse(SubSeq(w, 1, i - 1)) = SubSeq(h, n - i + 2, n)
  <2>. DEFINE p == SubSeq(w, 1, i - 1)
              m == i - 1
  <2>1. m \in 0 .. n /\ m \in Nat
    BY <1>1
  <2>2. p = [k \in 1 .. m |-> w[k]]
    BY <1>5, <2>1
  <2>3. Len(p) = m /\ \A k \in 1 .. m : p[k] = w[k]
    BY <2>1, <2>2
  <2>4. Reverse(p) = [k \in 1 .. m |-> p[m - k + 1]]
    BY <2>3 DEF Reverse
  <2>. HIDE DEF p
  <2>5. \A k \in 1 .. m : p[m - k + 1] = h[n - i + 2 + k - 1]
    <3>1. TAKE k \in 1 .. m
    <3>2. m - k + 1 \in 1 .. m /\ m - k + 1 \in 1 .. n /\ n - (m - k + 1) + 1 = n - i + 2 + k - 1
      BY <1>1, <2>1
    <3>3. QED
      BY <1>4, <2>3, <3>2
  <2>6. SubSeq(h, n - i + 2, n) = [k \in 1 .. m |-> h[n - i + 2 + k - 1]]
    <3>1. n - (n - i + 2) + 1 = m
      BY <1>1, <2>1
    <3>2. SubSeq(h, n - i + 2, n) = [k \in 1 .. n - (n - i + 2) + 1 |-> h[n - i + 2 + k - 1]]
      BY <1>1
    <3>3. QED
      BY <3>1, <3>2
  <2>7. QED
    BY <2>4, <2>5, <2>6 DEF p
<1>7. QED
  BY <1>1, <1>3, <1>4, <1>5, <1>6 DEF Backwards

\* The nodes of a segmentation, EOS after its words, and the words before one of
\* them, the last one first
NodeOf(words, i) == IF i = Len(words) + 1 THEN Eos ELSE words[i]
Upto(words, i) == Reverse(SubSeq(words, 1, i - 1))

IsSegmentation(words) == \E h \in Histories[Eos] : words = Reverse(h)

\* The words of a segmentation begin at the start of the sentence and each after
\* the other; what is before one of them is a path to it.
LEMMA Segmentation ==
  ASSUME InputOK, NEW w, IsSegmentation(w)
  PROVE  /\ w \in Seq(1 .. Eos - 1) /\ w \in Seq(Nat) /\ Len(w) \in Nat
         /\ Start(NodeOf(w, 1)) = 0
         /\ \A i \in 1 .. Len(w) : NodeOf(w, i) = w[i] /\ w[i] # Eos
         /\ \A i \in 1 .. Len(w) + 1 :
              /\ NodeOf(w, i) \in 1 .. Eos
              /\ Start(NodeOf(w, i)) \in 0 .. lat.n
              /\ Start(NodeOf(w, i)) = lat.n <=> i = Len(w) + 1
              /\ Upto(w, i) \in Histories[NodeOf(w, i)]
         /\ \A i, j \in 1 .. Len(w) + 1 : i < j => Start(NodeOf(w, i)) < Start(NodeOf(w, j))
<1>1. PICK h \in Histories[Eos] : w = Reverse(h)
  BY DEF IsSegmentation
<1>2. PICK n : n = Len(h)
  OBVIOUS
<1>3. /\ lat.n \in Nat /\ Eos \in Nat \ {0} /\ Eos \in 1 .. Eos /\ Start(Eos) = lat.n
      /\ \A r \in 1 .. Eos : Start(r) \in 0 .. lat.n
  BY NodesOfLattice
<1>. DEFINE WordIds == 1 .. Eos - 1
<1>4. /\ h \in Seq(WordIds)
      /\ \A i \in 1 .. n : Start(h[i]) < lat.n /\ SubSeq(h, i + 1, n) \in Histories[h[i]]
      /\ \A i, j \in 1 .. n : i < j => Start(h[j]) < Start(h[i])
  BY <1>2, <1>3, PartsOfPaths
<1>. HIDE DEF WordIds
<1>5. /\ n \in Nat /\ w \in Seq(WordIds) /\ Len(w) = n
      /\ \A k \in 1 .. n : w[k] = h[n - k + 1] /\ n - k + 1 \in 1 .. n
      /\ \A i \in 1 .. n + 1 : Reverse(SubSeq(w, 1, i - 1)) = SubSeq(h, n - i + 2, n)
  <2>1. PICK W : W = WordIds
    OBVIOUS
  <2>2. h \in Seq(W)
    BY <1>4, <2>1
  <2>3. n \in Nat /\ w \in Seq(W) /\ Backwards(w, h, n)
    BY <1>1, <1>2, <2>2, ReversedPrefix, Zenon
  <2>4. QED
    BY <2>1, <2>3 DEF Backwards
<1>6. \A k \in 1 .. n : w[k] \in WordIds
  BY <1>5
<1>7. \A k \in 1 .. n : NodeOf(w, k) = w[k] /\ w[k] # Eos /\ w[k] \in 1 .. Eos /\ k # n + 1
  <2>1. \A x \in WordIds : x # Eos /\ x \in 1 .. Eos
    BY <1>3 DEF WordIds
  <2>2. QED
    BY <1>5, <1>6, <2>1 DEF NodeOf
<1>8. NodeOf(w, n + 1) = Eos
  BY <1>5 DEF NodeOf
<1>9. ASSUME NEW i \in 1 .. n + 1
      PROVE  /\ NodeOf(w, i) \in 1 .. Eos
             /\ Start(NodeOf(w, i)) \in 0 .. lat.n
             /\ Start(NodeOf(w, i)) = lat.n <=> i = n + 1
             /\ Upto(w, i) \in Histories[NodeOf(w, i)]
  <2>1. CASE i = n + 1
    <3>1. SubSeq(h, n - i + 2, n) = h
      <4>1. n - i + 2 = 1
        BY <1>5, <2>1
      <4>2. QED
        BY <1>2, <1>4, <4>1, SubSeqFull
    <3>2. Upto(w, i) = h
      BY <1>5, <3>1 DEF Upto
    <3>3. QED
      BY <1>1, <1>3, <1>8, <2>1, <3>2
  <2>2. CASE i # n + 1
    <3>1. PICK k : k = n - i + 1
      OBVIOUS
    <3>2. i \in 1 .. n /\ k \in 1 .. n /\ k + 1 = n - i + 2 /\ w[i] = h[k]
      BY <1>5, <2>2, <3>1
    <3>3. Upto(w, i) = SubSeq(h, k + 1, n)
      BY <1>5, <3>2 DEF Upto
    <3>4. Start(h[k]) < lat.n /\ SubSeq(h, k + 1, n) \in Histories[h[k]]
      BY <1>4, <3>2
    <3>5. NodeOf(w, i) = h[k] /\ NodeOf(w, i) \in 1 .. Eos
      BY <1>7, <3>2
    <3>6. Start(NodeOf(w, i)) \in 0 .. lat.n
      BY <1>3, <3>5
    <3>7. QED
      BY <1>3, <2>2, <3>3, <3>4, <3>5, <3>6
  <2>3. QED
    BY <2>1, <2>2
<1>10. Start(NodeOf(w, 1)) = 0
  <2>1. 1 \in 1 .. n + 1 /\ n - 1 + 2 = n + 1
    BY <1>5
  <2>2. Upto(w, 1) = SubSeq(h, n + 1, n)
    BY <1>5, <2>1 DEF Upto
  <2>3. SubSeq(h, n + 1, n) = <<>>
    <3>1. n + 1 \in Int /\ n \in Int /\ n + 1 > n
      BY <1>5
    <3>2. QED
      BY <3>1, SubSeqEmpty
  <2>4. <<>> \in Histories[NodeOf(w, 1)] /\ NodeOf(w, 1) \in 1 .. Eos
    BY <1>9, <2>1, <2>2, <2>3
  <2>5. QED
    BY <2>4, PathsOfLattice
<1>11. ASSUME NEW i \in 1 .. n + 1, NEW j \in 1 .. n + 1, i < j
       PROVE  Start(NodeOf(w, i)) < Start(NodeOf(w, j))
  <2>1. i \in 1 .. n /\ i # n + 1 /\ Start(NodeOf(w, i)) \in 0 .. lat.n
    BY <1>5, <1>9, <1>11
  <2>2. CASE j = n + 1
    <3>1. Start(NodeOf(w, i)) # lat.n
      BY <1>9, <2>1
    <3>2. QED
      BY <1>3, <1>8, <2>1, <2>2, <3>1
  <2>3. CASE j # n + 1
    <3>1. PICK k, m : k = n - i + 1 /\ m = n - j + 1
      OBVIOUS
    <3>2. j \in 1 .. n /\ k \in 1 .. n /\ m \in 1 .. n /\ m < k /\ w[i] = h[k] /\ w[j] = h[m]
      BY <1>5, <1>11, <2>1, <2>3, <3>1
    <3>3. Start(h[k]) < Start(h[m])
      BY <1>4, <3>2
    <3>4. QED
      BY <1>7, <2>1, <3>2, <3>3
  <2>4. QED
    BY <2>2, <2>3
<1>12. QED
  <2>1. w \in Seq(1 .. Eos - 1)
    BY <1>5 DEF WordIds
  <2>2. \A x \in WordIds : x \in Nat
    BY <1>3 DEF WordIds
  <2>3. w \in Seq(Nat)
    BY <1>5, <2>2
  <2>4. QED
    BY <1>5, <1>7, <1>9, <1>10, <1>11, <2>1, <2>3

\* The words before a place
LEMMA WordsUpto ==
  ASSUME NEW S, NEW w \in Seq(S), NEW i \in 1 .. Len(w) + 1
  PROVE  /\ Upto(w, i) \in Seq(S) /\ Len(Upto(w, i)) = i - 1
         /\ \A k \in 1 .. i - 1 : Upto(w, i)[k] = w[i - k]
         /\ Before(Upto(w, i)) = IF i = 1 THEN Bos ELSE w[i - 1]
<1>1. i \in Nat /\ i >= 1 /\ (\A k \in 1 .. i - 1 : w[k] \in S) /\ Len(w) \in Nat
  OBVIOUS
<1>. DEFINE p == SubSeq(w, 1, i - 1)
            m == i - 1
<1>2. p = [k \in 1 .. m |-> w[k]] /\ m \in Nat
  BY <1>1
<1>3. p \in Seq(S) /\ Len(p) = m /\ \A k \in 1 .. m : p[k] = w[k]
  BY <1>1, <1>2
<1>. HIDE DEF p
<1>4. Len(p) \in Nat /\ Reverse(p) \in Seq(S) /\ Backwards(Reverse(p), p, Len(p))
  BY <1>3, ReversedPrefix
<1>5. Upto(w, i) = Reverse(p)
  BY DEF Upto, p
<1>6. \A k \in 1 .. m : Reverse(p)[k] = p[m - k + 1] /\ m - k + 1 \in 1 .. m
  BY <1>3, <1>4 DEF Backwards
<1>7. \A k \in 1 .. m : Reverse(p)[k] = w[m - k + 1]
  BY <1>3, <1>6
<1>8. Len(Reverse(p)) = m
  BY <1>3, <1>4 DEF Backwards
<1>9. \A k \in 1 .. i - 1 : Upto(w, i)[k] = w[i - k]
  <2>1. \A k \in 1 .. m : m - k + 1 = i - k
    BY <1>1
  <2>2. QED
    BY <1>5, <1>7, <2>1
<1>10. Before(Upto(w, i)) = IF i = 1 THEN Bos ELSE w[i - 1]
  <2>1. CASE i = 1
    <3>1. Upto(w, i) = <<>>
      BY <1>4, <1>5, <1>8, <2>1, EmptySeq
    <3>2. QED
      BY <2>1, <3>1 DEF Before
  <2>2. CASE i # 1
    <3>1. 1 \in 1 .. i - 1 /\ Len(Upto(w, i)) # 0
      BY <1>1, <1>5, <1>8, <2>2
    <3>2. Upto(w, i) # <<>>
      BY <3>1
    <3>3. Upto(w, i)[1] = w[i - 1]
      BY <1>9, <3>1
    <3>4. QED
      BY <2>2, <3>2, <3>3 DEF Before
  <2>3. QED
    BY <2>1, <2>2
<1>11. QED
  BY <1>4, <1>5, <1>8, <1>9, <1>10

\* The score of a segmentation up to a boundary is that of its prefix up to the
\* word that is at or before the boundary.
LEMMA ScoreOfPrefix ==
  ASSUME InputOK, NEW w, IsSegmentation(w), NEW i \in 1 .. Len(w) + 1, NEW b \in Int,
         Start(NodeOf(w, i)) <= b, i = Len(w) + 1 \/ b < Start(NodeOf(w, i + 1))
  PROVE  ScoreUpTo(w, b) = PathScore(Upto(w, i), NodeOf(w, i))
<1>1. PICK n : n = Len(w)
  OBVIOUS
<1>2. /\ w \in Seq(Nat) /\ n \in Nat
      /\ \A j \in 1 .. n : NodeOf(w, j) = w[j]
      /\ \A j \in 1 .. n + 1 : Start(NodeOf(w, j)) \in 0 .. lat.n
      /\ \A j, k \in 1 .. n + 1 : j < k => Start(NodeOf(w, j)) < Start(NodeOf(w, k))
  BY <1>1, Segmentation
<1>3. Eos \in Nat
  BY NodesOfLattice
<1>. DEFINE nodes == Append(w, Eos)
<1>4. /\ DOMAIN nodes = 1 .. n + 1
      /\ \A j \in 1 .. n : nodes[j] = w[j]
      /\ nodes[n + 1] = Eos
      /\ nodes \in Seq(Nat) /\ Len(nodes) = n + 1
  BY <1>1, <1>2, <1>3
<1>5. \A j \in 1 .. n + 1 : nodes[j] = NodeOf(w, j)
  BY <1>1, <1>2, <1>4 DEF NodeOf
<1>6. SubSeq(nodes, 1, i - 1) = SubSeq(w, 1, i - 1)
  <2>1. i \in Nat /\ i >= 1 /\ i <= n + 1 /\ Len(w) = n /\ w \in Seq(Nat)
    BY <1>1, <1>2
  <2>2. SubSeq(w, 1, i - 1) = [k \in 1 .. i - 1 |-> w[k]]
    BY <2>1
  <2>. HIDE DEF nodes
  <2>3. SubSeq(nodes, 1, i - 1) = [k \in 1 .. i - 1 |-> nodes[k]]
    BY <1>4, <2>1
  <2>4. \A k \in 1 .. i - 1 : nodes[k] = w[k]
    BY <1>2, <1>4, <2>1
  <2>5. QED
    BY <2>2, <2>3, <2>4
<1>. HIDE DEF nodes
<1>7. {j \in DOMAIN nodes : Start(nodes[j]) <= b} = 1 .. i
  <2>1. lat.n \in Nat /\ i \in 1 .. n + 1
    BY <1>1, NodesOfLattice
  <2>2. ASSUME NEW j \in 1 .. n + 1
        PROVE  Start(NodeOf(w, j)) <= b <=> j <= i
    <3>1. Start(NodeOf(w, j)) \in Int /\ Start(NodeOf(w, i)) \in Int
      BY <1>2, <2>1
    <3>2. CASE j <= i
      <4>1. Start(NodeOf(w, j)) <= Start(NodeOf(w, i))
        BY <1>2, <2>1, <3>1, <3>2
      <4>2. QED
        BY <3>1, <3>2, <4>1
    <3>3. CASE i < j
      <4>1. i + 1 \in 1 .. n + 1 /\ i # n + 1 /\ (i + 1 < j \/ i + 1 = j)
        BY <1>2, <2>1, <3>3
      <4>2. b < Start(NodeOf(w, i + 1)) /\ Start(NodeOf(w, i + 1)) \in Int
        BY <1>1, <1>2, <2>1, <4>1
      <4>3. Start(NodeOf(w, i + 1)) <= Start(NodeOf(w, j))
        BY <1>2, <3>1, <4>1, <4>2
      <4>4. QED
        BY <1>2, <3>1, <3>3, <4>2, <4>3
    <3>4. QED
      BY <1>2, <2>1, <3>2, <3>3
  <2>3. \A j \in 1 .. n + 1 : Start(nodes[j]) <= b <=> j <= i
    BY <1>5, <2>2
  <2>4. 1 .. i = {j \in 1 .. n + 1 : j <= i}
    BY <1>2, <2>1
  <2>5. QED
    BY <1>4, <2>3, <2>4
<1>8. Cardinality(1 .. i) = i /\ i # 0 /\ i \in 1 .. n + 1
  <2>1. i \in Nat /\ i >= 1
    BY <1>1, <1>2
  <2>2. QED
    BY <1>1, <2>1, FS_Interval
<1>9. QED
  BY <1>5, <1>6, <1>7, <1>8 DEF ScoreUpTo, nodes, Upto

\* Nothing is taken from the scores of the features.
NoPenalty == \A r \in 1 .. Eos : lat.penalty[r] = 0

\* The gold nodes, counted from zero, and the trigrams of the gold path
LEMMA NodesOfGold ==
  ASSUME InputOK, IsSegmentation(gold)
  PROVE  /\ GoldNode(-2) = -1 /\ GoldNode(-1) = Bos
         /\ \A i \in 1 .. Len(gold) + 1 : GoldNode(i - 1) = NodeOf(gold, i)
         /\ \A i \in 1 .. Len(gold) : GoldNode(i - 1) = gold[i]
<1>1. Len(gold) \in Nat
  BY Segmentation
<1>2. GoldNode(-2) = -1 /\ GoldNode(-1) = Bos
  BY DEF GoldNode
<1>3. ASSUME NEW i \in 1 .. Len(gold) + 1
      PROVE  GoldNode(i - 1) = NodeOf(gold, i) /\ (i # Len(gold) + 1 => GoldNode(i - 1) = gold[i])
  <2>1. i \in Int /\ i - 1 # -2 /\ i - 1 # -1 /\ (i - 1) + 1 = i
        /\ (i - 1 = Len(gold) <=> i = Len(gold) + 1)
    BY <1>1
  <2>2. CASE i = Len(gold) + 1
    BY <2>1, <2>2 DEF GoldNode, NodeOf
  <2>3. CASE i # Len(gold) + 1
    BY <2>1, <2>3 DEF GoldNode, NodeOf
  <2>4. QED
    BY <2>2, <2>3
<1>4. QED
  BY <1>1, <1>2, <1>3

\* computeGoldScores: the partial sums of the scores of the gold nodes are the
\* scores of the gold path up to each of them.
LEMMA ScoresOfGold ==
  ASSUME InputOK, NoPenalty, IsSegmentation(gold), NEW i \in 1 .. Len(gold) + 1
  PROVE  /\ GoldScores[i - 1] = PathScore(Upto(gold, i), NodeOf(gold, i))
         /\ GoldScores[i - 1] \in Int
<1>1. PICK n, h, r : n = Len(gold) /\ h = Upto(gold, i) /\ r = NodeOf(gold, i)
  OBVIOUS
<1>2. /\ n \in Nat /\ gold \in Seq(Nat) /\ i \in 1 .. n + 1 /\ i \in Nat
      /\ \A k \in 1 .. n + 1 : /\ NodeOf(gold, k) \in 1 .. Eos
                               /\ Upto(gold, k) \in Histories[NodeOf(gold, k)]
  BY <1>1, Segmentation
<1>3. h \in Seq(Nat) /\ Len(h) = i - 1 /\ (\A k \in 1 .. i - 1 : h[k] = gold[i - k]) /\ r \in Nat
  <2>1. r \in 1 .. Eos /\ Eos \in Nat
    BY <1>1, <1>2, NodesOfLattice
  <2>2. /\ Upto(gold, i) \in Seq(Nat) /\ Len(Upto(gold, i)) = i - 1
        /\ \A k \in 1 .. i - 1 : Upto(gold, i)[k] = gold[i - k]
    <3>1. gold \in Seq(Nat)
      BY <1>2
    <3>2. QED
      BY <3>1, WordsUpto
  <2>3. QED
    BY <1>1, <2>1, <2>2
<1>4. \A k \in 1 .. n + 1 : GoldNode(k - 1) = NodeOf(gold, k)
  BY <1>1, NodesOfGold
<1>5. \A k \in 1 .. n : GoldNode(k - 1) = gold[k]
  BY <1>1, NodesOfGold
<1>6. PICK w : w = Way(h, r)
  OBVIOUS
<1>7. \A k \in 1 .. i + 2 : w[k] = GoldNode(k - 3)
  <2>1. w[1] = -1 /\ w[2] = 0 /\ w[i + 2] = r /\ \A k \in 1 .. i - 1 : w[k + 2] = h[i - k]
    <3>1. /\ Way(h, r)[1] = -1 /\ Way(h, r)[2] = 0 /\ Way(h, r)[Len(h) + 3] = r
          /\ \A k \in 1 .. Len(h) : Way(h, r)[k + 2] = h[Len(h) - k + 1]
      BY <1>3, NodesAlongPath
    <3>2. Len(h) + 3 = i + 2 /\ \A k \in 1 .. i - 1 : Len(h) - k + 1 = i - k
      BY <1>2, <1>3
    <3>3. QED
      BY <1>3, <1>6, <3>1, <3>2
  <2>2. SUFFICES ASSUME NEW k \in 1 .. i + 2 PROVE w[k] = GoldNode(k - 3)
    OBVIOUS
  <2>3. CASE k = 1 \/ k = 2
    <3>1. (k - 3 = -2 /\ k = 1) \/ (k - 3 = -1 /\ k = 2)
      BY <2>3
    <3>2. QED
      BY <2>1, <3>1, NodesOfGold DEF Bos
  <2>4. CASE k = i + 2
    <3>1. k - 3 = i - 1
      BY <1>2, <2>4
    <3>2. QED
      BY <1>1, <1>2, <1>4, <2>1, <2>4, <3>1
  <2>5. CASE k \in 3 .. i + 1
    <3>1. PICK m : m = k - 2
      OBVIOUS
    <3>2. m \in 1 .. i - 1 /\ m + 2 = k /\ i - m \in 1 .. i - 1 /\ i - (i - m) = m
          /\ m \in 1 .. n /\ m - 1 = k - 3
      BY <1>2, <2>5, <3>1
    <3>3. w[k] = h[i - m] /\ h[i - m] = gold[m]
      <4>1. w[m + 2] = h[i - m]
        BY <2>1, <3>2
      <4>2. h[i - m] = gold[i - (i - m)]
        BY <1>3, <3>2
      <4>3. QED
        BY <3>2, <4>1, <4>2
    <3>4. GoldNode(m - 1) = gold[m]
      BY <1>5, <3>2
    <3>5. QED
      BY <3>2, <3>3, <3>4
  <2>6. QED
    BY <1>2, <2>3, <2>4, <2>5
<1>8. ASSUME NEW j \in 1 .. i
      PROVE  /\ <<w[j], w[j + 1], w[j + 2]>> = GoldTrigram(j - 1)
             /\ TrigramScore(GoldTrigram(j - 1)) = lat.score[GoldTrigram(j - 1)]
             /\ lat.score[GoldTrigram(j - 1)] \in Int
  <2>1. <<w[j], w[j + 1], w[j + 2]>> = GoldTrigram(j - 1)
    <3>1. j \in 1 .. i + 2 /\ j + 1 \in 1 .. i + 2 /\ j + 2 \in 1 .. i + 2
          /\ (j + 1) - 3 = (j - 1) - 1 /\ (j + 2) - 3 = j - 1 /\ j - 3 = (j - 1) - 2
      BY <1>2
    <3>2. QED
      BY <1>7, <3>1 DEF GoldTrigram
  <2>2. PICK a, l, t : a = GoldNode((j - 1) - 2) /\ l = GoldNode((j - 1) - 1) /\ t = GoldNode(j - 1)
    OBVIOUS
  <2>3. GoldTrigram(j - 1) = <<a, l, t>>
    BY <2>2 DEF GoldTrigram
  <2>4. t = NodeOf(gold, j) /\ t \in 1 .. Eos /\ j \in 1 .. n + 1
    <3>1. j \in 1 .. n + 1
      BY <1>2
    <3>2. QED
      BY <1>2, <1>4, <2>2, <3>1
  <2>5. Before(Upto(gold, j)) \in Left(Start(t))
    BY <1>2, <2>4, PathsOfLattice
  <2>6. Before(Upto(gold, j)) = IF j = 1 THEN Bos ELSE gold[j - 1]
    BY <1>1, <1>2, <2>4, WordsUpto
  <2>7. CASE j = 1
    <3>1. (j - 1) - 2 = -2 /\ (j - 1) - 1 = -1
      BY <2>7
    <3>2. a = -1 /\ l = Bos /\ l \in Left(Start(t))
      BY <2>2, <2>5, <2>6, <2>7, <3>1, NodesOfGold
    <3>3. <<a, l, t>> \in Linked(lat)
      BY <2>4, <3>2, TrigramsHaveScores
    <3>4. lat.score[<<a, l, t>>] \in Int /\ lat.penalty[t] = 0
      BY <2>4, <3>3 DEF InputOK, NoPenalty
    <3>5. QED
      BY <2>1, <2>3, <3>4 DEF TrigramScore
  <2>8. CASE j # 1
    <3>1. PICK m : m = j - 1
      OBVIOUS
    <3>2. m \in 1 .. n /\ m \in 1 .. n + 1 /\ (j - 1) - 1 = m - 1 /\ (j - 1) - 2 = m - 2
      BY <1>2, <2>8, <3>1
    <3>3. l = gold[m] /\ l = NodeOf(gold, m) /\ l \in 1 .. Eos /\ l \in Left(Start(t))
      BY <1>2, <1>4, <1>5, <2>2, <2>5, <2>6, <2>8, <3>1, <3>2
    <3>4. Before(Upto(gold, m)) \in Left(Start(l))
      BY <1>2, <3>2, <3>3, PathsOfLattice
    <3>5. Before(Upto(gold, m)) = IF m = 1 THEN Bos ELSE gold[m - 1]
      BY <1>1, <1>2, <3>2, WordsUpto
    <3>6. a \in Left(Start(l))
      <4>1. CASE m = 1
        <5>1. m - 2 = -1
          BY <4>1
        <5>2. QED
          BY <2>2, <3>2, <3>4, <3>5, <4>1, <5>1, NodesOfGold
      <4>2. CASE m # 1
        <5>1. PICK k : k = m - 1
          OBVIOUS
        <5>2. k \in 1 .. n /\ k - 1 = m - 2
          BY <1>2, <3>2, <4>2, <5>1
        <5>3. QED
          BY <1>5, <2>2, <3>2, <3>4, <3>5, <4>2, <5>1, <5>2
      <4>3. QED
        BY <4>1, <4>2
    <3>7. l # Bos
      BY <3>3, NodesOfLattice
    <3>8. <<a, l, t>> \in Linked(lat)
      BY <2>4, <3>3, <3>6, <3>7, TrigramsHaveScores
    <3>9. lat.score[<<a, l, t>>] \in Int /\ lat.penalty[t] = 0
      BY <2>4, <3>8 DEF InputOK, NoPenalty
    <3>10. QED
      BY <2>1, <2>3, <3>9 DEF TrigramScore
  <2>9. QED
    BY <2>7, <2>8
<1>9. PICK f, g :
        /\ f = [j \in 1 .. i |-> lat.score[GoldTrigram(j - 1)]]
        /\ g = [j \in 1 .. i |-> TrigramScore(<<w[j], w[j + 1], w[j + 2]>>)]
  OBVIOUS
<1>10. \A j \in 1 .. i : f[j] = g[j]
  BY <1>8, <1>9
<1>11. PathScore(h, r) = SumTo(g, i)
  <2>1. Len(h) + 1 = i
    BY <1>2, <1>3
  <2>2. QED
    BY <1>6, <1>9, <2>1 DEF PathScore, SumOver
<1>12. GoldScores[i - 1] = SumTo(f, i)
  <2>1. i - 1 \in 0 .. n /\ (i - 1) + 1 = i
    BY <1>2
  <2>2. QED
    BY <1>1, <1>9, <2>1 DEF GoldScores
<1>13. SumTo(f, i) = SumTo(g, i)
  BY <1>2, <1>10, SumOfSame
<1>14. PathScore(h, r) \in Int
  BY <1>1, <1>2, PathsOfLattice
<1>15. QED
  BY <1>1, <1>11, <1>12, <1>13, <1>14

PlaceOf(el) == [node |-> el.left, beam |-> el.beam]

\* The places before an element, or before a node, are there.
LEMMA PlacesUnroll ==
  ASSUME InputOK,
         \A r \in 1 .. Eos : \A k \in DOMAIN beams[r] : Points(beams[r][k], Start(r))
  PROVE  \A r \in 1 .. Eos : \A k \in DOMAIN beams[r] :
           Places[r][k] = IF Start(r) = 0 THEN <<>>
                         ELSE Append(Places[beams[r][k].left][beams[r][k].beam], PlaceOf(beams[r][k]))
<1>. DEFINE At(w, r, k) == IF Start(r) = 0 THEN <<>>
                           ELSE Append(w[beams[r][k].left][beams[r][k].beam], PlaceOf(beams[r][k]))
            F(w) == [r \in 1 .. Eos |-> [k \in DOMAIN beams[r] |-> At(w, r, k)]]
            Good(w, m) == \A r \in 1 .. Eos : Start(r) <= m => w[r] = F(w)[r]
            M == {m \in Nat : \E w : Good(w, m)}
<1>1. lat.n \in Nat /\ \A r \in 1 .. Eos : Start(r) \in 0 .. lat.n
  BY NodesOfLattice
<1>2. ASSUME NEW w, NEW v, NEW r \in 1 .. Eos,
             \A l \in 1 .. Eos : Start(l) < Start(r) => w[l] = v[l]
      PROVE  F(w)[r] = F(v)[r]
  <2>1. ASSUME NEW k \in DOMAIN beams[r]
        PROVE  At(w, r, k) = At(v, r, k)
    <3>1. CASE Start(r) = 0
      BY <3>1
    <3>2. CASE Start(r) # 0
      <4>1. beams[r][k].left \in Left(Start(r))
        BY <2>1 DEF Points
      <4>2. beams[r][k].left \in 1 .. Eos /\ Start(beams[r][k].left) < Start(r)
        BY <1>1, <3>2, <4>1, NodesOfLattice
      <4>3. QED
        BY <1>2, <4>2
    <3>3. QED
      BY <3>1, <3>2
  <2>. HIDE DEF At
  <2>2. QED
    BY <2>1
<1>3. 0 \in M
  <2>. DEFINE w == F(<<>>)
  <2>1. \A r \in 1 .. Eos : Start(r) <= 0 => w[r] = F(w)[r]
    <3>1. SUFFICES ASSUME NEW r \in 1 .. Eos, Start(r) <= 0 PROVE w[r] = F(w)[r]
      OBVIOUS
    <3>2. \A l \in 1 .. Eos : ~(Start(l) < Start(r))
      BY <1>1, <3>1
    <3>. HIDE DEF F, w
    <3>3. F(<<>>)[r] = F(w)[r]
      BY <1>2, <3>2
    <3>4. QED
      BY <3>3 DEF w
  <2>. HIDE DEF F, w
  <2>2. QED
    BY <2>1
<1>4. ASSUME NEW m \in Nat, m \in M
      PROVE  m + 1 \in M
  <2>. HIDE DEF F
  <2>1. PICK w : Good(w, m)
    BY <1>4
  <2>2. ASSUME NEW r \in 1 .. Eos, Start(r) <= m + 1
        PROVE  F(w)[r] = F(F(w))[r]
    <3>1. \A l \in 1 .. Eos : Start(l) < Start(r) => w[l] = F(w)[l]
      <4>1. \A l \in 1 .. Eos : Start(l) < Start(r) => Start(l) <= m
        BY <1>1, <2>2
      <4>2. QED
        BY <2>1, <4>1
    <3>2. PICK v : v = F(w)
      OBVIOUS
    <3>3. F(w)[r] = F(v)[r]
      BY <1>2, <3>1, <3>2
    <3>4. QED
      BY <3>2, <3>3
  <2>3. Good(F(w), m + 1)
    BY <2>2
  <2>. HIDE DEF Good
  <2>4. QED
    BY <2>3
<1>5. \E w : w = F(w)
  <2>1. lat.n \in M
    <3>. HIDE DEF M
    <3>1. QED
      BY <1>1, <1>3, <1>4, SetInduction
  <2>. HIDE DEF F
  <2>2. PICK w : Good(w, lat.n)
    BY <2>1
  <2>3. \A r \in 1 .. Eos : w[r] = F(w)[r]
    BY <1>1, <2>2
  <2>4. PICK v : v = F(w)
    OBVIOUS
  <2>5. \A r \in 1 .. Eos : v[r] = F(v)[r]
    <3>1. TAKE r \in 1 .. Eos
    <3>2. F(w)[r] = F(v)[r]
      BY <1>2, <2>3, <2>4
    <3>3. QED
      BY <2>4, <3>2
  <2>6. v = F(v)
    <3>1. v = [r \in 1 .. Eos |-> v[r]]
      BY <2>4 DEF F
    <3>2. F(v) = [r \in 1 .. Eos |-> F(v)[r]]
      BY DEF F
    <3>3. QED
      BY <2>5, <3>1, <3>2
  <2>7. QED
    BY <2>6
<1>6. Places = F(Places)
  <2>1. Places = CHOOSE w : w = F(w)
    BY DEF Places, PlaceOf
  <2>. HIDE DEF F
  <2>2. QED
    BY <1>5, <2>1
<1>7. \A r \in 1 .. Eos : \A k \in DOMAIN beams[r] : Places[r][k] = At(Places, r, k)
  <2>. HIDE DEF At
  <2>1. PICK w : w = Places
    OBVIOUS
  <2>2. w = F(w)
    BY <1>6, <2>1
  <2>3. \A r \in 1 .. Eos : w[r] = [k \in DOMAIN beams[r] |-> At(w, r, k)]
    BY <2>2
  <2>4. \A r \in 1 .. Eos : \A k \in DOMAIN beams[r] : w[r][k] = At(w, r, k)
    BY <2>3
  <2>5. QED
    BY <2>1, <2>4
<1>8. QED
  BY <1>7

\* The places before an element: those of its trace, and the trace of each is
\* the rest of it.
LEMMA PlacesOfElement ==
  ASSUME InputOK, TypesOK, BeamsOK
  PROVE  \A r \in 1 .. Eos : \A k \in DOMAIN beams[r] :
           /\ Places[r][k] \in Seq([node : Nat, beam : Nat])
           /\ Len(Places[r][k]) = Len(Trace(r, k))
           /\ \A i \in 1 .. Len(Trace(r, k)) :
                LET p == Places[r][k][i]
                    n == Len(Trace(r, k))
                IN /\ p.node = Trace(r, k)[n - i + 1]
                   /\ p.beam \in DOMAIN beams[p.node]
                   /\ Trace(p.node, p.beam) = SubSeq(Trace(r, k), n - i + 2, n)
<1>. DEFINE PlaceSet == [node : Nat, beam : Nat]
            Goes(p, h, n, i) == /\ p[i].node = h[n - i + 1]
                                /\ p[i].beam \in DOMAIN beams[p[i].node]
                                /\ Trace(p[i].node, p[i].beam) = SubSeq(h, n - i + 2, n)
            Fine(p, h) == /\ p \in Seq(PlaceSet) /\ Len(p) = Len(h)
                          /\ \A i \in 1 .. Len(h) : Goes(p, h, Len(h), i)
            S == {r \in 1 .. Eos : \A k \in DOMAIN beams[r] : Fine(Places[r][k], Trace(r, k))}
<1>1. \A r \in 1 .. Eos : \A k \in DOMAIN beams[r] :
        Trace(r, k) = WayOf(beams[r][k]) /\ Points(beams[r][k], Start(r))
  BY TraceOfElement
<1>2. \A r \in 1 .. Eos : \A k \in DOMAIN beams[r] :
        Places[r][k] = IF Start(r) = 0 THEN <<>>
                       ELSE Append(Places[beams[r][k].left][beams[r][k].beam], PlaceOf(beams[r][k]))
  BY <1>1, PlacesUnroll
<1>3. ASSUME NEW r \in 1 .. Eos,
             \A l \in 1 .. Eos : Start(l) < Start(r) => l \in S
      PROVE  r \in S
  <2>1. SUFFICES ASSUME NEW k \in DOMAIN beams[r] PROVE Fine(Places[r][k], Trace(r, k))
    OBVIOUS
  <2>2. PICK l, m : l = beams[r][k].left /\ m = beams[r][k].beam
    OBVIOUS
  <2>3. l \in Left(Start(r)) /\ m \in DOMAIN beams[l] /\ Start(r) \in 0 .. lat.n
    BY <1>1, <2>2, NodesOfLattice DEF Points
  <2>4. CASE Start(r) = 0
    <3>1. l = Bos
      BY <2>3, <2>4, NodesOfLattice
    <3>2. Places[r][k] = <<>> /\ Trace(r, k) = <<>>
      BY <1>1, <1>2, <2>2, <2>4, <3>1 DEF WayOf
    <3>3. Fine(<<>>, <<>>)
      OBVIOUS
    <3>. HIDE DEF Fine
    <3>4. QED
      BY <3>2, <3>3
  <2>5. CASE Start(r) # 0
    <3>1. l \in 1 .. Eos /\ Start(l) < Start(r) /\ l # Bos /\ l \in Nat
      BY <2>3, <2>5, NodesOfLattice
    <3>2. PICK p, q, g, h, n :
            p = Places[r][k] /\ q = Places[l][m] /\ g = Trace(l, m) /\ h = Trace(r, k) /\ n = Len(g)
      OBVIOUS
    <3>3. Fine(q, g)
      BY <1>3, <2>3, <3>1, <3>2
    <3>4. g \in Seq(Nat) /\ n \in Nat
      <4>1. g \in Histories[l]
        BY <1>1, <2>3, <3>1, <3>2, WaysArePaths
      <4>2. g \in Seq(Nat)
        BY <3>1, <4>1, PathsOfLattice
      <4>3. QED
        BY <3>2, <4>2
    <3>5. h = <<l>> \o g
      BY <1>1, <2>1, <2>2, <3>1, <3>2 DEF WayOf
    <3>6. h \in Seq(Nat) /\ InFront(h, l, g)
      BY <3>1, <3>4, <3>5, OneMoreInFront
    <3>7. Len(h) = n + 1 /\ h[1] = l /\ (\A i \in 1 .. n : h[i + 1] = g[i])
          /\ \A i \in 1 .. n + 1 : SubSeq(h, i + 1, n + 1) = SubSeq(g, i, n)
      BY <3>2, <3>6 DEF InFront
    <3>. DEFINE e == [node |-> l, beam |-> m]
    <3>8. p = Append(q, e)
      BY <1>2, <2>1, <2>2, <2>5, <3>2 DEF PlaceOf
    <3>9. m \in Nat
      <4>1. l \in NodeIds
        BY <2>3, NodesOfLattice
      <4>2. DOMAIN beams[l] = 1 .. Len(beams[l])
        BY <4>1, BeamFacts
      <4>3. QED
        BY <2>3, <4>2
    <3>10. e \in PlaceSet /\ q \in Seq(PlaceSet) /\ Len(q) = n
      BY <3>1, <3>2, <3>3, <3>9
    <3>. HIDE DEF PlaceSet
    <3>11. /\ p \in Seq(PlaceSet) /\ Len(p) = n + 1 /\ p[n + 1] = e
           /\ \A i \in 1 .. n : p[i] = q[i]
      <4>. HIDE DEF e
      <4>1. QED
        BY <3>8, <3>10, AppendProperties
    <3>12. ASSUME NEW i \in 1 .. n + 1
           PROVE  Goes(p, h, n + 1, i)
      <4>1. CASE i = n + 1
        <5>1. (n + 1) - i + 1 = 1 /\ (n + 1) - i + 2 = 1 + 1 /\ 1 \in 1 .. n + 1
          BY <3>4, <4>1
        <5>2. p[i].node = l /\ p[i].beam = m
          BY <3>11, <4>1
        <5>3. SubSeq(h, 1 + 1, n + 1) = g
          <6>1. SubSeq(g, 1, n) = g
            BY <3>2, <3>4, SubSeqFull
          <6>2. QED
            BY <3>7, <5>1, <6>1
        <5>4. QED
          BY <2>3, <3>2, <3>7, <5>1, <5>2, <5>3
      <4>2. CASE i # n + 1
        <5>1. i \in 1 .. n /\ n - i + 1 \in 1 .. n /\ (n + 1) - i + 1 = (n - i + 1) + 1
              /\ n - i + 2 \in 1 .. n + 1 /\ (n + 1) - i + 2 = (n - i + 2) + 1
          BY <3>4, <4>2
        <5>2. Goes(q, g, n, i)
          BY <3>2, <3>3, <5>1
        <5>3. h[(n + 1) - i + 1] = g[n - i + 1]
          <6>1. PICK j : j = n - i + 1
            OBVIOUS
          <6>2. j \in 1 .. n /\ (n + 1) - i + 1 = j + 1
            BY <5>1, <6>1
          <6>3. h[j + 1] = g[j]
            BY <3>7, <6>2
          <6>4. QED
            BY <6>1, <6>2, <6>3
        <5>4. SubSeq(h, (n + 1) - i + 2, n + 1) = SubSeq(g, n - i + 2, n)
          BY <3>7, <5>1
        <5>5. p[i] = q[i]
          BY <3>11, <5>1
        <5>6. QED
          BY <5>2, <5>3, <5>4, <5>5
      <4>3. QED
        BY <4>1, <4>2
    <3>. HIDE DEF Goes
    <3>13. Fine(p, h)
      BY <3>7, <3>11, <3>12
    <3>14. QED
      BY <3>2, <3>13
  <2>6. QED
    BY <2>4, <2>5
<1>. HIDE DEF S
<1>4. S = 1 .. Eos
  <2>1. S \in SUBSET (1 .. Eos)
    BY DEF S
  <2>2. QED
    BY <1>3, <2>1, NodeInduction
<1>5. QED
  <2>1. \A r \in 1 .. Eos : \A k \in DOMAIN beams[r] : Fine(Places[r][k], Trace(r, k))
    BY <1>4 DEF S
  <2>2. QED
    BY <2>1

\* The best path is a segmentation; the element of each of its words has the
\* score of the path up to this word.
LEMMA BestPathWords ==
  ASSUME IInv, pc = "done"
  PROVE  /\ IsSegmentation(TopWords) /\ Len(TopWords) = Len(Top1) /\ Len(Top1) \in Nat
         /\ \A i \in 1 .. Len(Top1) : /\ TopWords[i] = Top1[i].node
                                      /\ Top1[i].node \in 1 .. Eos
                                      /\ Top1[i].beam \in DOMAIN beams[Top1[i].node]
         /\ 1 \in DOMAIN beams[Eos]
         /\ ~cfg.extra =>
              /\ \A i \in 1 .. Len(Top1) :
                   beams[Top1[i].node][Top1[i].beam].total = PathScore(Upto(TopWords, i), TopWords[i])
              /\ beams[Eos][1].total = PathScore(Upto(TopWords, Len(Top1) + 1), Eos)
<1>1. InputOK /\ PhaseOK /\ TypesOK /\ BeamsOK /\ Processed = 1 .. Eos /\ Eos \in 1 .. Eos
  BY NodesOfLattice DEF IInv, Processed
<1>2. PICK h, n, p : h = Trace(Eos, 1) /\ n = Len(h) /\ p = Top1
  OBVIOUS
<1>3. 1 \in DOMAIN beams[Eos] /\ h \in Histories[Eos]
  BY <1>2, ResultOfEos
<1>4. h \in Seq(Nat) /\ n \in Nat
  <2>1. h \in Seq(Nat)
    BY <1>1, <1>3, PathsOfLattice
  <2>2. QED
    BY <1>2, <2>1
<1>5. /\ p \in Seq([node : Nat, beam : Nat]) /\ Len(p) = n
      /\ \A i \in 1 .. n : /\ p[i].node = h[n - i + 1]
                           /\ p[i].beam \in DOMAIN beams[p[i].node]
                           /\ Trace(p[i].node, p[i].beam) = SubSeq(h, n - i + 2, n)
  BY <1>1, <1>2, <1>3, PlacesOfElement DEF Top1
<1>6. PICK w : w = Reverse(h)
  OBVIOUS
<1>7. w \in Seq(Nat) /\ Backwards(w, h, n)
  BY <1>2, <1>4, <1>6, ReversedPrefix
<1>8. Len(w) = n /\ (\A k \in 1 .. n : w[k] = h[n - k + 1])
      /\ \A i \in 1 .. n + 1 : Upto(w, i) = SubSeq(h, n - i + 2, n)
  BY <1>7 DEF Backwards, Upto
<1>9. DOMAIN p = 1 .. n
  BY <1>4, <1>5
<1>10. TopWords = w
  <2>1. TopWords = [i \in 1 .. n |-> p[i].node]
    BY <1>2, <1>9 DEF TopWords
  <2>2. w = [i \in 1 .. n |-> w[i]]
    BY <1>4, <1>7, <1>8
  <2>3. \A i \in 1 .. n : p[i].node = w[i]
    BY <1>5, <1>8
  <2>4. QED
    BY <2>1, <2>2, <2>3
<1>11. IsSegmentation(w)
  BY <1>3, <1>6 DEF IsSegmentation
<1>12. \A i \in 1 .. n : w[i] \in 1 .. Eos
  <2>1. /\ \A i \in 1 .. Len(w) : NodeOf(w, i) = w[i]
        /\ \A i \in 1 .. Len(w) + 1 : NodeOf(w, i) \in 1 .. Eos
    BY <1>1, <1>11, Segmentation
  <2>2. \A i \in 1 .. n : i \in 1 .. n + 1
    BY <1>4
  <2>3. QED
    BY <1>8, <2>1, <2>2
<1>13. ASSUME ~cfg.extra
       PROVE  /\ \A i \in 1 .. n : beams[p[i].node][p[i].beam].total = PathScore(Upto(w, i), w[i])
              /\ beams[Eos][1].total = PathScore(Upto(w, n + 1), Eos)
  <2>1. Pure
    BY <1>13 DEF Pure
  <2>2. \A r \in 1 .. Eos : \A k \in DOMAIN beams[r] : beams[r][k].total = PathScore(Trace(r, k), r)
    BY <1>1, <2>1, TotalsOfPaths
  <2>3. ASSUME NEW i \in 1 .. n
        PROVE  beams[p[i].node][p[i].beam].total = PathScore(Upto(w, i), w[i])
    <3>1. p[i].node = w[i] /\ w[i] \in 1 .. Eos /\ p[i].beam \in DOMAIN beams[w[i]]
          /\ Trace(w[i], p[i].beam) = Upto(w, i)
      <4>1. i \in 1 .. n + 1
        BY <1>4
      <4>2. QED
        BY <1>5, <1>8, <1>12, <4>1
    <3>2. QED
      BY <2>2, <3>1
  <2>4. Upto(w, n + 1) = h
    <3>1. n + 1 \in 1 .. n + 1 /\ n - (n + 1) + 2 = 1
      BY <1>4
    <3>2. Upto(w, n + 1) = SubSeq(h, 1, n)
      BY <1>8, <3>1
    <3>3. QED
      BY <1>2, <1>4, <3>2, SubSeqFull
  <2>5. beams[Eos][1].total = PathScore(h, Eos)
    BY <1>1, <1>2, <1>3, <2>2
  <2>6. QED
    BY <2>3, <2>4, <2>5
<1>14. QED
  BY <1>2, <1>3, <1>4, <1>5, <1>8, <1>10, <1>11, <1>12, <1>13

\* The lattice of a full annotation is scored by the features alone, without a
\* plugin or an additional scorer.
TrainingInput ==
  lat.user = "fullTraining" => NoPenalty /\ ~cfg.extra /\ IsSegmentation(gold) /\ mode \in Modes

\* Nothing has been compared.
Fresh == comparison = <<>> /\ curTop = 0 /\ curGold = 0 /\ loss = -1

\* The steps a comparison records
Steps == [class : {"Both", "TopOnly", "GoldOnly"}, boundary : Int, top : Int, gold : Int,
          topTrigram : Seq(Int), numGold : Int, lastGoldScore : Int, violation : Int,
          mismatches : Nat, weight : Nat, goldInBeam : BOOLEAN]

\* What a step says is right.
StepOK(s) ==
  /\ s.boundary \in 0 .. lat.n
  /\ s.class = "TopOnly" <=> s.gold = 0
  /\ s.class = "GoldOnly" <=> s.top = 0
  /\ s.top # 0 => s.top \in 1 .. Eos /\ Start(s.top) = s.boundary
  /\ s.gold # 0 => /\ s.gold \in 1 .. Eos /\ Start(s.gold) = s.boundary
                   /\ s.numGold \in 0 .. Len(gold) /\ s.gold = NodeOf(gold, s.numGold + 1)
                   /\ s.goldInBeam = GoldStillInBeam(s.gold, s.numGold)
  /\ s.lastGoldScore = ScoreUpTo(gold, s.boundary)
  /\ s.class # "GoldOnly" =>
       s.violation = ScoreUpTo(TopWords, s.boundary) - ScoreUpTo(gold, s.boundary)
  /\ s.class = "Both" =>
       s.weight = IF s.boundary = lat.n THEN 0 ELSE WeightOf(Mismatches(s.top, s.gold))

\* All steps compare words of both paths.
AllBoth(c) == \A i \in 1 .. Len(c) : c[i].class = "Both"

\* Both paths have the same segmentation.
Aligned ==
  Len(TopWords) = Len(gold) /\ \A i \in 1 .. Len(gold) : Start(TopWords[i]) = Start(gold[i])

\* The steps c compare the first t words of the best path with the first g words
\* of the gold path, or both paths with their ends.
WalkOf(c, t, g) ==
  /\ c \in Seq(Steps) /\ t \in 0 .. Len(TopWords) /\ g \in 0 .. Len(gold)
  /\ \A i \in 1 .. Len(c) : StepOK(c[i])
  /\ \A i, j \in 1 .. Len(c) : i < j => c[i].boundary < c[j].boundary
  /\ \A i \in 1 .. Len(c) :
       IF c[i].boundary = lat.n
       THEN t = Len(TopWords) /\ g = Len(gold) /\ c[i].top = Eos /\ c[i].gold = Eos
       ELSE /\ c[i].boundary < Start(NodeOf(TopWords, t + 1))
            /\ c[i].boundary < Start(NodeOf(gold, g + 1))
            /\ c[i].top # 0 => \E k \in 1 .. t : c[i].top = TopWords[k]
            /\ c[i].gold # 0 => \E k \in 1 .. g : c[i].gold = gold[k]
  /\ \A k \in 1 .. t : \E i \in 1 .. Len(c) : c[i].top = TopWords[k]
  /\ \A k \in 1 .. g : \E i \in 1 .. Len(c) : c[i].gold = gold[k]
  /\ AllBoth(c) => /\ t = g /\ g <= Len(c) /\ Len(c) <= g + 1
                   /\ Len(c) = g + 1 => c[Len(c)].boundary = lat.n
                   /\ \A k \in 1 .. g : c[k].top = TopWords[k] /\ c[k].gold = gold[k]
  /\ Aligned => AllBoth(c)

\* The loss of the steps c
LossOf(c) == SumTo([i \in 1 .. Len(c) |-> StepLoss(c[i])], Len(c))

\* Either nothing has been compared, or a comparison is under way that is right so
\* far, and the loss is computed from the whole of it.
CompareInv ==
  /\ TrainingInput
  /\ \/ Fresh
     \/ /\ pc = "done" /\ lat.user = "fullTraining"
        /\ WalkOf(comparison, curTop, curGold)
        /\ loss = -1 \/ (EosCompared /\ loss = LossOf(comparison))

-------------------------------------------------------------------------------
(* Comparing changes neither the lattice nor the beams.                    *)

\* The best path stays what it is.
LEMMA PlacesRest ==
  ASSUME lat' = lat, beams' = beams
  PROVE  Places' = Places /\ Top1' = Top1 /\ TopWords' = TopWords
<1>1. Eos' = Eos /\ (\A r : Start(r)' = Start(r))
  BY LatticeStays
<1>. DEFINE F(w) == [r \in 1 .. Eos |->
                       [k \in DOMAIN beams[r] |->
                          IF Start(r) = 0 THEN <<>>
                          ELSE Append(w[beams[r][k].left][beams[r][k].beam],
                                      [node |-> beams[r][k].left, beam |-> beams[r][k].beam])]]
<1>2. Places = CHOOSE w : w = F(w)
  BY DEF Places
<1>3. Places' = CHOOSE w : w = F(w)'
  BY DEF Places
<1>4. \A w : F(w)' = F(w)
  BY <1>1
<1>. HIDE DEF F
<1>5. Places' = Places
  BY <1>2, <1>3, <1>4
<1>6. Top1' = Top1
  BY <1>1, <1>5 DEF Top1
<1>7. QED
  BY <1>5, <1>6 DEF TopWords

\* The scores of paths stay what they are.
LEMMA ScoresRest ==
  ASSUME lat' = lat
  PROVE  \A w, b : ScoreUpTo(w, b)' = ScoreUpTo(w, b)
<1>1. Eos' = Eos /\ (\A r : Start(r)' = Start(r)) /\ (\A t : TrigramScore(t)' = TrigramScore(t))
  BY LatticeStays
<1>2. \A h, r : PathScore(h, r)' = PathScore(h, r)
  BY <1>1 DEF PathScore, SumOver
<1>3. SUFFICES ASSUME NEW w, NEW b PROVE ScoreUpTo(w, b)' = ScoreUpTo(w, b)
  OBVIOUS
<1>4. PICK e, nodes : e = Eos /\ nodes = Append(w, e)
  OBVIOUS
<1>. DEFINE before == {i \in DOMAIN nodes : Start(nodes[i]) <= b}
<1>5. before' = before
  BY <1>1
<1>6. PICK k : k = Cardinality(before)
  OBVIOUS
<1>. HIDE DEF before
<1>7. ScoreUpTo(w, b) = IF k = 0 THEN 0 ELSE PathScore(Reverse(SubSeq(nodes, 1, k - 1)), nodes[k])
  BY <1>4, <1>6 DEF ScoreUpTo, before
<1>8. ScoreUpTo(w, b)' = IF k = 0 THEN 0 ELSE PathScore(Reverse(SubSeq(nodes, 1, k - 1)), nodes[k])'
  BY <1>1, <1>4, <1>5, <1>6 DEF ScoreUpTo, before
<1>9. QED
  BY <1>2, <1>7, <1>8

\* A comparison that is right stays right.
LEMMA WalkRests ==
  ASSUME vars' = vars, gold' = gold
  PROVE  \A c, t, g : WalkOf(c, t, g)' <=> WalkOf(c, t, g)
<1>1. lat' = lat /\ beams' = beams
  BY DEF vars
<1>2. Eos' = Eos /\ (\A r : Start(r)' = Start(r)) /\ TopWords' = TopWords
  BY <1>1, LatticeStays, PlacesRest
<1>3. \A w, i : NodeOf(w, i)' = NodeOf(w, i)
  BY <1>2 DEF NodeOf
<1>4. \A r, i : GoldStillInBeam(r, i)' <=> GoldStillInBeam(r, i)
  BY <1>1 DEF GoldStillInBeam
<1>5. \A x, y : WeightOf(Mismatches(x, y))' = WeightOf(Mismatches(x, y))
  BY <1>1 DEF Mismatches, WeightOf
<1>6. \A w, b : ScoreUpTo(w, b)' = ScoreUpTo(w, b)
  BY <1>1, ScoresRest
<1>7. PICK u, v : u = gold /\ v = TopWords
  OBVIOUS
<1>8. \A s : StepOK(s)' <=> StepOK(s)
  <2>1. SUFFICES ASSUME NEW s PROVE StepOK(s)' <=> StepOK(s)
    OBVIOUS
  <2>2. gold' = u /\ TopWords' = v
    BY <1>2, <1>7
  <2>3. QED
    BY <1>1, <1>2, <1>3, <1>4, <1>5, <1>6, <1>7, <2>2 DEF StepOK
<1>9. Aligned' <=> Aligned
  BY <1>2 DEF Aligned
<1>10. SUFFICES ASSUME NEW c, NEW t, NEW g PROVE WalkOf(c, t, g)' <=> WalkOf(c, t, g)
  OBVIOUS
<1>11. gold' = u /\ TopWords' = v /\ \A i : NodeOf(v, i)' = NodeOf(v, i) /\ NodeOf(u, i)' = NodeOf(u, i)
  BY <1>2, <1>3, <1>7
<1>12. AllBoth(c)' <=> AllBoth(c)
  BY DEF AllBoth
<1>13. lat'.n = lat.n /\ Steps' = Steps
  BY <1>1 DEF Steps
<1>. HIDE DEF Steps
<1>14. QED
  BY <1>2, <1>7, <1>8, <1>9, <1>11, <1>12, <1>13 DEF WalkOf

-------------------------------------------------------------------------------
(* The steps of the comparison                                             *)

\* One word of one of the paths, or of both, is compared.  t2 and g2 are how many
\* words have been met after the step e.
LEMMA WalkOn ==
  ASSUME InputOK, IsSegmentation(TopWords), IsSegmentation(gold),
         NEW c, NEW t, NEW g, WalkOf(c, t, g),
         NEW e \in Steps, StepOK(e), e.boundary < lat.n,
         NEW t2 \in {t, t + 1}, NEW g2 \in {g, g + 1}, t2 # t \/ g2 # g,
         IF t2 = t THEN e.top = 0 /\ e.boundary < Start(NodeOf(TopWords, t + 1))
         ELSE t < Len(TopWords) /\ e.top = TopWords[t + 1] /\ e.boundary = Start(e.top),
         IF g2 = g THEN e.gold = 0 /\ e.boundary < Start(NodeOf(gold, g + 1))
         ELSE g < Len(gold) /\ e.gold = gold[g + 1] /\ e.boundary = Start(e.gold)
  PROVE  WalkOf(Append(c, e), t2, g2)
<1>. USE DEF AllBoth
<1>1. PICK u, v, d, m, N : u = TopWords /\ v = gold /\ d = Append(c, e) /\ m = Len(c) /\ N = lat.n
  OBVIOUS
<1>2. /\ Len(u) \in Nat /\ Len(v) \in Nat /\ N \in Nat
      /\ \A i \in 1 .. Len(u) : NodeOf(u, i) = u[i]
      /\ \A i \in 1 .. Len(v) : NodeOf(v, i) = v[i]
      /\ \A i \in 1 .. Len(u) + 1 : Start(NodeOf(u, i)) \in 0 .. N /\ NodeOf(u, i) \in 1 .. Eos
      /\ \A i \in 1 .. Len(v) + 1 : Start(NodeOf(v, i)) \in 0 .. N /\ NodeOf(v, i) \in 1 .. Eos
      /\ \A i, j \in 1 .. Len(u) + 1 : i < j => Start(NodeOf(u, i)) < Start(NodeOf(u, j))
      /\ \A i, j \in 1 .. Len(v) + 1 : i < j => Start(NodeOf(v, i)) < Start(NodeOf(v, j))
  BY <1>1, Segmentation, NodesOfLattice
<1>3. /\ c \in Seq(Steps) /\ t \in 0 .. Len(u) /\ g \in 0 .. Len(v)
      /\ \A i \in 1 .. m : StepOK(c[i])
      /\ \A i, j \in 1 .. m : i < j => c[i].boundary < c[j].boundary
  BY <1>1 DEF WalkOf
<1>4. \A i \in 1 .. m :
        IF c[i].boundary = N
        THEN t = Len(u) /\ g = Len(v) /\ c[i].top = Eos /\ c[i].gold = Eos
        ELSE /\ c[i].boundary < Start(NodeOf(u, t + 1))
             /\ c[i].boundary < Start(NodeOf(v, g + 1))
             /\ c[i].top # 0 => \E k \in 1 .. t : c[i].top = u[k]
             /\ c[i].gold # 0 => \E k \in 1 .. g : c[i].gold = v[k]
  BY <1>1 DEF WalkOf
<1>5. /\ \A k \in 1 .. t : \E i \in 1 .. m : c[i].top = u[k]
      /\ \A k \in 1 .. g : \E i \in 1 .. m : c[i].gold = v[k]
  BY <1>1 DEF WalkOf
<1>6. AllBoth(c) => /\ t = g /\ g <= m /\ m <= g + 1
                    /\ m = g + 1 => c[m].boundary = N
                    /\ \A k \in 1 .. g : c[k].top = u[k] /\ c[k].gold = v[k]
  BY <1>1 DEF WalkOf
<1>7. Aligned => AllBoth(c)
  BY DEF WalkOf
<1>8. m \in Nat /\ d \in Seq(Steps) /\ Len(d) = m + 1 /\ d[m + 1] = e /\ \A i \in 1 .. m : d[i] = c[i]
  <2>. HIDE DEF Steps
  <2>1. QED
    BY <1>1, <1>3, AppendProperties
<1>9. /\ e.boundary \in 0 .. N /\ e.boundary < N
      /\ e.class = "TopOnly" <=> e.gold = 0
      /\ e.class = "GoldOnly" <=> e.top = 0
      /\ e.class \in {"Both", "TopOnly", "GoldOnly"}
  BY <1>1 DEF StepOK, Steps
<1>10. /\ t2 = t => e.top = 0 /\ e.boundary < Start(NodeOf(u, t + 1))
       /\ t2 # t => t2 = t + 1 /\ t < Len(u) /\ e.top = u[t + 1] /\ e.boundary = Start(NodeOf(u, t + 1))
       /\ g2 = g => e.gold = 0 /\ e.boundary < Start(NodeOf(v, g + 1))
       /\ g2 # g => g2 = g + 1 /\ g < Len(v) /\ e.gold = v[g + 1] /\ e.boundary = Start(NodeOf(v, g + 1))
  <2>1. t2 # t => t + 1 \in 1 .. Len(u)
    BY <1>1, <1>2, <1>3
  <2>2. g2 # g => g + 1 \in 1 .. Len(v)
    BY <1>1, <1>2, <1>3
  <2>3. QED
    BY <1>1, <1>2, <2>1, <2>2
<1>11. \A i \in 1 .. m : /\ c[i].boundary \in 0 .. N /\ c[i].boundary # N
                         /\ c[i].boundary < Start(NodeOf(u, t + 1))
                         /\ c[i].boundary < Start(NodeOf(v, g + 1))
  <2>1. SUFFICES ASSUME NEW i \in 1 .. m
                 PROVE  /\ c[i].boundary \in 0 .. N /\ c[i].boundary # N
                        /\ c[i].boundary < Start(NodeOf(u, t + 1))
                        /\ c[i].boundary < Start(NodeOf(v, g + 1))
    OBVIOUS
  <2>2. c[i].boundary \in 0 .. N
    BY <1>1, <1>3 DEF StepOK
  <2>3. c[i].boundary # N
    BY <1>2, <1>4, <1>10
  <2>4. QED
    BY <1>4, <2>2, <2>3
<1>12. \A i \in 1 .. m : c[i].boundary < e.boundary
  BY <1>10, <1>11
<1>13. e.boundary < Start(NodeOf(u, t2 + 1)) /\ e.boundary < Start(NodeOf(v, g2 + 1))
  <2>1. e.boundary < Start(NodeOf(u, t2 + 1))
    <3>1. CASE t2 = t
      BY <1>10, <3>1
    <3>2. CASE t2 # t
      <4>1. t + 1 \in 1 .. Len(u) + 1 /\ t2 + 1 \in 1 .. Len(u) + 1 /\ t + 1 < t2 + 1
        BY <1>2, <1>3, <1>10, <3>2
      <4>2. QED
        BY <1>2, <1>10, <3>2, <4>1
    <3>3. QED
      BY <3>1, <3>2
  <2>2. e.boundary < Start(NodeOf(v, g2 + 1))
    <3>1. CASE g2 = g
      BY <1>10, <3>1
    <3>2. CASE g2 # g
      <4>1. g + 1 \in 1 .. Len(v) + 1 /\ g2 + 1 \in 1 .. Len(v) + 1 /\ g + 1 < g2 + 1
        BY <1>2, <1>3, <1>10, <3>2
      <4>2. QED
        BY <1>2, <1>10, <3>2, <4>1
    <3>3. QED
      BY <3>1, <3>2
  <2>3. QED
    BY <2>1, <2>2
<1>14. /\ t2 \in 0 .. Len(u) /\ g2 \in 0 .. Len(v)
       /\ (\A k \in 1 .. t : k \in 1 .. t2) /\ (\A k \in 1 .. g : k \in 1 .. g2)
       /\ t2 + 1 \in 1 .. Len(u) + 1 /\ g2 + 1 \in 1 .. Len(v) + 1
  BY <1>2, <1>3, <1>10
<1>15. ASSUME NEW i \in 1 .. m + 1
       PROVE  /\ StepOK(d[i])
              /\ d[i].boundary # N
              /\ d[i].boundary < Start(NodeOf(u, t2 + 1))
              /\ d[i].boundary < Start(NodeOf(v, g2 + 1))
              /\ d[i].top # 0 => \E k \in 1 .. t2 : d[i].top = u[k]
              /\ d[i].gold # 0 => \E k \in 1 .. g2 : d[i].gold = v[k]
  <2>1. CASE i = m + 1
    <3>1. t2 # t => t + 1 \in 1 .. t2 /\ e.top = u[t + 1]
      BY <1>2, <1>3, <1>10
    <3>2. g2 # g => g + 1 \in 1 .. g2 /\ e.gold = v[g + 1]
      BY <1>2, <1>3, <1>10
    <3>3. e.top # 0 => \E k \in 1 .. t2 : e.top = u[k]
      BY <1>10, <3>1
    <3>4. e.gold # 0 => \E k \in 1 .. g2 : e.gold = v[k]
      BY <1>10, <3>2
    <3>5. e.boundary # N
      BY <1>2, <1>9
    <3>6. QED
      BY <1>8, <1>13, <2>1, <3>3, <3>4, <3>5
  <2>2. CASE i # m + 1
    <3>1. i \in 1 .. m /\ d[i] = c[i]
      BY <1>8, <2>2
    <3>2. c[i].boundary < Start(NodeOf(u, t2 + 1)) /\ c[i].boundary < Start(NodeOf(v, g2 + 1))
      <4>1. c[i].boundary \in Int /\ e.boundary \in Int /\ c[i].boundary < e.boundary
        BY <1>2, <1>9, <1>11, <1>12, <3>1
      <4>2. Start(NodeOf(u, t2 + 1)) \in Int /\ Start(NodeOf(v, g2 + 1)) \in Int
        BY <1>2, <1>14
      <4>3. QED
        BY <1>13, <4>1, <4>2
    <3>3. c[i].top # 0 => \E k \in 1 .. t2 : c[i].top = u[k]
      BY <1>4, <1>11, <1>14, <3>1
    <3>4. c[i].gold # 0 => \E k \in 1 .. g2 : c[i].gold = v[k]
      BY <1>4, <1>11, <1>14, <3>1
    <3>5. QED
      BY <1>3, <1>11, <3>1, <3>2, <3>3, <3>4
  <2>3. QED
    BY <2>1, <2>2
<1>16. ASSUME NEW i \in 1 .. m + 1, NEW j \in 1 .. m + 1, i < j
       PROVE  d[i].boundary < d[j].boundary
  <2>1. i \in 1 .. m /\ d[i] = c[i] /\ (j = m + 1 \/ j \in 1 .. m)
    BY <1>8, <1>16
  <2>2. CASE j = m + 1
    BY <1>8, <1>12, <2>1, <2>2
  <2>3. CASE j \in 1 .. m
    BY <1>3, <1>8, <1>16, <2>1, <2>3
  <2>4. QED
    BY <2>1, <2>2, <2>3
<1>17. m + 1 \in 1 .. m + 1 /\ \A i \in 1 .. m : i \in 1 .. m + 1
  BY <1>8
<1>18. \A k \in 1 .. t2 : \E i \in 1 .. m + 1 : d[i].top = u[k]
  <2>1. TAKE k \in 1 .. t2
  <2>2. k \in 1 .. t \/ (t2 # t /\ k = t + 1)
    BY <1>2, <1>3, <1>10
  <2>3. CASE k \in 1 .. t
    <3>1. PICK i \in 1 .. m : c[i].top = u[k]
      BY <1>5, <2>3
    <3>2. QED
      BY <1>8, <1>17, <3>1
  <2>4. CASE t2 # t /\ k = t + 1
    BY <1>8, <1>10, <1>17, <2>4
  <2>5. QED
    BY <2>2, <2>3, <2>4
<1>19. \A k \in 1 .. g2 : \E i \in 1 .. m + 1 : d[i].gold = v[k]
  <2>1. TAKE k \in 1 .. g2
  <2>2. k \in 1 .. g \/ (g2 # g /\ k = g + 1)
    BY <1>2, <1>3, <1>10
  <2>3. CASE k \in 1 .. g
    <3>1. PICK i \in 1 .. m : c[i].gold = v[k]
      BY <1>5, <2>3
    <3>2. QED
      BY <1>8, <1>17, <3>1
  <2>4. CASE g2 # g /\ k = g + 1
    BY <1>8, <1>10, <1>17, <2>4
  <2>5. QED
    BY <2>2, <2>3, <2>4
<1>20. AllBoth(d) <=> AllBoth(c) /\ e.class = "Both"
  BY <1>1, <1>8, <1>17
<1>21. e.class = "Both" <=> t2 # t /\ g2 # g
  <2>1. (t2 # t => e.top # 0) /\ (g2 # g => e.gold # 0)
    <3>1. t2 # t => e.top \in 1 .. Eos
      <4>1. t2 # t => t + 1 \in 1 .. Len(u) /\ t + 1 \in 1 .. Len(u) + 1
        BY <1>2, <1>3, <1>10
      <4>2. QED
        BY <1>2, <1>10, <4>1
    <3>2. g2 # g => e.gold \in 1 .. Eos
      <4>1. g2 # g => g + 1 \in 1 .. Len(v) /\ g + 1 \in 1 .. Len(v) + 1
        BY <1>2, <1>3, <1>10
      <4>2. QED
        BY <1>2, <1>10, <4>1
    <3>3. QED
      BY <3>1, <3>2
  <2>2. (t2 = t => e.top = 0) /\ (g2 = g => e.gold = 0)
    BY <1>10
  <2>3. QED
    BY <1>9, <2>1, <2>2
<1>22. ASSUME AllBoth(d)
       PROVE  /\ t2 = g2 /\ g2 = m + 1
              /\ \A k \in 1 .. g2 : d[k].top = u[k] /\ d[k].gold = v[k]
  <2>1. AllBoth(c) /\ t2 = t + 1 /\ g2 = g + 1
    BY <1>10, <1>20, <1>21, <1>22
  <2>2. t = g /\ g <= m /\ m <= g + 1 /\ (m = g + 1 => c[m].boundary = N)
        /\ \A k \in 1 .. g : c[k].top = u[k] /\ c[k].gold = v[k]
    BY <1>6, <2>1
  <2>3. m # g + 1
    <3>1. m = g + 1 => m \in 1 .. m
      BY <1>3, <1>2, <1>8
    <3>2. QED
      BY <1>11, <2>2, <3>1
  <2>4. m = g
    BY <1>2, <1>3, <1>8, <2>2, <2>3
  <2>5. ASSUME NEW k \in 1 .. g2
        PROVE  d[k].top = u[k] /\ d[k].gold = v[k]
    <3>1. CASE k = m + 1
      BY <1>8, <1>10, <1>21, <1>20, <1>22, <2>2, <2>4, <3>1
    <3>2. CASE k # m + 1
      <4>1. k \in 1 .. g /\ k \in 1 .. m
        BY <1>8, <2>1, <2>4, <3>2
      <4>2. QED
        BY <1>8, <2>2, <4>1
    <3>3. QED
      BY <3>1, <3>2
  <2>6. QED
    BY <2>1, <2>2, <2>4, <2>5
<1>23. ASSUME Aligned
       PROVE  AllBoth(d)
  <2>1. AllBoth(c) /\ t = g /\ Len(u) = Len(v) /\ \A i \in 1 .. Len(v) : Start(u[i]) = Start(v[i])
    <3>1. AllBoth(c)
      BY <1>7, <1>23
    <3>2. QED
      BY <1>1, <1>6, <1>23, <3>1 DEF Aligned
  <2>2. CASE t2 = t
    <3>1. g2 # g /\ g + 1 \in 1 .. Len(v)
      BY <1>2, <1>3, <1>10, <2>2
    <3>2. Start(NodeOf(u, t + 1)) = Start(NodeOf(v, g + 1)) /\ Start(NodeOf(u, t + 1)) \in Int
      <4>1. PICK k : k = g + 1
        OBVIOUS
      <4>2. k \in 1 .. Len(v) /\ k \in 1 .. Len(v) + 1 /\ k = t + 1
        BY <1>2, <2>1, <3>1, <4>1
      <4>3. NodeOf(u, k) = u[k] /\ NodeOf(v, k) = v[k] /\ Start(u[k]) = Start(v[k])
        BY <1>2, <2>1, <4>2
      <4>4. Start(NodeOf(v, k)) \in Int
        BY <1>2, <4>2
      <4>5. QED
        BY <4>1, <4>2, <4>3, <4>4
    <3>3. QED
      BY <1>10, <2>2, <3>1, <3>2
  <2>3. CASE g2 = g
    <3>1. PICK k : k = t + 1
      OBVIOUS
    <3>2. t2 # t /\ k \in 1 .. Len(u) /\ k \in 1 .. Len(v) /\ k = g + 1 /\ k \in 1 .. Len(u) + 1
      BY <1>2, <1>3, <1>10, <2>1, <2>3, <3>1
    <3>3. Start(NodeOf(u, k)) = Start(NodeOf(v, k))
      BY <1>2, <2>1, <3>2
    <3>4. Start(NodeOf(u, k)) \in Int
      BY <1>2, <3>2
    <3>5. QED
      BY <1>10, <2>3, <3>1, <3>2, <3>3, <3>4
  <2>4. CASE t2 # t /\ g2 # g
    BY <1>20, <1>21, <2>1, <2>4
  <2>5. QED
    BY <2>2, <2>3, <2>4
<1>. HIDE DEF AllBoth
<1>24. /\ AllBoth(d) => /\ t2 = g2 /\ g2 <= m + 1 /\ m + 1 <= g2 + 1
                        /\ m + 1 = g2 + 1 => d[m + 1].boundary = N
                        /\ \A k \in 1 .. g2 : d[k].top = u[k] /\ d[k].gold = v[k]
       /\ Aligned => AllBoth(d)
  BY <1>8, <1>22, <1>23
<1>25. WalkOf(d, t2, g2)
  <2>1. /\ d \in Seq(Steps) /\ t2 \in 0 .. Len(TopWords) /\ g2 \in 0 .. Len(gold)
        /\ \A i \in 1 .. Len(d) : StepOK(d[i])
        /\ \A i, j \in 1 .. Len(d) : i < j => d[i].boundary < d[j].boundary
    BY <1>1, <1>8, <1>14, <1>15, <1>16
  <2>2. \A i \in 1 .. Len(d) :
          IF d[i].boundary = lat.n
          THEN t2 = Len(TopWords) /\ g2 = Len(gold) /\ d[i].top = Eos /\ d[i].gold = Eos
          ELSE /\ d[i].boundary < Start(NodeOf(TopWords, t2 + 1))
               /\ d[i].boundary < Start(NodeOf(gold, g2 + 1))
               /\ d[i].top # 0 => \E k \in 1 .. t2 : d[i].top = TopWords[k]
               /\ d[i].gold # 0 => \E k \in 1 .. g2 : d[i].gold = gold[k]
    BY <1>1, <1>8, <1>15
  <2>3. /\ \A k \in 1 .. t2 : \E i \in 1 .. Len(d) : d[i].top = TopWords[k]
        /\ \A k \in 1 .. g2 : \E i \in 1 .. Len(d) : d[i].gold = gold[k]
    BY <1>1, <1>8, <1>18, <1>19
  <2>4. /\ AllBoth(d) => /\ t2 = g2 /\ g2 <= Len(d) /\ Len(d) <= g2 + 1
                         /\ Len(d) = g2 + 1 => d[Len(d)].boundary = lat.n
                         /\ \A k \in 1 .. g2 : d[k].top = TopWords[k] /\ d[k].gold = gold[k]
        /\ Aligned => AllBoth(d)
    BY <1>1, <1>8, <1>24
  <2>. HIDE DEF Steps
  <2>5. QED
    BY <2>1, <2>2, <2>3, <2>4 DEF WalkOf
<1>26. QED
  BY <1>1, <1>25

\* Both paths are at their ends: the step of EOS is the last one.
LEMMA WalkEos ==
  ASSUME InputOK, IsSegmentation(TopWords), IsSegmentation(gold),
         NEW c, WalkOf(c, Len(TopWords), Len(gold)),
         \A i \in 1 .. Len(c) : c[i].boundary # lat.n,
         NEW e \in Steps, StepOK(e), e.boundary = lat.n, e.top = Eos, e.gold = Eos
  PROVE  WalkOf(Append(c, e), Len(TopWords), Len(gold))
<1>1. PICK u, v, d, m, N : u = TopWords /\ v = gold /\ d = Append(c, e) /\ m = Len(c) /\ N = lat.n
  OBVIOUS
<1>2. /\ Len(u) \in Nat /\ Len(v) \in Nat /\ N \in Nat /\ Eos # 0
      /\ Start(NodeOf(u, Len(u) + 1)) = N /\ Start(NodeOf(v, Len(v) + 1)) = N
  <2>1. /\ Len(u) \in Nat /\ Len(v) \in Nat
        /\ \A i \in 1 .. Len(u) + 1 : Start(NodeOf(u, i)) = N <=> i = Len(u) + 1
        /\ \A i \in 1 .. Len(v) + 1 : Start(NodeOf(v, i)) = N <=> i = Len(v) + 1
    BY <1>1, Segmentation
  <2>2. Start(NodeOf(u, Len(u) + 1)) = N /\ Start(NodeOf(v, Len(v) + 1)) = N
    <3>1. PICK k, l : k = Len(u) + 1 /\ l = Len(v) + 1
      OBVIOUS
    <3>2. k \in 1 .. Len(u) + 1 /\ l \in 1 .. Len(v) + 1
      BY <2>1, <3>1
    <3>3. Start(NodeOf(u, k)) = N /\ Start(NodeOf(v, l)) = N
      BY <2>1, <3>1, <3>2
    <3>4. QED
      BY <3>1, <3>3
  <2>3. N \in Nat /\ Eos # 0
    BY <1>1, NodesOfLattice
  <2>4. QED
    BY <2>1, <2>2, <2>3
<1>3. /\ c \in Seq(Steps)
      /\ \A i \in 1 .. m : StepOK(c[i]) /\ c[i].boundary # N
      /\ \A i, j \in 1 .. m : i < j => c[i].boundary < c[j].boundary
      /\ \A i \in 1 .. m : /\ c[i].top # 0 => \E k \in 1 .. Len(u) : c[i].top = u[k]
                           /\ c[i].gold # 0 => \E k \in 1 .. Len(v) : c[i].gold = v[k]
      /\ \A k \in 1 .. Len(u) : \E i \in 1 .. m : c[i].top = u[k]
      /\ \A k \in 1 .. Len(v) : \E i \in 1 .. m : c[i].gold = v[k]
  BY <1>1 DEF WalkOf
<1>4. AllBoth(c) => /\ Len(u) = Len(v) /\ Len(v) <= m /\ m <= Len(v) + 1
                    /\ m = Len(v) + 1 => c[m].boundary = N
                    /\ \A k \in 1 .. Len(v) : c[k].top = u[k] /\ c[k].gold = v[k]
  BY <1>1 DEF WalkOf
<1>5. Aligned => AllBoth(c)
  BY DEF WalkOf
<1>6. m \in Nat /\ d \in Seq(Steps) /\ Len(d) = m + 1 /\ d[m + 1] = e /\ \A i \in 1 .. m : d[i] = c[i]
  <2>. HIDE DEF Steps
  <2>1. QED
    BY <1>1, <1>3, AppendProperties
<1>7. e.class = "Both"
  BY <1>1, <1>2 DEF StepOK, Steps
<1>8. m + 1 \in 1 .. m + 1 /\ (\A i \in 1 .. m : i \in 1 .. m + 1 /\ i # m + 1)
      /\ \A i \in 1 .. m + 1 : i = m + 1 \/ i \in 1 .. m
  BY <1>6
<1>9. \A i \in 1 .. m : c[i].boundary < N
  <2>1. \A i \in 1 .. m : c[i].boundary \in 0 .. N
    BY <1>1, <1>3 DEF StepOK
  <2>2. QED
    BY <1>2, <1>3, <2>1
<1>10. \A i \in 1 .. m + 1 : StepOK(d[i])
  BY <1>3, <1>6, <1>8
<1>11. \A i, j \in 1 .. m + 1 : i < j => d[i].boundary < d[j].boundary
  <2>1. SUFFICES ASSUME NEW i \in 1 .. m + 1, NEW j \in 1 .. m + 1, i < j
                 PROVE  d[i].boundary < d[j].boundary
    OBVIOUS
  <2>2. i \in 1 .. m /\ d[i] = c[i] /\ (j = m + 1 \/ j \in 1 .. m)
    BY <1>6, <2>1
  <2>3. CASE j = m + 1
    BY <1>1, <1>6, <1>9, <2>2, <2>3
  <2>4. CASE j \in 1 .. m
    BY <1>3, <1>6, <2>1, <2>2, <2>4
  <2>5. QED
    BY <2>2, <2>3, <2>4
<1>12. \A i \in 1 .. m + 1 :
         IF d[i].boundary = N
         THEN d[i].top = Eos /\ d[i].gold = Eos
         ELSE /\ d[i].boundary < N
              /\ d[i].top # 0 => \E k \in 1 .. Len(u) : d[i].top = u[k]
              /\ d[i].gold # 0 => \E k \in 1 .. Len(v) : d[i].gold = v[k]
  BY <1>1, <1>3, <1>6, <1>8, <1>9
<1>13. /\ \A k \in 1 .. Len(u) : \E i \in 1 .. m + 1 : d[i].top = u[k]
       /\ \A k \in 1 .. Len(v) : \E i \in 1 .. m + 1 : d[i].gold = v[k]
  <2>1. ASSUME NEW k \in 1 .. Len(u)
        PROVE  \E i \in 1 .. m + 1 : d[i].top = u[k]
    <3>1. PICK i \in 1 .. m : c[i].top = u[k]
      BY <1>3
    <3>2. QED
      BY <1>6, <1>8, <3>1
  <2>2. ASSUME NEW k \in 1 .. Len(v)
        PROVE  \E i \in 1 .. m + 1 : d[i].gold = v[k]
    <3>1. PICK i \in 1 .. m : c[i].gold = v[k]
      BY <1>3
    <3>2. QED
      BY <1>6, <1>8, <3>1
  <2>3. QED
    BY <2>1, <2>2
<1>14. AllBoth(d) <=> AllBoth(c)
  BY <1>1, <1>6, <1>7, <1>8 DEF AllBoth
<1>15. AllBoth(d) => /\ Len(u) = Len(v) /\ m = Len(v)
                     /\ d[m + 1].boundary = N
                     /\ \A k \in 1 .. Len(v) : d[k].top = u[k] /\ d[k].gold = v[k]
  <2>1. SUFFICES ASSUME AllBoth(c)
                 PROVE  /\ Len(u) = Len(v) /\ m = Len(v)
                        /\ d[m + 1].boundary = N
                        /\ \A k \in 1 .. Len(v) : d[k].top = u[k] /\ d[k].gold = v[k]
    BY <1>14
  <2>2. m = Len(v) + 1 => m \in 1 .. m
    BY <1>2, <1>6
  <2>3. m # Len(v) + 1
    BY <1>3, <1>4, <2>1, <2>2
  <2>4. m = Len(v)
    BY <1>2, <1>4, <1>6, <2>1, <2>3
  <2>5. QED
    BY <1>1, <1>4, <1>6, <2>1, <2>4
<1>16. Aligned => AllBoth(d)
  BY <1>5, <1>14
<1>17. WalkOf(d, Len(u), Len(v))
  <2>1. /\ d \in Seq(Steps) /\ Len(u) \in 0 .. Len(TopWords) /\ Len(v) \in 0 .. Len(gold)
        /\ \A i \in 1 .. Len(d) : StepOK(d[i])
        /\ \A i, j \in 1 .. Len(d) : i < j => d[i].boundary < d[j].boundary
    BY <1>1, <1>2, <1>6, <1>10, <1>11
  <2>2. \A i \in 1 .. Len(d) :
          IF d[i].boundary = lat.n
          THEN Len(u) = Len(TopWords) /\ Len(v) = Len(gold) /\ d[i].top = Eos /\ d[i].gold = Eos
          ELSE /\ d[i].boundary < Start(NodeOf(TopWords, Len(u) + 1))
               /\ d[i].boundary < Start(NodeOf(gold, Len(v) + 1))
               /\ d[i].top # 0 => \E k \in 1 .. Len(u) : d[i].top = TopWords[k]
               /\ d[i].gold # 0 => \E k \in 1 .. Len(v) : d[i].gold = gold[k]
    BY <1>1, <1>2, <1>6, <1>12
  <2>3. /\ \A k \in 1 .. Len(u) : \E i \in 1 .. Len(d) : d[i].top = TopWords[k]
        /\ \A k \in 1 .. Len(v) : \E i \in 1 .. Len(d) : d[i].gold = gold[k]
    BY <1>1, <1>6, <1>13
  <2>4. AllBoth(d) => /\ Len(u) = Len(v) /\ Len(v) <= Len(d) /\ Len(d) <= Len(v) + 1
                      /\ Len(d) = Len(v) + 1 => d[Len(d)].boundary = lat.n
                      /\ \A k \in 1 .. Len(v) : d[k].top = TopWords[k] /\ d[k].gold = gold[k]
    <3>1. SUFFICES ASSUME AllBoth(d)
                   PROVE  /\ Len(u) = Len(v) /\ Len(v) <= Len(d) /\ Len(d) <= Len(v) + 1
                          /\ d[Len(d)].boundary = lat.n
                          /\ \A k \in 1 .. Len(v) : d[k].top = TopWords[k] /\ d[k].gold = gold[k]
      OBVIOUS
    <3>2. Len(v) <= Len(d) /\ Len(d) <= Len(v) + 1
      BY <1>2, <1>6, <1>15, <3>1
    <3>3. QED
      BY <1>1, <1>6, <1>15, <3>1, <3>2
  <2>. HIDE DEF Steps
  <2>5. QED
    BY <1>16, <2>1, <2>2, <2>3, <2>4 DEF WalkOf
<1>18. QED
  BY <1>1, <1>17

\* Nothing is compared yet.
LEMMA WalkStarts ==
  ASSUME InputOK, IsSegmentation(TopWords), IsSegmentation(gold)
  PROVE  WalkOf(<<>>, 0, 0)
<1>1. Len(TopWords) \in Nat /\ Len(gold) \in Nat
  BY Segmentation
<1>2. <<>> \in Seq(Steps) /\ Len(<<>>) = 0 /\ AllBoth(<<>>)
  BY DEF AllBoth
<1>. HIDE DEF Steps
<1>3. 1 .. 0 = {} /\ 0 \in 0 .. Len(TopWords) /\ 0 \in 0 .. Len(gold) /\ 0 <= 0 /\ 0 <= 0 + 1 /\ 0 # 0 + 1
  BY <1>1
<1>4. QED
  BY <1>2, <1>3 DEF WalkOf

-------------------------------------------------------------------------------
(* Sums of natural numbers                                                 *)

\* What is summed up is never more than the sum, which is zero only if it is all
\* zero.
Summing(f, n) ==
  /\ SumTo(f, n) \in Nat
  /\ \A i \in 1 .. n : f[i] <= SumTo(f, n)
  /\ SumTo(f, n) = 0 <=> \A i \in 1 .. n : f[i] = 0

\* By induction on how many are summed up.
LEMMA SumOfNats ==
  ASSUME NEW f, NEW n \in Nat, \A i \in 1 .. n : f[i] \in Nat
  PROVE  Summing(f, n)
<1>. DEFINE S == {m \in Nat : m <= n => Summing(f, m)}
<1>1. 0 \in S
  <2>1. SumTo(f, 0) = 0 /\ 1 .. 0 = {}
    BY SumOfNone
  <2>2. QED
    BY <2>1 DEF Summing
<1>2. ASSUME NEW m \in Nat, m \in S
      PROVE  m + 1 \in S
  <2>1. SUFFICES ASSUME m + 1 <= n PROVE Summing(f, m + 1)
    OBVIOUS
  <2>2. PICK x, y, z : x = SumTo(f, m) /\ y = f[m + 1] /\ z = SumTo(f, m + 1)
    OBVIOUS
  <2>3. x \in Nat /\ (\A i \in 1 .. m : f[i] <= x) /\ (x = 0 <=> \A i \in 1 .. m : f[i] = 0)
    BY <1>2, <2>1, <2>2 DEF Summing
  <2>4. y \in Nat /\ z = x + y /\ z \in Nat
    <3>1. m + 1 \in 1 .. n
      BY <2>1
    <3>2. z = x + y
      BY <2>2, SumOfOneMore
    <3>3. QED
      BY <2>2, <2>3, <3>1, <3>2
  <2>5. \A i \in 1 .. m + 1 : i = m + 1 \/ i \in 1 .. m
    OBVIOUS
  <2>6. m + 1 \in 1 .. m + 1 /\ \A i \in 1 .. m : i \in 1 .. m + 1 /\ i \in 1 .. n
    BY <2>1
  <2>7. \A i \in 1 .. m + 1 : f[i] <= z
    <3>1. TAKE i \in 1 .. m + 1
    <3>2. CASE i = m + 1
      BY <2>2, <2>3, <2>4, <3>2
    <3>3. CASE i \in 1 .. m
      <4>1. f[i] \in Nat /\ f[i] <= x
        BY <2>3, <2>6, <3>3
      <4>2. QED
        BY <2>3, <2>4, <4>1
    <3>4. QED
      BY <2>5, <3>2, <3>3
  <2>8. z = 0 <=> x = 0 /\ y = 0
    BY <2>3, <2>4
  <2>9. z = 0 <=> \A i \in 1 .. m + 1 : f[i] = 0
    BY <2>2, <2>3, <2>5, <2>6, <2>8
  <2>10. QED
    BY <2>2, <2>4, <2>7, <2>9 DEF Summing
<1>. HIDE DEF S
<1>3. n \in S
  BY <1>1, <1>2, SetInduction
<1>4. QED
  BY <1>3 DEF S

\* Smaller numbers have a smaller sum, none of which is more than so many times
\* their bound.
LEMMA SumOfBounded ==
  ASSUME NEW f, NEW n \in Nat, NEW b \in Nat, \A i \in 1 .. n : f[i] \in Nat /\ f[i] <= b
  PROVE  /\ SumTo(f, n) <= n * b
         /\ \A i \in 1 .. n : f[i] < b => SumTo(f, n) < n * b
<1>. DEFINE Bounded(m) == /\ SumTo(f, m) \in Nat /\ SumTo(f, m) <= m * b
                          /\ \A i \in 1 .. m : f[i] < b => SumTo(f, m) < m * b
            S == {m \in Nat : m <= n => Bounded(m)}
<1>1. 0 \in S
  <2>1. SumTo(f, 0) = 0 /\ 1 .. 0 = {} /\ 0 * b = 0
    BY SumOfNone
  <2>2. QED
    BY <2>1
<1>2. ASSUME NEW m \in Nat, m \in S
      PROVE  m + 1 \in S
  <2>1. SUFFICES ASSUME m + 1 <= n PROVE Bounded(m + 1)
    OBVIOUS
  <2>2. PICK x, y, z, p, q :
          /\ x = SumTo(f, m) /\ y = f[m + 1] /\ z = SumTo(f, m + 1)
          /\ p = m * b /\ q = (m + 1) * b
    OBVIOUS
  <2>3. x \in Nat /\ x <= p /\ \A i \in 1 .. m : f[i] < b => x < p
    BY <1>2, <2>1, <2>2
  <2>4. y \in Nat /\ y <= b /\ z = x + y
    <3>1. m + 1 \in 1 .. n
      BY <2>1
    <3>2. z = x + y
      BY <2>2, SumOfOneMore
    <3>3. QED
      BY <2>2, <3>1, <3>2
  <2>5. p \in Nat /\ q = p + b
    BY <2>2
  <2>6. z \in Nat /\ z <= q /\ (x < p => z < q) /\ (y < b => z < q)
    BY <2>3, <2>4, <2>5
  <2>7. \A i \in 1 .. m + 1 : i = m + 1 \/ i \in 1 .. m
    OBVIOUS
  <2>8. \A i \in 1 .. m + 1 : f[i] < b => z < q
    BY <2>2, <2>3, <2>6, <2>7
  <2>9. QED
    BY <2>2, <2>6, <2>8
<1>. HIDE DEF S
<1>3. n \in S
  BY <1>1, <1>2, SetInduction
<1>4. QED
  BY <1>3 DEF S

\* The weight of fields is a natural number: at least that of each of them, at
\* most that of all, and zero if and only if theirs are.
LEMMA WeightsOfFields ==
  ASSUME NEW F \in SUBSET DOMAIN FieldWeights
  PROVE  /\ WeightOf(F) \in Nat /\ FullWeight \in Nat /\ FullWeight > 0
         /\ \A f \in F : FieldWeights[f] <= WeightOf(F)
         /\ WeightOf(F) <= FullWeight
         /\ WeightOf(F) = 0 <=> \A f \in F : FieldWeights[f] = 0
<1>1. PICK n : n = Len(FieldWeights)
  OBVIOUS
<1>2. /\ n \in Nat /\ DOMAIN FieldWeights = 1 .. n
      /\ \A f \in 1 .. n : FieldWeights[f] \in Nat
      /\ \E f \in 1 .. n : FieldWeights[f] > 0
  BY <1>1, ComparisonConstants
<1>. DEFINE Of(G) == [f \in 1 .. n |-> IF f \in G THEN FieldWeights[f] ELSE 0]
<1>3. \A G : WeightOf(G) = SumTo(Of(G), n)
  BY <1>1, <1>2 DEF WeightOf
<1>4. ASSUME NEW G \in SUBSET (1 .. n)
      PROVE  /\ WeightOf(G) \in Nat
             /\ \A f \in G : FieldWeights[f] <= WeightOf(G)
             /\ WeightOf(G) = 0 <=> \A f \in G : FieldWeights[f] = 0
  <2>1. \A f \in 1 .. n : Of(G)[f] = IF f \in G THEN FieldWeights[f] ELSE 0
    OBVIOUS
  <2>2. PICK o : o = Of(G)
    OBVIOUS
  <2>. HIDE DEF Of
  <2>3. \A f \in 1 .. n : o[f] \in Nat
    BY <1>2, <2>1, <2>2
  <2>4. Summing(o, n)
    BY <1>2, <2>3, SumOfNats
  <2>5. WeightOf(G) = SumTo(o, n)
    BY <1>3, <2>2
  <2>6. QED
    BY <2>1, <2>2, <2>4, <2>5 DEF Summing
<1>5. WeightOf(F) <= WeightOf(1 .. n)
  <2>1. PICK o, a : o = Of(F) /\ a = Of(1 .. n)
    OBVIOUS
  <2>2. \A f \in 1 .. n : o[f] \in Nat /\ a[f] \in Nat /\ o[f] <= a[f]
    BY <1>2, <2>1
  <2>3. SumTo(o, n) <= SumTo(a, n)
    <3>. DEFINE S == {m \in Nat : m <= n => /\ SumTo(o, m) \in Nat /\ SumTo(a, m) \in Nat
                                            /\ SumTo(o, m) <= SumTo(a, m)}
    <3>1. 0 \in S
      <4>1. SumTo(o, 0) = 0 /\ SumTo(a, 0) = 0
        BY SumOfNone
      <4>2. QED
        BY <4>1
    <3>2. ASSUME NEW m \in Nat, m \in S
          PROVE  m + 1 \in S
      <4>1. SUFFICES ASSUME m + 1 <= n
                     PROVE  /\ SumTo(o, m + 1) \in Nat /\ SumTo(a, m + 1) \in Nat
                            /\ SumTo(o, m + 1) <= SumTo(a, m + 1)
        OBVIOUS
      <4>2. SumTo(o, m + 1) = SumTo(o, m) + o[m + 1] /\ SumTo(a, m + 1) = SumTo(a, m) + a[m + 1]
        BY SumOfOneMore
      <4>3. m + 1 \in 1 .. n
        BY <4>1
      <4>4. o[m + 1] \in Nat /\ a[m + 1] \in Nat /\ o[m + 1] <= a[m + 1]
        BY <2>2, <4>3
      <4>5. SumTo(o, m) \in Nat /\ SumTo(a, m) \in Nat /\ SumTo(o, m) <= SumTo(a, m)
        BY <1>2, <3>2, <4>1
      <4>6. QED
        BY <4>2, <4>4, <4>5
    <3>. HIDE DEF S
    <3>3. n \in S
      BY <1>2, <3>1, <3>2, SetInduction
    <3>4. QED
      BY <1>2, <3>3 DEF S
  <2>4. QED
    BY <1>3, <2>1, <2>3
<1>6. FullWeight = WeightOf(1 .. n)
  BY <1>2 DEF FullWeight
<1>. HIDE DEF Of
<1>7. FullWeight \in Nat /\ FullWeight > 0
  <2>1. WeightOf(1 .. n) \in Nat /\ (WeightOf(1 .. n) = 0 <=> \A f \in 1 .. n : FieldWeights[f] = 0)
    BY <1>4
  <2>2. WeightOf(1 .. n) # 0
    BY <1>2, <2>1
  <2>3. QED
    BY <1>6, <2>1, <2>2
<1>8. QED
  BY <1>2, <1>4, <1>5, <1>6, <1>7

-------------------------------------------------------------------------------
(* What the steps of the comparison record                                 *)

\* The score and the trigram of an element of a beam are numbers and nodes.
LEMMA TrigramOfElement ==
  ASSUME IInv, pc = "done", NEW r \in 1 .. Eos, NEW k \in DOMAIN beams[r]
  PROVE  beams[r][k].total \in Int /\ TrigramOf(beams[r][k], r) \in Seq(Int)
<1>1. InputOK /\ TypesOK /\ BeamsOK
  BY DEF IInv
<1>2. r \in NodeIds /\ r # Bos /\ Start(r) \in 0 .. lat.n /\ r \in Int
  BY <1>1, NodesOfLattice
<1>3. PICK el : el = beams[r][k]
  OBVIOUS
<1>4. el.total \in Int /\ Points(el, Start(r))
  BY <1>1, <1>2, <1>3, BeamFacts
<1>5. el.left \in NodeIds /\ el.left \in Int /\ el.beam \in DOMAIN beams[el.left]
  <2>1. el.left \in Left(Start(r)) /\ el.beam \in DOMAIN beams[el.left]
    BY <1>4 DEF Points
  <2>2. QED
    BY <1>1, <1>2, <2>1, NodesOfLattice
<1>6. beams[el.left][el.beam] \in Elements
  BY <1>1, <1>5, BeamFacts
<1>7. beams[el.left][el.beam].left \in Int
  BY <1>6 DEF Elements
<1>8. TrigramOf(el, r) \in Seq(Int)
  BY <1>2, <1>5, <1>7 DEF TrigramOf
<1>9. QED
  BY <1>3, <1>4, <1>8

\* While a full annotation is compared, both paths are segmentations of the
\* sentence, and so far the comparison is as it should be.
LEMMA BothPaths ==
  ASSUME IInv, CompareInv, Training
  PROVE  /\ pc = "done" /\ InputOK /\ NoPenalty /\ ~cfg.extra
         /\ IsSegmentation(TopWords) /\ IsSegmentation(gold)
         /\ WalkOf(comparison, curTop, curGold)
<1>1. pc = "done" /\ lat.user = "fullTraining" /\ InputOK
  BY DEF Training, IInv
<1>2. NoPenalty /\ ~cfg.extra /\ IsSegmentation(gold)
  BY <1>1 DEF CompareInv, TrainingInput
<1>3. IsSegmentation(TopWords)
  BY <1>1, BestPathWords
<1>4. Fresh => WalkOf(comparison, curTop, curGold)
  BY <1>1, <1>2, <1>3, WalkStarts DEF Fresh
<1>5. QED
  BY <1>1, <1>2, <1>3, <1>4 DEF CompareInv

\* The word of the best path that is next
LEMMA NextTop ==
  ASSUME IInv, CompareInv, Training
  PROVE  /\ HasNextTop <=> curTop < Len(TopWords)
         /\ TopBoundary = Start(NodeOf(TopWords, curTop + 1))
         /\ TopBoundary \in 0 .. lat.n
         /\ HasNextTop <=> TopBoundary # lat.n
         /\ HasNextTop =>
              /\ Top1[curTop + 1].node = TopWords[curTop + 1]
              /\ TopWords[curTop + 1] \in 1 .. Eos
              /\ Start(TopWords[curTop + 1]) = TopBoundary
              /\ TopElement.total \in Int
              /\ TopElement.total = ScoreUpTo(TopWords, TopBoundary)
              /\ TrigramOf(TopElement, TopWords[curTop + 1]) \in Seq(Int)
<1>1. PICK u, n, t, N : u = TopWords /\ n = Len(Top1) /\ t = curTop + 1 /\ N = lat.n
  OBVIOUS
<1>2. pc = "done" /\ InputOK /\ ~cfg.extra /\ IsSegmentation(u) /\ WalkOf(comparison, curTop, curGold)
  BY <1>1, BothPaths
<1>3. /\ Len(u) = n /\ n \in Nat
      /\ \A i \in 1 .. n : /\ u[i] = Top1[i].node
                           /\ Top1[i].node \in 1 .. Eos
                           /\ Top1[i].beam \in DOMAIN beams[Top1[i].node]
                           /\ beams[Top1[i].node][Top1[i].beam].total = PathScore(Upto(u, i), u[i])
  BY <1>1, <1>2, BestPathWords
<1>4. curTop \in 0 .. n /\ t \in 1 .. n + 1 /\ (curTop < n <=> t \in 1 .. n) /\ (curTop < n <=> t # n + 1)
  <2>1. curTop \in 0 .. n
    BY <1>1, <1>2, <1>3 DEF WalkOf
  <2>2. QED
    BY <1>1, <1>3, <2>1
<1>5. /\ Start(NodeOf(u, t)) \in 0 .. N
      /\ Start(NodeOf(u, t)) = N <=> t = n + 1
      /\ \A i \in 1 .. n : NodeOf(u, i) = u[i]
      /\ \A i, j \in 1 .. n + 1 : i < j => Start(NodeOf(u, i)) < Start(NodeOf(u, j))
  BY <1>1, <1>2, <1>3, <1>4, Segmentation
<1>6. HasNextTop <=> curTop < n
  BY <1>1 DEF HasNextTop
<1>7. TopBoundary = Start(NodeOf(u, t))
  <2>1. CASE curTop < n
    BY <1>1, <1>3, <1>4, <1>5, <1>6, <2>1 DEF TopBoundary
  <2>2. CASE ~(curTop < n)
    BY <1>1, <1>4, <1>5, <1>6, <2>2 DEF TopBoundary
  <2>3. QED
    BY <2>1, <2>2
<1>8. ASSUME curTop < n
      PROVE  /\ Top1[t].node = u[t] /\ u[t] \in 1 .. Eos /\ Start(u[t]) = TopBoundary
             /\ TopElement.total \in Int
             /\ TopElement.total = ScoreUpTo(u, TopBoundary)
             /\ TrigramOf(TopElement, u[t]) \in Seq(Int)
  <2>1. t \in 1 .. n /\ t # n + 1
    BY <1>4, <1>8
  <2>2. /\ Top1[t].node = u[t] /\ u[t] \in 1 .. Eos
        /\ Top1[t].beam \in DOMAIN beams[u[t]]
        /\ beams[u[t]][Top1[t].beam].total = PathScore(Upto(u, t), u[t])
    BY <1>3, <2>1
  <2>3. TopElement = beams[u[t]][Top1[t].beam]
    BY <1>1, <2>2 DEF TopElement
  <2>4. TopElement.total \in Int /\ TrigramOf(TopElement, u[t]) \in Seq(Int)
    BY <1>2, <2>2, <2>3, TrigramOfElement
  <2>5. NodeOf(u, t) = u[t] /\ Start(u[t]) = TopBoundary
    BY <1>5, <1>7, <2>1
  <2>6. ScoreUpTo(u, TopBoundary) = PathScore(Upto(u, t), u[t])
    <3>1. TopBoundary \in Int /\ Start(NodeOf(u, t)) <= TopBoundary
      BY <1>1, <1>2, <1>5, <1>7, NodesOfLattice
    <3>2. TopBoundary < Start(NodeOf(u, t + 1))
      <4>1. t + 1 \in 1 .. n + 1 /\ t \in 1 .. n + 1 /\ t < t + 1
        BY <1>3, <2>1
      <4>2. QED
        BY <1>5, <1>7, <4>1
    <3>3. ScoreUpTo(u, TopBoundary) = PathScore(Upto(u, t), NodeOf(u, t))
      BY <1>2, <1>3, <1>4, <3>1, <3>2, ScoreOfPrefix
    <3>4. QED
      BY <2>5, <3>3
  <2>7. QED
    BY <2>2, <2>3, <2>4, <2>5, <2>6
<1>9. QED
  BY <1>1, <1>3, <1>4, <1>5, <1>6, <1>7, <1>8

\* The gold word that is next, and the score of the gold path up to it and
\* before it
LEMMA NextGold ==
  ASSUME IInv, CompareInv, Training
  PROVE  /\ HasNextGold <=> curGold < Len(gold)
         /\ GoldBoundary = Start(NodeOf(gold, curGold + 1))
         /\ GoldBoundary \in 0 .. lat.n
         /\ HasNextGold <=> GoldBoundary # lat.n
         /\ GoldNode(curGold) = NodeOf(gold, curGold + 1)
         /\ HasNextGold => GoldNode(curGold) = gold[curGold + 1]
         /\ GoldNode(curGold) \in 1 .. Eos /\ Start(GoldNode(curGold)) = GoldBoundary
         /\ GoldScores[curGold] \in Int
         /\ GoldScores[curGold] = ScoreUpTo(gold, GoldBoundary)
         /\ \A b \in 0 .. lat.n :
              /\ b < GoldBoundary
              /\ \A k \in 1 .. curGold : Start(NodeOf(gold, k)) <= b
              => LastGoldScore \in Int /\ LastGoldScore = ScoreUpTo(gold, b)
<1>1. PICK v, n, g, N : v = gold /\ n = Len(gold) /\ g = curGold + 1 /\ N = lat.n
  OBVIOUS
<1>2. InputOK /\ NoPenalty /\ IsSegmentation(v) /\ WalkOf(comparison, curTop, curGold)
  BY <1>1, BothPaths
<1>3. n \in Nat /\ Len(v) = n
  BY <1>1, <1>2, Segmentation
<1>4. curGold \in 0 .. n /\ g \in 1 .. n + 1 /\ (curGold < n <=> g \in 1 .. n)
      /\ (curGold < n <=> g # n + 1) /\ g - 1 = curGold
  <2>1. curGold \in 0 .. n
    BY <1>1, <1>2 DEF WalkOf
  <2>2. QED
    BY <1>1, <1>3, <2>1
<1>5. /\ Start(NodeOf(v, g)) \in 0 .. N /\ NodeOf(v, g) \in 1 .. Eos
      /\ Start(NodeOf(v, g)) = N <=> g = n + 1
      /\ \A i \in 1 .. n : NodeOf(v, i) = v[i]
      /\ Start(NodeOf(v, 1)) = 0
      /\ \A i, j \in 1 .. n + 1 : i < j => Start(NodeOf(v, i)) < Start(NodeOf(v, j))
  BY <1>1, <1>2, <1>3, <1>4, Segmentation
<1>6. HasNextGold <=> curGold < n
  BY <1>1 DEF HasNextGold
<1>7. GoldBoundary = Start(NodeOf(v, g))
  <2>1. CASE curGold < n
    BY <1>1, <1>3, <1>4, <1>5, <1>6, <2>1 DEF GoldBoundary
  <2>2. CASE ~(curGold < n)
    BY <1>1, <1>4, <1>5, <1>6, <2>2 DEF GoldBoundary
  <2>3. QED
    BY <2>1, <2>2
<1>8. GoldNode(curGold) = NodeOf(v, g)
  <2>1. GoldNode(g - 1) = NodeOf(v, g)
    BY <1>1, <1>2, <1>4, NodesOfGold
  <2>2. QED
    BY <1>4, <2>1
<1>9. ASSUME NEW i \in 1 .. n + 1, NEW b \in 0 .. N,
             Start(NodeOf(v, i)) <= b, i = n + 1 \/ b < Start(NodeOf(v, i + 1))
      PROVE  GoldScores[i - 1] \in Int /\ GoldScores[i - 1] = ScoreUpTo(v, b)
  <2>1. GoldScores[i - 1] \in Int /\ GoldScores[i - 1] = PathScore(Upto(v, i), NodeOf(v, i))
    BY <1>1, <1>2, ScoresOfGold
  <2>2. b \in Int
    BY <1>1, <1>2, NodesOfLattice
  <2>3. ScoreUpTo(v, b) = PathScore(Upto(v, i), NodeOf(v, i))
    BY <1>2, <1>3, <1>9, <2>2, ScoreOfPrefix
  <2>4. QED
    BY <2>1, <2>3
<1>10. GoldScores[curGold] \in Int /\ GoldScores[curGold] = ScoreUpTo(v, GoldBoundary)
  <2>1. GoldBoundary \in 0 .. N /\ Start(NodeOf(v, g)) <= GoldBoundary
    BY <1>1, <1>2, <1>5, <1>7, NodesOfLattice
  <2>2. g = n + 1 \/ GoldBoundary < Start(NodeOf(v, g + 1))
    <3>1. g # n + 1 => g + 1 \in 1 .. n + 1 /\ g < g + 1
      BY <1>3, <1>4
    <3>2. QED
      BY <1>4, <1>5, <1>7, <3>1
  <2>3. QED
    BY <1>4, <1>9, <2>1, <2>2
<1>11. ASSUME NEW b \in 0 .. N, b < GoldBoundary, \A k \in 1 .. curGold : Start(NodeOf(v, k)) <= b
       PROVE  LastGoldScore \in Int /\ LastGoldScore = ScoreUpTo(v, b)
  <2>1. curGold # 0
    <3>1. SUFFICES ASSUME curGold = 0 PROVE FALSE
      OBVIOUS
    <3>2. GoldBoundary = 0
      <4>1. g = 1
        BY <1>1, <3>1
      <4>2. QED
        BY <1>5, <1>7, <4>1
    <3>3. b \in Nat
      BY <1>1, <1>2, NodesOfLattice
    <3>4. QED
      BY <1>11, <3>2, <3>3
  <2>2. PICK k : k = curGold
    OBVIOUS
  <2>3. k \in 1 .. curGold /\ k \in 1 .. n + 1 /\ k + 1 = g
    BY <1>1, <1>3, <1>4, <2>1, <2>2
  <2>4. GoldScores[k - 1] \in Int /\ GoldScores[k - 1] = ScoreUpTo(v, b)
    BY <1>7, <1>9, <1>11, <2>3
  <2>5. QED
    BY <2>1, <2>2, <2>4 DEF LastGoldScore
<1>12. curGold < n => GoldNode(curGold) = v[g]
  BY <1>4, <1>5, <1>8
<1>13. QED
  BY <1>1, <1>4, <1>5, <1>6, <1>7, <1>8, <1>10, <1>11, <1>12

\* The gold words that are behind start before the next word of the best path.
LEMMA GoldWordsBehind ==
  ASSUME IInv, CompareInv, Training
  PROVE  \A k \in 1 .. curGold : Start(NodeOf(gold, k)) <= TopBoundary
<1>1. PICK v, c, b : v = gold /\ c = comparison /\ b = TopBoundary
  OBVIOUS
<1>2. InputOK /\ IsSegmentation(v) /\ WalkOf(c, curTop, curGold)
  BY <1>1, BothPaths
<1>3. /\ \A i \in 1 .. Len(v) : NodeOf(v, i) = v[i] /\ v[i] # Eos
      /\ \A i \in 1 .. Len(v) + 1 : NodeOf(v, i) \in 1 .. Eos
      /\ Len(v) \in Nat
  BY <1>2, Segmentation
<1>4. b = Start(NodeOf(TopWords, curTop + 1)) /\ b \in 0 .. lat.n
  BY <1>1, NextTop
<1>5. SUFFICES ASSUME NEW k \in 1 .. curGold PROVE Start(NodeOf(v, k)) <= b
  BY <1>1
<1>6. k \in 1 .. Len(v) /\ k \in 1 .. Len(v) + 1
  <2>1. curGold \in 0 .. Len(v)
    BY <1>1, <1>2 DEF WalkOf
  <2>2. QED
    BY <1>3, <2>1
<1>7. PICK i \in 1 .. Len(c) : c[i].gold = v[k]
  BY <1>1, <1>2 DEF WalkOf
<1>8. c[i].gold \in 1 .. Eos /\ c[i].gold # Eos /\ c[i].gold # 0
  BY <1>2, <1>3, <1>6, <1>7, NodesOfLattice
<1>9. Start(c[i].gold) = c[i].boundary /\ c[i].boundary \in 0 .. lat.n
  BY <1>2, <1>8 DEF WalkOf, StepOK
<1>10. c[i].boundary < b
  BY <1>2, <1>4, <1>8 DEF WalkOf
<1>11. QED
  <2>1. lat.n \in Nat
    BY <1>2, NodesOfLattice
  <2>2. QED
    BY <1>3, <1>4, <1>6, <1>7, <1>9, <1>10, <2>1

\* Words of both paths that start at the same boundary are compared.
LEMMA CompareBothStep ==
  ASSUME IInv, CompareInv, CompareBoth
  PROVE  WalkOf(comparison', curTop', curGold')
<1>1. Training /\ Comparing /\ Order(GoldBoundary, TopBoundary) = "Both"
  BY DEF CompareBoth, Comparing
<1>2. InputOK /\ IsSegmentation(TopWords) /\ IsSegmentation(gold) /\ pc = "done"
      /\ WalkOf(comparison, curTop, curGold)
  BY <1>1, BothPaths
<1>3. /\ HasNextTop <=> curTop < Len(TopWords)
      /\ TopBoundary = Start(NodeOf(TopWords, curTop + 1)) /\ TopBoundary \in 0 .. lat.n
      /\ HasNextTop <=> TopBoundary # lat.n
  BY <1>1, NextTop
<1>4. /\ HasNextGold <=> curGold < Len(gold)
      /\ GoldBoundary = Start(NodeOf(gold, curGold + 1)) /\ GoldBoundary \in 0 .. lat.n
      /\ HasNextGold <=> GoldBoundary # lat.n
      /\ GoldScores[curGold] \in Int /\ GoldScores[curGold] = ScoreUpTo(gold, GoldBoundary)
      /\ GoldNode(curGold) = NodeOf(gold, curGold + 1)
      /\ GoldNode(curGold) \in 1 .. Eos /\ Start(GoldNode(curGold)) = GoldBoundary
  BY <1>1, NextGold
<1>5. GoldBoundary = TopBoundary
  BY <1>1 DEF Order
<1>6. HasNextTop /\ HasNextGold /\ TopBoundary < lat.n
  <2>1. HasNextTop /\ HasNextGold
    BY <1>1, <1>3, <1>4, <1>5 DEF Comparing
  <2>2. lat.n \in Nat
    BY <1>2, NodesOfLattice
  <2>3. QED
    BY <1>3, <2>1, <2>2
<1>7. /\ Top1[curTop + 1].node = TopWords[curTop + 1]
      /\ TopWords[curTop + 1] \in 1 .. Eos /\ Start(TopWords[curTop + 1]) = TopBoundary
      /\ TopElement.total \in Int
      /\ TopElement.total = ScoreUpTo(TopWords, TopBoundary)
      /\ TrigramOf(TopElement, TopWords[curTop + 1]) \in Seq(Int)
  BY <1>1, <1>6, NextTop
<1>8. GoldNode(curGold) = gold[curGold + 1]
  BY <1>1, <1>6, NextGold
<1>9. PICK b, x, y, F, w, s, p, q, tri :
        /\ b = TopBoundary /\ x = TopWords[curTop + 1] /\ y = GoldNode(curGold)
        /\ F = Mismatches(x, y) /\ w = WeightOf(F) /\ s = GoldScores[curGold]
        /\ p = TopElement.total /\ q = GoldStillInBeam(y, curGold) /\ tri = TrigramOf(TopElement, x)
  OBVIOUS
<1>10. F \in SUBSET DOMAIN FieldWeights /\ Cardinality(F) \in Nat
  <2>1. PICK n : n = Len(FieldWeights)
    OBVIOUS
  <2>2. n \in Nat /\ DOMAIN FieldWeights = 1 .. n
    BY <2>1, ComparisonConstants
  <2>3. F \in SUBSET DOMAIN FieldWeights
    BY <1>9 DEF Mismatches
  <2>4. IsFiniteSet(1 .. n)
    BY <2>2, FS_Interval
  <2>5. IsFiniteSet(F)
    BY <2>2, <2>3, <2>4, FS_Subset
  <2>6. QED
    BY <2>3, <2>5, FS_CardinalityType
<1>11. w \in Nat
  BY <1>9, <1>10, WeightsOfFields
<1>12. curGold \in 0 .. Len(gold) /\ curTop \in 0 .. Len(TopWords) /\ Len(gold) \in Nat /\ Len(TopWords) \in Nat
  BY <1>2, Segmentation DEF WalkOf
<1>13. lat.n \in Nat /\ Eos \in Nat
  BY <1>2, NodesOfLattice
<1>14. PICK e :
         e = [Step("Both", b, x, y) EXCEPT
                !.topTrigram = tri, !.numGold = curGold, !.lastGoldScore = s, !.violation = p - s,
                !.mismatches = Cardinality(F), !.weight = w, !.goldInBeam = q]
  OBVIOUS
<1>15. q \in BOOLEAN
  BY <1>9 DEF GoldStillInBeam
<1>16. /\ b \in Int /\ x \in Int /\ y \in Int /\ tri \in Seq(Int) /\ curGold \in Int
       /\ s \in Int /\ p - s \in Int
  <2>1. p \in Int /\ s \in Int /\ tri \in Seq(Int)
    BY <1>4, <1>7, <1>9
  <2>2. b \in Int /\ x \in Int /\ y \in Int
    BY <1>3, <1>4, <1>7, <1>9, <1>13
  <2>3. curGold \in Int /\ p - s \in Int
    BY <1>12, <2>1
  <2>4. QED
    BY <2>1, <2>2, <2>3
<1>17. e \in Steps
  <2>1. Step("Both", b, x, y) \in Steps
    BY <1>16 DEF Step, Steps
  <2>2. QED
    BY <1>10, <1>11, <1>14, <1>15, <1>16, <2>1 DEF Steps
<1>. DEFINE Fields == /\ e.class = "Both" /\ e.boundary = b /\ e.top = x /\ e.gold = y
                      /\ e.numGold = curGold /\ e.lastGoldScore = s /\ e.violation = p - s
                      /\ e.weight = w /\ e.goldInBeam = q
<1>18. Fields
  BY <1>14 DEF Step
<1>19. comparison' = Append(comparison, e) /\ curTop' = curTop + 1 /\ curGold' = curGold + 1
  BY <1>7, <1>9, <1>14 DEF CompareBoth
<1>20. StepOK(e)
  <2>1. x # 0 /\ y # 0
    BY <1>4, <1>7, <1>9, <1>13
  <2>2. b \in 0 .. lat.n /\ x \in 1 .. Eos /\ Start(x) = b /\ y \in 1 .. Eos /\ Start(y) = b
    BY <1>3, <1>4, <1>5, <1>7, <1>9
  <2>3. curGold \in 0 .. Len(gold) /\ y = NodeOf(gold, curGold + 1) /\ q = GoldStillInBeam(y, curGold)
    BY <1>4, <1>9, <1>12
  <2>4. s = ScoreUpTo(gold, b) /\ p = ScoreUpTo(TopWords, b)
    BY <1>4, <1>5, <1>7, <1>9
  <2>5. b # lat.n /\ w = WeightOf(Mismatches(x, y))
    BY <1>3, <1>6, <1>9
  <2>6. QED
    BY <1>18, <2>1, <2>2, <2>3, <2>4, <2>5 DEF StepOK
<1>21. /\ e.boundary < lat.n /\ e.top = TopWords[curTop + 1] /\ e.boundary = Start(e.top)
       /\ e.gold = gold[curGold + 1] /\ e.boundary = Start(e.gold)
       /\ curTop < Len(TopWords) /\ curGold < Len(gold)
       /\ curTop + 1 # curTop /\ curGold + 1 # curGold
  BY <1>3, <1>4, <1>5, <1>6, <1>7, <1>8, <1>9, <1>12, <1>18
<1>. HIDE DEF Fields
<1>22. WalkOf(Append(comparison, e), curTop + 1, curGold + 1)
  BY <1>2, <1>17, <1>20, <1>21, WalkOn
<1>23. QED
  BY <1>22, <1>19

\* A word of the best path that the gold path has nothing to compare with.
LEMMA CompareTopOnlyStep ==
  ASSUME IInv, CompareInv, CompareTopOnly
  PROVE  WalkOf(comparison', curTop', curGold')
<1>1. Training /\ Comparing /\ Order(GoldBoundary, TopBoundary) = "TopOnly"
  BY DEF CompareTopOnly, Comparing
<1>2. InputOK /\ IsSegmentation(TopWords) /\ IsSegmentation(gold)
      /\ WalkOf(comparison, curTop, curGold) /\ lat.n \in Nat /\ Eos \in Nat
  BY <1>1, BothPaths, NodesOfLattice
<1>3. /\ HasNextTop <=> curTop < Len(TopWords)
      /\ TopBoundary = Start(NodeOf(TopWords, curTop + 1)) /\ TopBoundary \in 0 .. lat.n
      /\ HasNextTop <=> TopBoundary # lat.n
  BY <1>1, NextTop
<1>4. GoldBoundary = Start(NodeOf(gold, curGold + 1)) /\ GoldBoundary \in 0 .. lat.n
  BY <1>1, NextGold
<1>5. TopBoundary < GoldBoundary
  BY <1>1, <1>2, <1>3, <1>4 DEF Order
<1>6. HasNextTop /\ TopBoundary < lat.n
  BY <1>2, <1>3, <1>4, <1>5
<1>7. /\ Top1[curTop + 1].node = TopWords[curTop + 1]
      /\ TopWords[curTop + 1] \in 1 .. Eos /\ Start(TopWords[curTop + 1]) = TopBoundary
      /\ TopElement.total \in Int
      /\ TopElement.total = ScoreUpTo(TopWords, TopBoundary)
      /\ TrigramOf(TopElement, TopWords[curTop + 1]) \in Seq(Int)
  BY <1>1, <1>6, NextTop
<1>8. LastGoldScore \in Int /\ LastGoldScore = ScoreUpTo(gold, TopBoundary)
  BY <1>1, <1>3, <1>5, GoldWordsBehind, NextGold
<1>9. PICK b, x, s, p, tri :
        /\ b = TopBoundary /\ x = TopWords[curTop + 1] /\ s = LastGoldScore
        /\ p = TopElement.total /\ tri = TrigramOf(TopElement, x)
  OBVIOUS
<1>10. curTop \in 0 .. Len(TopWords) /\ Len(TopWords) \in Nat
  BY <1>2, Segmentation DEF WalkOf
<1>11. PICK e :
         e = [Step("TopOnly", b, x, 0) EXCEPT
                !.topTrigram = tri, !.lastGoldScore = s, !.violation = p - s]
  OBVIOUS
<1>12. b \in Int /\ x \in Int /\ tri \in Seq(Int) /\ s \in Int /\ p - s \in Int
  <2>1. p \in Int /\ s \in Int /\ tri \in Seq(Int)
    BY <1>7, <1>8, <1>9
  <2>2. QED
    BY <1>2, <1>3, <1>7, <1>9, <2>1
<1>13. e \in Steps
  <2>1. Step("TopOnly", b, x, 0) \in Steps
    BY <1>12 DEF Step, Steps
  <2>2. QED
    BY <1>11, <1>12, <2>1 DEF Steps
<1>. DEFINE Fields == /\ e.class = "TopOnly" /\ e.boundary = b /\ e.top = x /\ e.gold = 0
                      /\ e.lastGoldScore = s /\ e.violation = p - s
<1>14. Fields
  BY <1>11 DEF Step
<1>15. comparison' = Append(comparison, e) /\ curTop' = curTop + 1 /\ curGold' = curGold
  BY <1>7, <1>9, <1>11 DEF CompareTopOnly
<1>16. StepOK(e)
  <2>1. b \in 0 .. lat.n /\ x # 0 /\ x \in 1 .. Eos /\ Start(x) = b
    BY <1>2, <1>3, <1>7, <1>9
  <2>2. s = ScoreUpTo(gold, b) /\ p = ScoreUpTo(TopWords, b)
    BY <1>7, <1>8, <1>9
  <2>3. QED
    BY <1>14, <2>1, <2>2 DEF StepOK
<1>17. /\ e.boundary < lat.n /\ e.top = TopWords[curTop + 1] /\ e.boundary = Start(e.top)
       /\ e.gold = 0 /\ e.boundary < Start(NodeOf(gold, curGold + 1))
       /\ curTop < Len(TopWords) /\ curTop + 1 # curTop
  BY <1>3, <1>4, <1>5, <1>6, <1>7, <1>9, <1>10, <1>14
<1>. HIDE DEF Fields
<1>18. WalkOf(Append(comparison, e), curTop + 1, curGold)
  BY <1>2, <1>13, <1>16, <1>17, WalkOn
<1>19. QED
  BY <1>18, <1>15

\* A gold word that the best path has nothing to compare with.
LEMMA CompareGoldOnlyStep ==
  ASSUME IInv, CompareInv, CompareGoldOnly
  PROVE  WalkOf(comparison', curTop', curGold')
<1>1. Training /\ Comparing /\ Order(GoldBoundary, TopBoundary) = "GoldOnly"
  BY DEF CompareGoldOnly, Comparing
<1>2. InputOK /\ IsSegmentation(TopWords) /\ IsSegmentation(gold)
      /\ WalkOf(comparison, curTop, curGold) /\ lat.n \in Nat /\ Eos \in Nat
  BY <1>1, BothPaths, NodesOfLattice
<1>3. TopBoundary = Start(NodeOf(TopWords, curTop + 1)) /\ TopBoundary \in 0 .. lat.n
  BY <1>1, NextTop
<1>4. /\ HasNextGold <=> curGold < Len(gold)
      /\ GoldBoundary = Start(NodeOf(gold, curGold + 1)) /\ GoldBoundary \in 0 .. lat.n
      /\ HasNextGold <=> GoldBoundary # lat.n
      /\ GoldScores[curGold] \in Int /\ GoldScores[curGold] = ScoreUpTo(gold, GoldBoundary)
      /\ GoldNode(curGold) = NodeOf(gold, curGold + 1)
      /\ GoldNode(curGold) \in 1 .. Eos /\ Start(GoldNode(curGold)) = GoldBoundary
  BY <1>1, NextGold
<1>5. GoldBoundary < TopBoundary
  BY <1>1, <1>2, <1>3, <1>4 DEF Order
<1>6. HasNextGold /\ GoldBoundary < lat.n
  BY <1>2, <1>3, <1>4, <1>5
<1>7. GoldNode(curGold) = gold[curGold + 1]
  BY <1>1, <1>6, NextGold
<1>8. PICK b, y, s, q :
        /\ b = GoldBoundary /\ y = GoldNode(curGold) /\ s = GoldScores[curGold]
        /\ q = GoldStillInBeam(y, curGold)
  OBVIOUS
<1>9. curGold \in 0 .. Len(gold) /\ Len(gold) \in Nat
  BY <1>2, Segmentation DEF WalkOf
<1>10. PICK e :
         e = [Step("GoldOnly", b, 0, y) EXCEPT
                !.numGold = curGold, !.lastGoldScore = s, !.goldInBeam = q]
  OBVIOUS
<1>11. q \in BOOLEAN
  BY <1>8 DEF GoldStillInBeam
<1>12. b \in Int /\ y \in Int /\ curGold \in Int /\ s \in Int /\ <<>> \in Seq(Int)
  BY <1>2, <1>4, <1>8, <1>9
<1>13. e \in Steps
  <2>1. Step("GoldOnly", b, 0, y) \in Steps
    BY <1>12 DEF Step, Steps
  <2>2. QED
    BY <1>10, <1>11, <1>12, <2>1 DEF Steps
<1>. DEFINE Fields == /\ e.class = "GoldOnly" /\ e.boundary = b /\ e.top = 0 /\ e.gold = y
                      /\ e.numGold = curGold /\ e.lastGoldScore = s /\ e.goldInBeam = q
<1>14. Fields
  BY <1>10 DEF Step
<1>15. comparison' = Append(comparison, e) /\ curTop' = curTop /\ curGold' = curGold + 1
  BY <1>8, <1>10 DEF CompareGoldOnly
<1>16. StepOK(e)
  <2>1. b \in 0 .. lat.n /\ y # 0 /\ y \in 1 .. Eos /\ Start(y) = b
    BY <1>2, <1>4, <1>8
  <2>2. curGold \in 0 .. Len(gold) /\ y = NodeOf(gold, curGold + 1) /\ q = GoldStillInBeam(y, curGold)
    BY <1>4, <1>8, <1>9
  <2>3. s = ScoreUpTo(gold, b)
    BY <1>4, <1>8
  <2>4. QED
    BY <1>14, <2>1, <2>2, <2>3 DEF StepOK
<1>17. /\ e.boundary < lat.n /\ e.gold = gold[curGold + 1] /\ e.boundary = Start(e.gold)
       /\ e.top = 0 /\ e.boundary < Start(NodeOf(TopWords, curTop + 1))
       /\ curGold < Len(gold) /\ curGold + 1 # curGold
  BY <1>3, <1>4, <1>5, <1>6, <1>7, <1>8, <1>9, <1>14
<1>. HIDE DEF Fields
<1>18. WalkOf(Append(comparison, e), curTop, curGold + 1)
  BY <1>2, <1>13, <1>16, <1>17, WalkOn
<1>19. QED
  BY <1>18, <1>15

\* The ends of both paths are compared last.
LEMMA CompareEosStep ==
  ASSUME IInv, CompareInv, CompareEos
  PROVE  WalkOf(comparison', curTop', curGold')
<1>1. Training /\ ~HasNextTop /\ ~HasNextGold /\ ~EosCompared
  BY DEF CompareEos
<1>2. InputOK /\ IsSegmentation(TopWords) /\ IsSegmentation(gold) /\ IInv /\ pc = "done" /\ ~cfg.extra
      /\ WalkOf(comparison, curTop, curGold) /\ lat.n \in Nat /\ Eos \in Nat \ {0} /\ Start(Eos) = lat.n
  BY <1>1, BothPaths, NodesOfLattice
<1>3. PICK c, m, u, v, N : c = comparison /\ m = Len(comparison) /\ u = TopWords /\ v = gold /\ N = lat.n
  OBVIOUS
<1>4. Len(u) \in Nat /\ Len(v) \in Nat /\ curTop = Len(u) /\ curGold = Len(v)
  <2>1. Len(u) \in Nat /\ Len(v) \in Nat
    BY <1>2, <1>3, Segmentation
  <2>2. ~(curTop < Len(u)) /\ ~(curGold < Len(v))
    BY <1>1, <1>3, NextTop, NextGold
  <2>3. curTop \in 0 .. Len(u) /\ curGold \in 0 .. Len(v)
    BY <1>2, <1>3 DEF WalkOf
  <2>4. QED
    BY <2>1, <2>2, <2>3
<1>5. /\ GoldBoundary = N
      /\ GoldScores[curGold] \in Int /\ GoldScores[curGold] = ScoreUpTo(v, N)
      /\ GoldNode(curGold) = NodeOf(v, Len(v) + 1)
  BY <1>1, <1>3, <1>4, NextGold
<1>6. NodeOf(v, Len(v) + 1) = Eos /\ NodeOf(u, Len(u) + 1) = Eos
  BY DEF NodeOf
<1>7. 1 \in DOMAIN beams[Eos] /\ beams[Eos][1].total = PathScore(Upto(u, Len(u) + 1), Eos)
  <2>1. Len(Top1) = Len(u)
    BY <1>2, <1>3, BestPathWords
  <2>2. QED
    BY <1>2, <1>3, <2>1, BestPathWords
<1>8. beams[Eos][1].total \in Int /\ TrigramOf(beams[Eos][1], Eos) \in Seq(Int)
  BY <1>2, <1>7, TrigramOfElement
<1>9. ScoreUpTo(u, N) = beams[Eos][1].total
  <2>1. PICK i : i = Len(u) + 1
    OBVIOUS
  <2>2. i \in 1 .. Len(u) + 1 /\ N \in Int /\ Start(NodeOf(u, i)) <= N
    BY <1>2, <1>3, <1>4, <1>6, <2>1
  <2>3. ScoreUpTo(u, N) = PathScore(Upto(u, i), NodeOf(u, i))
    BY <1>2, <1>3, <2>1, <2>2, ScoreOfPrefix
  <2>4. QED
    BY <1>6, <1>7, <2>1, <2>3
<1>10. \A i \in 1 .. m : c[i].boundary # N
  <2>1. /\ c \in Seq(Steps) /\ m \in Nat
        /\ \A i \in 1 .. m : c[i].boundary \in 0 .. N
        /\ \A i, j \in 1 .. m : i < j => c[i].boundary < c[j].boundary
    BY <1>2, <1>3 DEF WalkOf, StepOK
  <2>2. m # 0 => c[m].boundary # N
    <3>1. m # 0 => c # <<>>
      BY <1>3, <2>1
    <3>2. Last(c) = c[m]
      BY <1>3 DEF Last
    <3>3. QED
      BY <1>1, <1>3, <3>1, <3>2 DEF EosCompared
  <2>3. SUFFICES ASSUME NEW i \in 1 .. m PROVE c[i].boundary # N
    OBVIOUS
  <2>4. CASE i = m
    BY <2>1, <2>2, <2>4
  <2>5. CASE i # m
    <3>1. m \in 1 .. m /\ i < m
      BY <2>1, <2>5
    <3>2. c[i].boundary < c[m].boundary /\ c[m].boundary \in 0 .. N /\ c[i].boundary \in 0 .. N
      BY <2>1, <3>1
    <3>3. QED
      BY <1>2, <1>3, <3>2
  <2>6. QED
    BY <2>4, <2>5
<1>11. PICK s, p, q, tri :
         /\ s = GoldScores[curGold] /\ p = beams[Eos][1].total
         /\ q = GoldStillInBeam(Eos, curGold) /\ tri = TrigramOf(beams[Eos][1], Eos)
  OBVIOUS
<1>12. PICK e :
         e = [Step("Both", lat.n, Eos, Eos) EXCEPT
                !.topTrigram = tri, !.numGold = curGold, !.lastGoldScore = s,
                !.violation = p - s, !.goldInBeam = q]
  OBVIOUS
<1>13. /\ lat.n \in Int /\ Eos \in Int /\ tri \in Seq(Int) /\ curGold \in Int
       /\ s \in Int /\ p - s \in Int /\ q \in BOOLEAN
  <2>1. p \in Int /\ s \in Int /\ tri \in Seq(Int)
    BY <1>5, <1>8, <1>11
  <2>2. q \in BOOLEAN
    BY <1>11 DEF GoldStillInBeam
  <2>3. QED
    BY <1>2, <1>4, <2>1, <2>2
<1>14. e \in Steps
  <2>1. Step("Both", lat.n, Eos, Eos) \in Steps
    BY <1>13 DEF Step, Steps
  <2>2. QED
    BY <1>12, <1>13, <2>1 DEF Steps
<1>. DEFINE Fields == /\ e.class = "Both" /\ e.boundary = lat.n /\ e.top = Eos /\ e.gold = Eos
                      /\ e.numGold = curGold /\ e.lastGoldScore = s /\ e.violation = p - s
                      /\ e.weight = 0 /\ e.goldInBeam = q
<1>15. Fields
  BY <1>12 DEF Step
<1>16. comparison' = Append(comparison, e) /\ curTop' = curTop /\ curGold' = curGold
  BY <1>11, <1>12 DEF CompareEos
<1>17. StepOK(e)
  <2>1. lat.n \in 0 .. lat.n /\ Eos # 0 /\ Eos \in 1 .. Eos /\ Start(Eos) = lat.n
    BY <1>2
  <2>2. curGold \in 0 .. Len(gold) /\ Eos = NodeOf(gold, curGold + 1) /\ q = GoldStillInBeam(Eos, curGold)
    BY <1>3, <1>4, <1>6, <1>11
  <2>3. s = ScoreUpTo(gold, lat.n) /\ p = ScoreUpTo(TopWords, lat.n)
    BY <1>3, <1>5, <1>9, <1>11
  <2>4. QED
    BY <1>15, <2>1, <2>2, <2>3 DEF StepOK
<1>18. WalkOf(comparison, Len(TopWords), Len(gold)) /\ \A i \in 1 .. Len(comparison) : comparison[i].boundary # lat.n
  BY <1>2, <1>3, <1>4, <1>10
<1>19. e.boundary = lat.n /\ e.top = Eos /\ e.gold = Eos
  BY <1>15
<1>. HIDE DEF Fields
<1>20. WalkOf(Append(comparison, e), Len(TopWords), Len(gold))
  BY <1>2, <1>14, <1>17, <1>18, <1>19, WalkEos
<1>21. QED
  BY <1>3, <1>4, <1>16, <1>20

-------------------------------------------------------------------------------
(* The invariant of the comparison                                         *)

\* The lattice, the configuration and the annotation stay what they are.
LEMMA TrainingInputStays ==
  ASSUME TrainingInput, lat' = lat, cfg' = cfg, gold' = gold, mode' = mode
  PROVE  TrainingInput'
<1>1. Histories' = Histories /\ Eos' = Eos
  BY HistoriesStay, LatticeStays
<1>2. NoPenalty' <=> NoPenalty
  BY <1>1 DEF NoPenalty
<1>3. IsSegmentation(gold)' <=> IsSegmentation(gold)
  BY <1>1 DEF IsSegmentation
<1>4. QED
  BY <1>2, <1>3 DEF TrainingInput

\* Before the analysis nothing has been compared.
LEMMA InitCompareInv == ScoringInit => CompareInv
<1>. SUFFICES ASSUME ScoringInit PROVE CompareInv
  OBVIOUS
<1>1. Init /\ CompareInit
  BY DEF ScoringInit
<1>2. Fresh
  BY <1>1 DEF CompareInit, Fresh
<1>3. ASSUME lat.user = "fullTraining"
      PROVE  NoPenalty /\ ~cfg.extra /\ IsSegmentation(gold) /\ mode \in Modes
  <2>1. PICK job \in Jobs : (\E q \in job.problems : lat = Prepared(q)) /\ cfg \in job.configs
    BY <1>1 DEF Init
  <2>2. PICK p \in job.problems : lat = Prepared(p)
    BY <2>1
  <2>3. p.user = "fullTraining" /\ lat.nodes = p.nodes
    BY <1>3, <2>2 DEF Prepared
  <2>4. ~cfg.extra
    BY <2>1, <2>2, <2>3, ScoringUsers
  <2>5. lat.penalty = [r \in 1 .. Len(p.nodes) + 1 |-> 0]
    BY <2>2, <2>3 DEF Prepared
  <2>6. NoPenalty
    BY <2>3, <2>5 DEF NoPenalty, Eos
  <2>7. IsSegmentation(gold) /\ mode \in Modes
    BY <1>1, <1>3 DEF CompareInit, IsSegmentation
  <2>8. QED
    BY <2>4, <2>6, <2>7
<1>4. QED
  BY <1>2, <1>3 DEF CompareInv, TrainingInput

\* A step of the analysis comes before the comparison.
LEMMA AnalyseStep ==
  ASSUME IInv, CompareInv, Analyse
  PROVE  [Next]_vars /\ CompareInv'
<1>1. Next /\ UNCHANGED lossVars /\ lat' = lat /\ cfg' = cfg
  BY DEF Analyse, Next, ScoreFull, ScoreGlobal, SkipBoundary, AdjustBoundary, RemakeEosBeam, FillIn
<1>2. pc # "done"
  BY DEF Analyse, ScoreFull, ScoreGlobal, SkipBoundary, AdjustBoundary, RemakeEosBeam, FillIn
<1>3. Fresh /\ Fresh'
  BY <1>1, <1>2 DEF CompareInv, Fresh, lossVars
<1>4. TrainingInput'
  BY <1>1, TrainingInputStays DEF CompareInv, lossVars
<1>5. QED
  BY <1>1, <1>3, <1>4 DEF CompareInv

\* Every step of the comparison records what it should.
LEMMA CompareStepOK ==
  ASSUME IInv, CompareInv, Compare
  PROVE  [Next]_vars /\ CompareInv'
<1>1. CompareStep /\ vars' = vars
  BY DEF Compare
<1>2. Training /\ gold' = gold /\ mode' = mode
  BY <1>1 DEF CompareStep, CompareBoth, CompareTopOnly, CompareGoldOnly, CompareEos, ComputeLoss,
              Comparing
<1>3. lat' = lat /\ cfg' = cfg /\ pc' = pc
  BY <1>1 DEF vars
<1>4. TrainingInput' /\ pc' = "done" /\ lat'.user = "fullTraining" /\ loss = -1
  BY <1>2, <1>3, TrainingInputStays DEF CompareInv, Training
<1>5. ASSUME WalkOf(comparison', curTop', curGold') PROVE WalkOf(comparison, curTop, curGold)'
  <2>1. PICK c, t, g : c = comparison' /\ t = curTop' /\ g = curGold'
    OBVIOUS
  <2>2. WalkOf(c, t, g)'
    BY <1>1, <1>2, <1>5, <2>1, WalkRests
  <2>3. QED
    BY <2>1, <2>2
<1>6. CASE CompareBoth \/ CompareTopOnly \/ CompareGoldOnly \/ CompareEos
  <2>1. WalkOf(comparison', curTop', curGold')
    BY <1>6, CompareBothStep, CompareTopOnlyStep, CompareGoldOnlyStep, CompareEosStep
  <2>2. loss' = -1
    BY <1>4, <1>6 DEF CompareBoth, CompareTopOnly, CompareGoldOnly, CompareEos
  <2>3. QED
    BY <1>1, <1>4, <1>5, <2>1, <2>2 DEF CompareInv
<1>7. CASE ComputeLoss
  <2>1. comparison' = comparison /\ curTop' = curTop /\ curGold' = curGold /\ EosCompared
    BY <1>7 DEF ComputeLoss
  <2>2. WalkOf(comparison', curTop', curGold')
    BY <1>2, <2>1, BothPaths
  <2>3. EosCompared'
    BY <1>3, <2>1 DEF EosCompared
  <2>4. loss' = LossOf(comparison)
    BY <1>7 DEF ComputeLoss, LossOf, Size
  <2>5. LossOf(comparison)' = LossOf(comparison)
    BY <2>1 DEF LossOf, StepLoss
  <2>6. QED
    BY <1>1, <1>4, <1>5, <2>2, <2>3, <2>4, <2>5 DEF CompareInv
<1>8. QED
  BY <1>1, <1>6, <1>7 DEF CompareStep

\* The other user of the scored lattice changes nothing of it.
LEMMA OtherStep ==
  ASSUME CompareInv, UNCHANGED vars, UNCHANGED lossVars
  PROVE  CompareInv'
<1>1. /\ lat' = lat /\ cfg' = cfg /\ pc' = pc /\ gold' = gold /\ mode' = mode /\ comparison' = comparison
      /\ curTop' = curTop /\ curGold' = curGold /\ loss' = loss
  BY DEF vars, lossVars
<1>2. TrainingInput'
  BY <1>1, TrainingInputStays DEF CompareInv
<1>3. CASE Fresh
  BY <1>1, <1>2, <1>3 DEF CompareInv, Fresh
<1>4. CASE ~Fresh
  <2>1. PICK c, t, g : c = comparison /\ t = curTop /\ g = curGold
    OBVIOUS
  <2>2. WalkOf(c, t, g)'
    BY <1>1, <1>4, <2>1, WalkRests DEF CompareInv
  <2>3. WalkOf(comparison, curTop, curGold)'
    BY <1>1, <2>1, <2>2
  <2>4. EosCompared' <=> EosCompared
    BY <1>1 DEF EosCompared
  <2>5. LossOf(comparison)' = LossOf(comparison)
    BY <1>1 DEF LossOf, StepLoss
  <2>6. QED
    BY <1>1, <1>2, <1>4, <2>3, <2>4, <2>5 DEF CompareInv
<1>5. QED
  BY <1>3, <1>4

\* The inductive invariant of the analysis and the comparison
ScoringInv == IInv /\ CompareInv

\* From the first score to the loss: the beams are as they should be, and every
\* step of the comparison says what is true of the best path and of the gold one.
THEOREM ScoringInvAlways == ScoringSpec => []ScoringInv
<1>1. ScoringInit => ScoringInv
  BY InitIInv, InitCompareInv DEF ScoringInit, ScoringInv
<1>2. ScoringInv /\ [ScoringNext]_allVars => ScoringInv'
  <2>. SUFFICES ASSUME IInv, CompareInv, [ScoringNext]_allVars PROVE IInv' /\ CompareInv'
    BY DEF ScoringInv
  <2>1. CASE Analyse
    BY <2>1, AnalyseStep, NextIInv
  <2>2. CASE Compare
    BY <2>2, CompareStepOK, NextIInv
  <2>3. CASE Correct \/ Finished \/ UNCHANGED allVars
    <3>1. UNCHANGED vars /\ UNCHANGED lossVars
      BY <2>3 DEF Correct, Finished, allVars
    <3>2. QED
      BY <3>1, OtherStep, NextIInv
  <2>4. QED
    BY <2>1, <2>2, <2>3 DEF ScoringNext
<1>3. QED
  BY <1>1, <1>2, PTL DEF ScoringSpec

-------------------------------------------------------------------------------
(* What the comparison is good for                                         *)

\* As soon as a step is recorded, the comparison is of two segmentations.
LEMMA Compared ==
  ASSUME IInv, CompareInv, ~Fresh
  PROVE  /\ InputOK /\ pc = "done" /\ mode \in Modes
         /\ IsSegmentation(TopWords) /\ IsSegmentation(gold)
         /\ WalkOf(comparison, curTop, curGold)
         /\ loss = -1 \/ (EosCompared /\ loss = LossOf(comparison))
<1>1. pc = "done" /\ lat.user = "fullTraining" /\ InputOK
  BY DEF CompareInv, IInv
<1>2. IsSegmentation(gold) /\ mode \in Modes
  BY <1>1 DEF CompareInv, TrainingInput
<1>3. IsSegmentation(TopWords)
  BY <1>1, BestPathWords
<1>4. QED
  BY <1>1, <1>2, <1>3 DEF CompareInv

\* When EOS has been compared both paths are at their ends.
LEMMA Ended ==
  ASSUME IInv, CompareInv, EosCompared
  PROVE  /\ ~Fresh /\ Len(comparison) \in Nat \ {0}
         /\ comparison[Len(comparison)].boundary = lat.n
         /\ comparison[Len(comparison)].top = Eos /\ comparison[Len(comparison)].gold = Eos
         /\ curTop = Len(TopWords) /\ curGold = Len(gold)
<1>1. ~Fresh
  BY DEF EosCompared, Fresh
<1>2. WalkOf(comparison, curTop, curGold)
  BY <1>1, Compared
<1>3. PICK c, m : c = comparison /\ m = Len(comparison)
  OBVIOUS
<1>4. c \in Seq(Steps)
  BY <1>2, <1>3 DEF WalkOf
<1>5. m \in Nat /\ m # 0
  <2>. HIDE DEF Steps
  <2>1. c # <<>>
    BY <1>3 DEF EosCompared
  <2>2. QED
    BY <1>3, <1>4, <2>1
<1>6. c[m].boundary = lat.n
  BY <1>3 DEF EosCompared, Last
<1>7. m \in 1 .. m
  BY <1>5
<1>8. c[m].top = Eos /\ c[m].gold = Eos /\ curTop = Len(TopWords) /\ curGold = Len(gold)
  BY <1>2, <1>3, <1>6, <1>7 DEF WalkOf
<1>9. QED
  BY <1>1, <1>3, <1>5, <1>6, <1>8

\* The walk over two segmentations of one sentence loses no word of either and
\* meets no boundary twice (computeComparison).
LEMMA WordsCompared ==
  ASSUME IInv, CompareInv
  PROVE  EveryWordComparedOnce
<1>. SUFFICES ASSUME EosCompared
              PROVE  /\ {comparison[i].top : i \in 1 .. Size} \ {0} = ToSet(TopWords) \cup {Eos}
                     /\ {comparison[i].gold : i \in 1 .. Size} \ {0} = ToSet(gold) \cup {Eos}
                     /\ \A i, j \in 1 .. Size : i < j => comparison[i].boundary < comparison[j].boundary
                     /\ \A i \in 1 .. Size :
                          LET s == comparison[i]
                          IN /\ \A r \in {s.top, s.gold} \ {0} : Start(r) = s.boundary
                             /\ s.class = "Both" <=> s.top # 0 /\ s.gold # 0
  BY DEF EveryWordComparedOnce
<1>. DEFINE c == comparison
            m == Size
            u == TopWords
            v == gold
<1>1. /\ m \in Nat \ {0} /\ c[m].boundary = lat.n /\ c[m].top = Eos /\ c[m].gold = Eos
      /\ InputOK /\ IsSegmentation(u) /\ IsSegmentation(v) /\ WalkOf(c, Len(u), Len(v))
  BY Ended, Compared DEF Size
<1>2. /\ c \in Seq(Steps) /\ m = Len(c)
      /\ \A i \in 1 .. m : StepOK(c[i])
      /\ \A i, j \in 1 .. m : i < j => c[i].boundary < c[j].boundary
      /\ \A k \in 1 .. Len(u) : \E i \in 1 .. m : c[i].top = u[k]
      /\ \A k \in 1 .. Len(v) : \E i \in 1 .. m : c[i].gold = v[k]
  BY <1>1 DEF WalkOf, Size
<1>3. \A i \in 1 .. m : /\ c[i].top # 0 => c[i].top = Eos \/ \E k \in 1 .. Len(u) : c[i].top = u[k]
                        /\ c[i].gold # 0 => c[i].gold = Eos \/ \E k \in 1 .. Len(v) : c[i].gold = v[k]
  BY <1>1, <1>2 DEF WalkOf
<1>4. /\ u \in Seq(Nat) /\ v \in Seq(Nat) /\ m \in 1 .. m /\ Eos # 0
      /\ ToSet(u) = {u[k] : k \in 1 .. Len(u)} /\ ToSet(v) = {v[k] : k \in 1 .. Len(v)}
  <2>1. u \in Seq(Nat) /\ v \in Seq(Nat)
    BY <1>1, Segmentation
  <2>2. DOMAIN u = 1 .. Len(u) /\ DOMAIN v = 1 .. Len(v)
    BY <2>1
  <2>3. Eos # 0
    BY <1>1, NodesOfLattice
  <2>4. QED
    BY <1>1, <2>1, <2>2, <2>3 DEF ToSet
<1>5. (\A k \in 1 .. Len(u) : u[k] # 0) /\ (\A k \in 1 .. Len(v) : v[k] # 0)
  <2>1. \A w : IsSegmentation(w) => w \in Seq(1 .. Eos - 1)
    BY <1>1, Segmentation
  <2>2. u \in Seq(1 .. Eos - 1) /\ v \in Seq(1 .. Eos - 1)
    BY <1>1, <2>1
  <2>3. Eos \in Nat
    BY <1>1, NodesOfLattice
  <2>4. QED
    BY <2>2, <2>3
<1>6. {c[i].top : i \in 1 .. m} \ {0} = ToSet(u) \cup {Eos}
  <2>1. ASSUME NEW x \in {c[i].top : i \in 1 .. m} \ {0} PROVE x \in ToSet(u) \cup {Eos}
    BY <1>3, <1>4
  <2>2. ASSUME NEW x \in ToSet(u) PROVE x \in {c[i].top : i \in 1 .. m} \ {0}
    <3>1. PICK k \in 1 .. Len(u) : x = u[k]
      BY <1>4
    <3>2. QED
      BY <1>2, <1>5, <3>1
  <2>3. Eos \in {c[i].top : i \in 1 .. m} \ {0}
    BY <1>1, <1>4
  <2>4. QED
    BY <2>1, <2>2, <2>3
<1>7. {c[i].gold : i \in 1 .. m} \ {0} = ToSet(v) \cup {Eos}
  <2>1. ASSUME NEW x \in {c[i].gold : i \in 1 .. m} \ {0} PROVE x \in ToSet(v) \cup {Eos}
    BY <1>3, <1>4
  <2>2. ASSUME NEW x \in ToSet(v) PROVE x \in {c[i].gold : i \in 1 .. m} \ {0}
    <3>1. PICK k \in 1 .. Len(v) : x = v[k]
      BY <1>4
    <3>2. QED
      BY <1>2, <1>5, <3>1
  <2>3. Eos \in {c[i].gold : i \in 1 .. m} \ {0}
    BY <1>1, <1>4
  <2>4. QED
    BY <2>1, <2>2, <2>3
<1>8. ASSUME NEW i \in 1 .. m
      PROVE  /\ \A r \in {c[i].top, c[i].gold} \ {0} : Start(r) = c[i].boundary
             /\ c[i].class = "Both" <=> c[i].top # 0 /\ c[i].gold # 0
  <2>1. StepOK(c[i]) /\ c[i] \in Steps
    <3>. HIDE DEF Steps
    <3>1. QED
      BY <1>2
  <2>2. c[i].class \in {"Both", "TopOnly", "GoldOnly"}
    BY <2>1 DEF Steps
  <2>3. QED
    BY <2>1, <2>2 DEF StepOK
<1>9. QED
  BY <1>2, <1>6, <1>7, <1>8

\* The violation of a step compares the scores of both paths at its boundary.
LEMMA ViolationsCompare ==
  ASSUME IInv, CompareInv
  PROVE  ViolationsCompareSamePlace
<1>1. CASE Fresh
  <2>1. 1 .. Size = {}
    BY <1>1 DEF Fresh, Size
  <2>2. QED
    BY <2>1 DEF ViolationsCompareSamePlace
<1>2. CASE ~Fresh
  <2>1. \A i \in 1 .. Size : StepOK(comparison[i])
    BY <1>2, Compared DEF WalkOf, Size
  <2>2. QED
    BY <2>1 DEF ViolationsCompareSamePlace, StepOK
<1>3. QED
  BY <1>1, <1>2

\* As long as the beams hold the gold path up to a word, its step says so
\* (isGoldStillInBeam).
LEMMA GoldIsSeen ==
  ASSUME IInv, CompareInv
  PROVE  GoldInBeamIsSeen
<1>. SUFFICES ASSUME NEW i \in 1 .. Size,
                     comparison[i].class # "TopOnly",
                     NEW k \in DOMAIN beams[comparison[i].gold],
                     Trace(comparison[i].gold, k) = Reverse(SubSeq(gold, 1, comparison[i].numGold))
              PROVE  comparison[i].goldInBeam
  BY DEF GoldInBeamIsSeen
<1>1. ~Fresh
  BY DEF Fresh, Size
<1>2. InputOK /\ TypesOK /\ BeamsOK /\ IsSegmentation(gold) /\ StepOK(comparison[i])
  BY <1>1, Compared DEF IInv, WalkOf, Size
<1>3. PICK r, g : r = comparison[i].gold /\ g = comparison[i].numGold
  OBVIOUS
<1>4. /\ r \in 1 .. Eos /\ g \in 0 .. Len(gold)
      /\ comparison[i].goldInBeam = GoldStillInBeam(r, g)
  BY <1>2, <1>3 DEF StepOK
<1>5. SUFFICES ASSUME g # 0 PROVE \E j \in DOMAIN beams[r] : beams[r][j].left = gold[g]
  BY <1>4 DEF GoldStillInBeam
<1>6. gold \in Seq(Nat) /\ Len(gold) \in Nat
  BY <1>2, Segmentation
<1>7. g + 1 \in 1 .. Len(gold) + 1 /\ g + 1 # 1 /\ (g + 1) - 1 = g
  BY <1>4, <1>5, <1>6
<1>8. Upto(gold, g + 1) = Trace(r, k)
  BY <1>3, <1>7 DEF Upto
<1>9. /\ Upto(gold, g + 1) \in Seq(Nat) /\ Len(Upto(gold, g + 1)) = g
      /\ Before(Upto(gold, g + 1)) = gold[g]
  BY <1>6, <1>7, WordsUpto
<1>10. Trace(r, k) = WayOf(beams[r][k]) /\ Points(beams[r][k], Start(r))
  BY <1>2, <1>3, <1>4, TraceOfElement
<1>11. PICK l, h : l = beams[r][k].left /\ h = Trace(l, beams[r][k].beam)
  OBVIOUS
<1>12. l # Bos
  <2>1. SUFFICES ASSUME l = Bos PROVE FALSE
    OBVIOUS
  <2>2. Trace(r, k) = <<>>
    BY <1>10, <1>11, <2>1 DEF WayOf
  <2>3. Len(<<>>) = 0
    OBVIOUS
  <2>4. QED
    BY <1>5, <1>8, <1>9, <2>2, <2>3
<1>13. Trace(r, k) = <<l>> \o h
  BY <1>10, <1>11, <1>12 DEF WayOf
<1>14. h \in Seq(Nat) /\ l \in Nat
  <2>1. l \in 1 .. Eos /\ beams[r][k].beam \in DOMAIN beams[l]
    <3>1. l \in Left(Start(r)) /\ beams[r][k].beam \in DOMAIN beams[l]
      BY <1>10, <1>11 DEF Points
    <3>2. Start(r) \in 0 .. lat.n
      BY <1>2, <1>4, NodesOfLattice
    <3>3. QED
      BY <1>2, <1>12, <3>1, <3>2, NodesOfLattice
  <2>2. h = WayOf(beams[l][beams[r][k].beam]) /\ Points(beams[l][beams[r][k].beam], Start(l))
    BY <1>2, <1>11, <2>1, TraceOfElement
  <2>3. h \in Histories[l]
    BY <1>2, <2>1, <2>2, WaysArePaths
  <2>4. QED
    BY <1>2, <2>1, <2>3, PathsOfLattice, NodesOfLattice
<1>15. Trace(r, k) # <<>> /\ Trace(r, k)[1] = l
  <2>1. InFront(<<l>> \o h, l, h)
    BY <1>14, OneMoreInFront
  <2>2. QED
    BY <1>13, <1>14, <2>1 DEF InFront
<1>16. l = gold[g]
  BY <1>8, <1>9, <1>15 DEF Before
<1>17. QED
  BY <1>3, <1>11, <1>16

\* What a step adds to the loss: nothing only if the words of both paths are
\* alike in the fields that count.
LEMMA LossOfStep ==
  ASSUME NEW s \in Steps, StepOK(s)
  PROVE  /\ StepLoss(s) \in Nat /\ StepLoss(s) <= FullWeight
         /\ FullWeight \in Nat /\ FullWeight > 0
         /\ s.class # "Both" => StepLoss(s) = FullWeight
         /\ s.class = "Both" /\ s.boundary = lat.n => StepLoss(s) = 0
         /\ s.class = "Both" /\ s.boundary # lat.n =>
              /\ \A f \in Mismatches(s.top, s.gold) : FieldWeights[f] <= StepLoss(s)
              /\ StepLoss(s) = 0 <=> \A f \in Mismatches(s.top, s.gold) : FieldWeights[f] = 0
<1>1. PICK F, w : F = Mismatches(s.top, s.gold) /\ w = WeightOf(F)
  OBVIOUS
<1>2. F \in SUBSET DOMAIN FieldWeights
  BY <1>1 DEF Mismatches
<1>3. /\ w \in Nat /\ FullWeight \in Nat /\ FullWeight > 0 /\ w <= FullWeight
      /\ \A f \in F : FieldWeights[f] <= w
      /\ w = 0 <=> \A f \in F : FieldWeights[f] = 0
  BY <1>1, <1>2, WeightsOfFields
<1>4. CASE s.class # "Both"
  <2>1. StepLoss(s) = FullWeight
    BY <1>4 DEF StepLoss
  <2>2. QED
    BY <1>3, <1>4, <2>1
<1>5. CASE s.class = "Both" /\ s.boundary = lat.n
  <2>1. StepLoss(s) = 0
    BY <1>5 DEF StepLoss, StepOK
  <2>2. QED
    BY <1>3, <1>5, <2>1
<1>6. CASE s.class = "Both" /\ s.boundary # lat.n
  <2>1. StepLoss(s) = w
    BY <1>1, <1>6 DEF StepLoss, StepOK
  <2>2. QED
    BY <1>1, <1>3, <1>6, <2>1
<1>7. QED
  BY <1>4, <1>5, <1>6

\* The loss is zero if and only if the best path is the annotated one as far as
\* the fields count, and less than that of an entirely different path.
LEMMA LossMeasures ==
  ASSUME IInv, CompareInv
  PROVE  LossMeasuresDifference
<1>. SUFFICES ASSUME loss # -1
              PROVE  /\ 0 <= loss /\ loss < Size * FullWeight
                     /\ loss = 0 <=> /\ Len(TopWords) = Len(gold)
                                     /\ \A i \in DOMAIN gold :
                                          /\ Start(TopWords[i]) = Start(gold[i])
                                          /\ \A f \in Mismatches(TopWords[i], gold[i]) : FieldWeights[f] = 0
                     /\ \A f \in DOMAIN FieldWeights :
                          (\E i \in 1 .. Size : /\ comparison[i].class = "Both"
                                                /\ comparison[i].boundary < lat.n
                                                /\ f \in Mismatches(comparison[i].top, comparison[i].gold))
                            => loss >= FieldWeights[f]
  BY DEF LossMeasuresDifference
<1>1. ~Fresh
  BY DEF Fresh
<1>. DEFINE c == comparison
            m == Len(comparison)
            u == TopWords
            v == gold
            W == FullWeight
            f == [i \in 1 .. m |-> StepLoss(c[i])]
<1>2. /\ InputOK /\ IsSegmentation(u) /\ IsSegmentation(v) /\ WalkOf(c, Len(u), Len(v))
      /\ m \in Nat \ {0} /\ c[m].boundary = lat.n /\ c[m].top = Eos /\ c[m].gold = Eos
      /\ loss = SumTo(f, m)
  <2>1. EosCompared /\ loss = LossOf(comparison)
    BY <1>1, Compared
  <2>2. QED
    BY <1>1, <2>1, Compared, Ended DEF LossOf
<1>3. /\ c \in Seq(Steps)
      /\ \A i \in 1 .. m : StepOK(c[i])
      /\ AllBoth(c) => /\ Len(u) = Len(v) /\ Len(v) <= m /\ m <= Len(v) + 1
                       /\ m = Len(v) + 1 => c[m].boundary = lat.n
                       /\ \A k \in 1 .. Len(v) : c[k].top = u[k] /\ c[k].gold = v[k]
      /\ Aligned => AllBoth(c)
  BY <1>2 DEF WalkOf
<1>4. \A i \in 1 .. m : c[i] \in Steps /\ StepOK(c[i])
  <2>. HIDE DEF Steps
  <2>1. QED
    BY <1>3
<1>5. /\ u \in Seq(Nat) /\ v \in Seq(Nat) /\ Len(u) \in Nat /\ Len(v) \in Nat
      /\ DOMAIN v = 1 .. Len(v) /\ lat.n \in Nat /\ Eos \in Nat \ {0}
  BY <1>2, Segmentation, NodesOfLattice
<1>. HIDE DEF Steps, StepOK
<1>6. /\ W \in Nat /\ W > 0
      /\ \A i \in 1 .. m : f[i] = StepLoss(c[i]) /\ f[i] \in Nat /\ f[i] <= W
  <2>1. m \in 1 .. m
    BY <1>2
  <2>2. W \in Nat /\ W > 0
    BY <1>4, <2>1, LossOfStep
  <2>3. QED
    BY <1>4, <2>2, LossOfStep
<1>7. c[m].class = "Both" /\ f[m] = 0 /\ m \in 1 .. m
  <2>1. m \in 1 .. m /\ f[m] = StepLoss(c[m])
    BY <1>2, <1>6
  <2>2. StepOK(c[m]) /\ c[m] \in Steps
    BY <1>4, <2>1
  <2>3. c[m].class = "Both"
    BY <1>2, <1>5, <2>2 DEF StepOK, Steps
  <2>4. QED
    BY <1>2, <2>1, <2>2, <2>3, LossOfStep
<1>. HIDE DEF f, c, m, u, v, W
<1>8. Summing(f, m)
  BY <1>2, <1>6, SumOfNats
<1>9. 0 <= loss /\ loss < m * W
  <2>1. SumTo(f, m) < m * W
    BY <1>2, <1>6, <1>7, SumOfBounded
  <2>2. SumTo(f, m) \in Nat
    BY <1>8 DEF Summing
  <2>3. QED
    BY <1>2, <2>1, <2>2
<1>10. loss = 0 <=> \A i \in 1 .. m : StepLoss(c[i]) = 0
  BY <1>2, <1>6, <1>8 DEF Summing
<1>11. \A i \in 1 .. Len(v) : Start(NodeOf(v, i)) # lat.n /\ NodeOf(v, i) = v[i] /\ v[i] # 0
                              /\ (Len(u) = Len(v) => u[i] # 0)
  <2>1. SUFFICES ASSUME NEW i \in 1 .. Len(v)
                 PROVE  Start(NodeOf(v, i)) # lat.n /\ NodeOf(v, i) = v[i] /\ v[i] # 0
                        /\ (Len(u) = Len(v) => u[i] # 0)
    OBVIOUS
  <2>2. i \in 1 .. Len(v) + 1 /\ i # Len(v) + 1
    BY <1>5
  <2>3. /\ NodeOf(v, i) = v[i] /\ NodeOf(v, i) \in 1 .. Eos
        /\ Start(NodeOf(v, i)) = lat.n <=> i = Len(v) + 1
    BY <1>2, <2>2, Segmentation
  <2>4. Len(u) = Len(v) => NodeOf(u, i) = u[i] /\ NodeOf(u, i) \in 1 .. Eos
    BY <1>2, <2>2, Segmentation
  <2>5. QED
    BY <1>5, <2>2, <2>3, <2>4
<1>12. ASSUME loss = 0
       PROVE  /\ Len(u) = Len(v)
              /\ \A i \in 1 .. Len(v) :
                   /\ Start(u[i]) = Start(v[i])
                   /\ \A g \in Mismatches(u[i], v[i]) : FieldWeights[g] = 0
  <2>1. \A i \in 1 .. m : c[i].class = "Both" /\ StepLoss(c[i]) = 0
    <3>1. TAKE i \in 1 .. m
    <3>2. StepLoss(c[i]) = 0
      BY <1>10, <1>12
    <3>3. c[i].class # "Both" => StepLoss(c[i]) = W
      BY <1>4, LossOfStep DEF W
    <3>4. QED
      BY <1>6, <3>2, <3>3
  <2>2. AllBoth(c)
    BY <2>1 DEF AllBoth, m, c
  <2>3. /\ Len(u) = Len(v) /\ Len(v) <= m
        /\ \A k \in 1 .. Len(v) : c[k].top = u[k] /\ c[k].gold = v[k]
    BY <1>3, <2>2
  <2>4. ASSUME NEW i \in 1 .. Len(v)
        PROVE  /\ Start(u[i]) = Start(v[i])
               /\ \A g \in Mismatches(u[i], v[i]) : FieldWeights[g] = 0
    <3>1. i \in 1 .. m
      BY <1>2, <1>5, <2>3
    <3>2. StepOK(c[i]) /\ c[i] \in Steps /\ c[i].class = "Both" /\ StepLoss(c[i]) = 0
          /\ c[i].top = u[i] /\ c[i].gold = v[i]
      BY <1>4, <2>1, <2>3, <3>1
    <3>3. Start(u[i]) = c[i].boundary /\ Start(v[i]) = c[i].boundary
      BY <1>11, <2>3, <3>2 DEF StepOK
    <3>4. c[i].boundary # lat.n
      BY <1>11, <3>3
    <3>5. QED
      BY <3>2, <3>3, <3>4, LossOfStep
  <2>5. QED
    BY <2>3, <2>4
<1>13. ASSUME Len(u) = Len(v),
              \A i \in 1 .. Len(v) : /\ Start(u[i]) = Start(v[i])
                                     /\ \A g \in Mismatches(u[i], v[i]) : FieldWeights[g] = 0
       PROVE  loss = 0
  <2>1. Aligned
    BY <1>13 DEF Aligned, u, v
  <2>2. AllBoth(c)
    BY <1>3, <2>1
  <2>3. /\ m <= Len(v) + 1 /\ (m = Len(v) + 1 => c[m].boundary = lat.n)
        /\ \A k \in 1 .. Len(v) : c[k].top = u[k] /\ c[k].gold = v[k]
    BY <1>3, <2>2
  <2>4. \A i \in 1 .. m : c[i].class = "Both"
    BY <2>2 DEF AllBoth, m, c
  <2>5. ASSUME NEW i \in 1 .. m
        PROVE  StepLoss(c[i]) = 0
    <3>1. StepOK(c[i]) /\ c[i] \in Steps /\ c[i].class = "Both"
      BY <1>4, <2>4
    <3>2. CASE c[i].boundary = lat.n
      BY <3>1, <3>2, LossOfStep
    <3>3. CASE c[i].boundary # lat.n
      <4>1. i \in 1 .. Len(v)
        BY <1>2, <1>5, <2>3, <3>3
      <4>2. c[i].top = u[i] /\ c[i].gold = v[i]
        BY <2>3, <4>1
      <4>3. \A g \in Mismatches(c[i].top, c[i].gold) : FieldWeights[g] = 0
        BY <1>13, <4>1, <4>2
      <4>4. QED
        BY <3>1, <3>3, <4>3, LossOfStep
    <3>4. QED
      BY <3>2, <3>3
  <2>6. QED
    BY <1>10, <2>5
<1>14. ASSUME NEW g \in DOMAIN FieldWeights, NEW i \in 1 .. m,
              c[i].class = "Both", c[i].boundary < lat.n, g \in Mismatches(c[i].top, c[i].gold)
       PROVE  loss >= FieldWeights[g]
  <2>1. c[i].boundary # lat.n
    BY <1>5, <1>14
  <2>2. FieldWeights[g] <= StepLoss(c[i])
    BY <1>4, <1>14, <2>1, LossOfStep
  <2>3. StepLoss(c[i]) \in Nat /\ StepLoss(c[i]) <= loss /\ loss \in Nat
    BY <1>2, <1>6, <1>8 DEF Summing
  <2>4. FieldWeights[g] \in Nat
    BY ComparisonConstants
  <2>5. QED
    BY <2>2, <2>3, <2>4
<1>15. QED
  BY <1>5, <1>9, <1>12, <1>13, <1>14 DEF c, m, u, v, W, Size

-------------------------------------------------------------------------------
(* Up to where features are compared                                       *)

\* Among some places of a sequence of integers there is the first of those with
\* the largest integer.
LEMMA FirstLargest ==
  ASSUME NEW x, NEW n \in Nat, NEW V \in SUBSET (1 .. n), V # {}, \A i \in V : x[i] \in Int
  PROVE  \E i \in V : \A j \in V : x[j] < x[i] \/ (x[j] = x[i] /\ i <= j)
<1>1. \A i \in V : i \in Nat /\ i <= n
  OBVIOUS
<1>. DEFINE First(i, m) == /\ i \in V /\ i <= m
                           /\ \A j \in V : j <= m => x[j] < x[i] \/ (x[j] = x[i] /\ i <= j)
            S == {m \in Nat : (\E i \in V : i <= m) => \E i \in V : First(i, m)}
<1>2. 0 \in S
  <2>1. \A i \in V : ~(i <= 0)
    OBVIOUS
  <2>2. QED
    BY <2>1
<1>3. ASSUME NEW m \in Nat, m \in S
      PROVE  m + 1 \in S
  <2>. SUFFICES ASSUME \E i \in V : i <= m + 1 PROVE \E i \in V : First(i, m + 1)
    OBVIOUS
  <2>1. \A i \in V : i \in Nat /\ (i <= m + 1 <=> (i <= m \/ i = m + 1))
    <3>1. \A i \in V : i \in Nat
      BY <1>1
    <3>2. \A i \in Nat : i <= m + 1 <=> (i <= m \/ i = m + 1)
      OBVIOUS
    <3>3. QED
      BY <3>1, <3>2
  <2>2. CASE m + 1 \notin V
    <3>1. PICK i \in V : First(i, m)
      BY <1>3, <2>1, <2>2
    <3>2. First(i, m + 1)
      BY <2>1, <2>2, <3>1
    <3>3. QED
      BY <3>2
  <2>3. CASE m + 1 \in V /\ ~\E i \in V : i <= m
    <3>1. \A j \in V : j <= m + 1 => j = m + 1
      BY <2>1, <2>3
    <3>2. First(m + 1, m + 1)
      BY <2>3, <3>1
    <3>3. QED
      BY <2>3, <3>2
  <2>4. CASE m + 1 \in V /\ \E i \in V : i <= m
    <3>1. PICK i \in V : First(i, m)
      BY <1>3, <2>4
    <3>2. x[i] \in Int /\ x[m + 1] \in Int /\ i <= m + 1
      BY <2>1, <2>4, <3>1
    <3>3. CASE x[i] < x[m + 1]
      <4>1. ASSUME NEW j \in V, j <= m + 1
            PROVE  x[j] < x[m + 1] \/ (x[j] = x[m + 1] /\ m + 1 <= j)
        BY <2>1, <3>1, <3>2, <3>3, <4>1
      <4>2. QED
        BY <2>4, <4>1
    <3>4. CASE ~(x[i] < x[m + 1])
      <4>1. ASSUME NEW j \in V, j <= m + 1
            PROVE  x[j] < x[i] \/ (x[j] = x[i] /\ i <= j)
        BY <2>1, <3>1, <3>2, <3>4, <4>1
      <4>2. QED
        BY <3>1, <3>2, <4>1
    <3>5. QED
      BY <3>3, <3>4
  <2>5. QED
    BY <2>2, <2>3, <2>4
<1>. HIDE DEF S
<1>4. n \in S
  BY <1>2, <1>3, SetInduction
<1>5. QED
  BY <1>1, <1>4 DEF S

\* Whatever the mode and wherever the beams lost the gold path, features are
\* taken from steps that the comparison has (fallOffBeam, maxViolation).
LEMMA StepsAreUsed ==
  ASSUME IInv, CompareInv, EosCompared
  PROVE  UsedSteps \in 0 .. Size
<1>1. PICK m : m = Size
  OBVIOUS
<1>2. m \in Nat \ {0} /\ mode \in Modes /\ comparison \in Seq(Steps)
  BY <1>1, Ended, Compared DEF Size, WalkOf
<1>3. \A i \in 1 .. m : TwoBehind(i) \in 0 .. m
  BY <1>1, <1>2 DEF TwoBehind
<1>4. FallOffBeam \in 0 .. m
  <2>1. CASE OutOfBeam = {}
    BY <1>1, <1>2, <2>1 DEF FallOffBeam
  <2>2. CASE OutOfBeam # {}
    <3>1. OutOfBeam \in SUBSET Nat /\ OutOfBeam \subseteq 1 .. m
      BY <1>1 DEF OutOfBeam
    <3>2. \E i \in OutOfBeam : \A j \in OutOfBeam : i <= j
      BY <2>2, <3>1, LeastElement
    <3>3. PICK i : i = CHOOSE x \in OutOfBeam : \A j \in OutOfBeam : x <= j
      OBVIOUS
    <3>4. i \in 1 .. m
      BY <3>1, <3>2, <3>3
    <3>5. FallOffBeam = TwoBehind(i)
      BY <2>2, <3>3 DEF FallOffBeam
    <3>6. QED
      BY <1>3, <3>4, <3>5
  <2>3. QED
    BY <2>1, <2>2
<1>5. MaxViolation \in 0 .. m
  <2>. DEFINE V == {i \in 1 .. Size : comparison[i].class # "GoldOnly" /\ comparison[i].violation > 0}
              Largest(i) == \A j \in V : \/ comparison[j].violation < comparison[i].violation
                                         \/ comparison[j].violation = comparison[i].violation /\ i <= j
  <2>1. MaxViolation = TwoBehind(IF V = {} THEN 1 ELSE CHOOSE i \in V : Largest(i))
    BY DEF MaxViolation
  <2>2. CASE V = {}
    BY <1>2, <1>3, <2>1, <2>2
  <2>3. CASE V # {}
    <3>1. V \in SUBSET (1 .. m)
      BY <1>1
    <3>2. PICK x : x = [i \in 1 .. m |-> comparison[i].violation]
      OBVIOUS
    <3>3. \A i \in 1 .. m : comparison[i] \in Steps
      <4>. HIDE DEF Steps
      <4>1. QED
        BY <1>1, <1>2 DEF Size
    <3>4. \A i \in 1 .. m : x[i] = comparison[i].violation /\ x[i] \in Int
      BY <3>2, <3>3 DEF Steps
    <3>. HIDE DEF V
    <3>5. \E i \in V : \A j \in V : x[j] < x[i] \/ (x[j] = x[i] /\ i <= j)
      BY <1>2, <2>3, <3>1, <3>4, FirstLargest
    <3>6. \E i \in V : Largest(i)
      BY <3>1, <3>4, <3>5
    <3>7. PICK i : i = CHOOSE k \in V : Largest(k)
      OBVIOUS
    <3>. HIDE DEF Largest
    <3>8. i \in 1 .. m
      BY <3>1, <3>6, <3>7
    <3>9. MaxViolation = TwoBehind(i)
      BY <2>1, <2>3, <3>7
    <3>10. QED
      BY <1>3, <3>8, <3>9
  <2>4. QED
    BY <2>2, <2>3
<1>6. mode \in {"Full", "FalloffBeam", "MaxViolation"}
  BY <1>2, ComparisonConstants
<1>7. QED
  BY <1>1, <1>2, <1>4, <1>5, <1>6 DEF UsedSteps

-------------------------------------------------------------------------------
(* The theorems                                                            *)

\* computeComparison, on any two segmentations of any sentence: no word of either
\* path is lost and no boundary is met twice.
THEOREM WordsComparedOnce == ScoringSpec => []EveryWordComparedOnce
<1>1. ScoringInv => EveryWordComparedOnce
  BY WordsCompared DEF ScoringInv
<1>2. QED
  BY <1>1, ScoringInvAlways, PTL

\* The violation of a step is the difference of the scores of both paths at one
\* and the same place, whichever path is ahead.
THEOREM ViolationsAreAligned == ScoringSpec => []ViolationsCompareSamePlace
<1>1. ScoringInv => ViolationsCompareSamePlace
  BY ViolationsCompare DEF ScoringInv
<1>2. QED
  BY <1>1, ScoringInvAlways, PTL

\* computeLoss: zero only for what is annotated, in all that counts, and always
\* below one, as EOS never counts as a mismatch.
THEOREM LossIsDistance == ScoringSpec => []LossMeasuresDifference
<1>1. ScoringInv => LossMeasuresDifference
  BY LossMeasures DEF ScoringInv
<1>2. QED
  BY <1>1, ScoringInvAlways, PTL

\* isGoldStillInBeam: no step denies a gold path that a beam still holds.
THEOREM GoldIsNotLostEarly == ScoringSpec => []GoldInBeamIsSeen
<1>1. ScoringInv => GoldInBeamIsSeen
  BY GoldIsSeen DEF ScoringInv
<1>2. QED
  BY <1>1, ScoringInvAlways, PTL

\* fallOffBeam and maxViolation end within the comparison, two steps behind
\* something or not.
THEOREM FeaturesEndInside == ScoringSpec => [](EosCompared => UsedSteps \in 0 .. Size)
<1>1. ScoringInv => (EosCompared => UsedSteps \in 0 .. Size)
  BY StepsAreUsed DEF ScoringInv
<1>2. QED
  BY <1>1, ScoringInvAlways, PTL

\* Comparing and correcting only read what the analysis made, so that all that
\* holds of the beams and of the best path holds for the trainers as well.
THEOREM TrainersOnlyRead == ScoringSpec => Spec
<1>1. ScoringInit => Init
  BY DEF ScoringInit
<1>2. [ScoringNext]_allVars => [Next]_vars
  <2>1. Analyse => Next
    BY DEF Analyse, Next
  <2>2. Compare \/ Correct \/ Finished \/ UNCHANGED allVars => UNCHANGED vars
    BY DEF Compare, Correct, Finished, allVars
  <2>3. QED
    BY <2>1, <2>2 DEF ScoringNext
<1>3. QED
  BY <1>1, <1>2, PTL DEF ScoringSpec, Spec

-------------------------------------------------------------------------------
(* Reading an annotation                                                   *)

\* f follows a function of steps from x.
Follows(f, x, G, m) == f[0] = x /\ \A i \in 1 .. m : f[i] = G[<<f[i - 1], i>>]

\* Something can be done over and over, as long as it stays in a set.
LEMMA StepsExist ==
  ASSUME NEW S, NEW x \in S, NEW n \in Nat, NEW G \in [S \X (1 .. n) -> S]
  PROVE  \E f : Follows(f, x, G, n) /\ \A i \in 0 .. n : f[i] \in S
<1>. DEFINE Fine(f, m) == Follows(f, x, G, m) /\ \A i \in 0 .. m : f[i] \in S
            M == {m \in Nat : m <= n => \E f : Fine(f, m)}
<1>1. 0 \in M
  <2>1. Fine([i \in Nat |-> x], 0)
    BY DEF Follows
  <2>. HIDE DEF Fine
  <2>2. QED
    BY <2>1
<1>2. ASSUME NEW m \in Nat, m \in M
      PROVE  m + 1 \in M
  <2>1. SUFFICES ASSUME m + 1 <= n PROVE \E f : Fine(f, m + 1)
    OBVIOUS
  <2>2. PICK f : Fine(f, m)
    BY <1>2, <2>1
  <2>3. f[m] \in S /\ m + 1 \in 1 .. n
    BY <2>1, <2>2
  <2>. DEFINE y == G[<<f[m], m + 1>>]
              h == [i \in Nat |-> IF i = m + 1 THEN y ELSE f[i]]
  <2>4. y \in S
    BY <2>3
  <2>5. h[m + 1] = y /\ \A i \in 0 .. m : h[i] = f[i]
    OBVIOUS
  <2>. HIDE DEF h, y
  <2>6. h[0] = x /\ \A i \in 0 .. m + 1 : h[i] \in S
    BY <2>2, <2>4, <2>5 DEF Follows
  <2>7. ASSUME NEW i \in 1 .. m + 1
        PROVE  h[i] = G[<<h[i - 1], i>>]
    <3>1. CASE i = m + 1
      <4>1. i - 1 = m /\ m \in 0 .. m
        BY <3>1
      <4>2. h[i - 1] = f[m]
        BY <2>5, <4>1
      <4>3. QED
        BY <2>5, <3>1, <4>2 DEF y
    <3>2. CASE i # m + 1
      <4>1. i \in 1 .. m /\ i \in 0 .. m /\ i - 1 \in 0 .. m
        BY <3>2
      <4>2. f[i] = G[<<f[i - 1], i>>]
        BY <2>2, <4>1 DEF Follows
      <4>3. QED
        BY <2>5, <4>1, <4>2
    <3>3. QED
      BY <3>1, <3>2
  <2>8. QED
    BY <2>6, <2>7 DEF Follows
<1>. HIDE DEF M
<1>3. n \in M
  BY <1>1, <1>2, SetInduction
<1>4. QED
  BY <1>3 DEF M

\* Where the lines start, as they are added up.
LEMMA StartsOfLines ==
  ASSUME NEW lines, Len(lines) \in Nat, \A i \in 1 .. Len(lines) : lines[i].length \in Nat
  PROVE  /\ LineStart(lines, 1) = 0
         /\ \A i \in 1 .. Len(lines) : LineStart(lines, i + 1) = LineStart(lines, i) + lines[i].length
         /\ \A i \in 1 .. Len(lines) + 1 : LineStart(lines, i) \in Nat
<1>. DEFINE n == Len(lines)
            F(s) == [k \in 0 .. n |-> IF k = 0 THEN 0 ELSE s[k - 1] + lines[k].length]
            s == CHOOSE s : s = F(s)
            G == [p \in Nat \X (1 .. n) |-> p[1] + lines[p[2]].length]
<1>1. \A i : LineStart(lines, i) = s[i - 1]
  BY DEF LineStart
<1>2. PICK f : Follows(f, 0, G, n) /\ \A i \in 0 .. n : f[i] \in Nat
  <2>1. G \in [Nat \X (1 .. n) -> Nat] /\ n \in Nat
    OBVIOUS
  <2>. HIDE DEF G, n
  <2>2. QED
    BY <2>1, StepsExist
<1>3. \A i \in 1 .. n : f[i] = f[i - 1] + lines[i].length
  <2>1. TAKE i \in 1 .. n
  <2>2. f[i - 1] \in Nat
    BY <1>2
  <2>3. QED
    BY <1>2, <2>2 DEF Follows
<1>. DEFINE h == [k \in 0 .. n |-> f[k]]
<1>4. h = F(h)
  <2>1. \A k \in 0 .. n : h[k] = IF k = 0 THEN 0 ELSE h[k - 1] + lines[k].length
    BY <1>2, <1>3 DEF Follows
  <2>. HIDE DEF h
  <2>2. h = [k \in 0 .. n |-> h[k]]
    BY DEF h
  <2>3. QED
    BY <2>1, <2>2
<1>. HIDE DEF h, F
<1>5. s = F(s)
  BY <1>4
<1>. HIDE DEF s
<1>6. \A k \in 0 .. n : s[k] = IF k = 0 THEN 0 ELSE s[k - 1] + lines[k].length
  BY <1>5 DEF F
<1>. DEFINE M == {k \in Nat : k <= n => s[k] \in Nat}
<1>7. 0 \in M
  BY <1>6
<1>8. ASSUME NEW k \in Nat, k \in M PROVE k + 1 \in M
  <2>1. SUFFICES ASSUME k + 1 <= n PROVE s[k + 1] \in Nat
    OBVIOUS
  <2>2. s[k] \in Nat /\ k + 1 \in 1 .. n /\ k + 1 - 1 = k
    BY <1>8, <2>1
  <2>3. s[k + 1] = s[k] + lines[k + 1].length
    BY <1>6, <2>2
  <2>4. QED
    BY <2>2, <2>3
<1>. HIDE DEF M
<1>9. \A k \in Nat : k \in M
  BY <1>7, <1>8, SetInduction
<1>10. LineStart(lines, 1) = 0
  BY <1>1, <1>6
<1>11. ASSUME NEW i \in 1 .. n
       PROVE  LineStart(lines, i + 1) = LineStart(lines, i) + lines[i].length
  <2>1. i \in 0 .. n /\ i # 0 /\ (i + 1) - 1 = i
    OBVIOUS
  <2>2. QED
    BY <1>1, <1>6, <2>1
<1>12. ASSUME NEW i \in 1 .. n + 1
       PROVE  LineStart(lines, i) \in Nat
  <2>1. i - 1 \in Nat /\ i - 1 <= n
    OBVIOUS
  <2>2. QED
    BY <1>1, <1>9, <2>1 DEF M
<1>13. QED
  BY <1>10, <1>11, <1>12

\* What the lines up to some line say
NoBreaksUpTo(lines, i) ==
  UNION {{LineStart(lines, j) + k : k \in IF lines[j].kind = "text" THEN lines[j].joined
                                          ELSE 1 .. lines[j].length - 1} : j \in 1 .. i}
BoundariesUpTo(lines, i) == {LineStart(lines, j + 1) : j \in 1 .. i}
WordsUpTo(lines, i) ==
  {[start |-> LineStart(lines, j), length |-> lines[j].length, tags |-> lines[j].tags]
     : j \in {j \in 1 .. i : lines[j].kind # "text"}}

ReadUpTo(lines, i) ==
  [boundary |-> LineStart(lines, i + 1), noBreak |-> NoBreaksUpTo(lines, i),
   boundaries |-> BoundariesUpTo(lines, i), words |-> WordsUpTo(lines, i)]

\* One more line adds to all of it.
LEMMA OneMoreLine ==
  ASSUME NEW lines, Len(lines) \in Nat, \A i \in 1 .. Len(lines) : lines[i].length \in Nat,
         NEW i \in 1 .. Len(lines)
  PROVE  ReadUpTo(lines, i) = ReadLine(ReadUpTo(lines, i - 1), lines[i])
<1>1. 1 .. i = (1 .. i - 1) \cup {i} /\ (i - 1) + 1 = i
  OBVIOUS
<1>2. LineStart(lines, i + 1) = LineStart(lines, i) + lines[i].length
  BY StartsOfLines
<1>. DEFINE old == ReadUpTo(lines, i - 1)
<1>3. /\ old.boundary = LineStart(lines, i) /\ old.noBreak = NoBreaksUpTo(lines, i - 1)
      /\ old.boundaries = BoundariesUpTo(lines, i - 1) /\ old.words = WordsUpTo(lines, i - 1)
  BY <1>1 DEF ReadUpTo
<1>. HIDE DEF old
<1>4. NoBreaksUpTo(lines, i) = old.noBreak \cup
        {old.boundary + k : k \in IF lines[i].kind = "text" THEN lines[i].joined
                                  ELSE 1 .. lines[i].length - 1}
  <2>. DEFINE B(j) == {LineStart(lines, j) + k : k \in IF lines[j].kind = "text" THEN lines[j].joined
                                                      ELSE 1 .. lines[j].length - 1}
  <2>1. UNION {B(j) : j \in 1 .. i} = (UNION {B(j) : j \in 1 .. i - 1}) \cup B(i)
    <3>. HIDE DEF B
    <3>1. QED
      BY <1>1
  <2>2. QED
    BY <1>3, <2>1 DEF NoBreaksUpTo
<1>5. BoundariesUpTo(lines, i) = old.boundaries \cup {old.boundary + lines[i].length}
  <2>1. {LineStart(lines, j + 1) : j \in 1 .. i}
          = {LineStart(lines, j + 1) : j \in 1 .. i - 1} \cup {LineStart(lines, i + 1)}
    BY <1>1
  <2>2. QED
    BY <1>2, <1>3, <2>1 DEF BoundariesUpTo
<1>6. WordsUpTo(lines, i) =
        IF lines[i].kind = "text" THEN old.words
        ELSE old.words \cup {[start |-> old.boundary, length |-> lines[i].length, tags |-> lines[i].tags]}
  <2>. DEFINE W(j) == [start |-> LineStart(lines, j), length |-> lines[j].length, tags |-> lines[j].tags]
              J(k) == {j \in 1 .. k : lines[j].kind # "text"}
  <2>1. J(i) = IF lines[i].kind = "text" THEN J(i - 1) ELSE J(i - 1) \cup {i}
    BY <1>1
  <2>2. {W(j) : j \in J(i)} = IF lines[i].kind = "text" THEN {W(j) : j \in J(i - 1)}
                              ELSE {W(j) : j \in J(i - 1)} \cup {W(i)}
    <3>. HIDE DEF W, J
    <3>1. QED
      BY <2>1
  <2>3. WordsUpTo(lines, i) = {W(j) : j \in J(i)} /\ WordsUpTo(lines, i - 1) = {W(j) : j \in J(i - 1)}
    BY DEF WordsUpTo
  <2>4. QED
    BY <1>3, <2>2, <2>3
<1>7. QED
  BY <1>2, <1>3, <1>4, <1>5, <1>6 DEF ReadUpTo, ReadLine, old

\* readExample: what the annotation asks for is what its lines do.
LEMMA ExampleOfLines ==
  ASSUME NEW lines, Len(lines) \in Nat, \A i \in 1 .. Len(lines) : lines[i].length \in Nat
  PROVE  ReadExample(lines) = ReadUpTo(lines, Len(lines))
<1>. DEFINE n == Len(lines)
            none == [boundary |-> 0, noBreak |-> {}, boundaries |-> {}, words |-> {}]
            F(s) == [i \in 0 .. n |-> IF i = 0 THEN none ELSE ReadLine(s[i - 1], lines[i])]
            s == CHOOSE s : s = F(s)
            h == [i \in 0 .. n |-> ReadUpTo(lines, i)]
<1>1. ReadExample(lines) = s[n]
  BY DEF ReadExample
<1>2. ReadUpTo(lines, 0) = none
  <2>1. LineStart(lines, 0 + 1) = 0 /\ 1 .. 0 = {}
    BY StartsOfLines
  <2>2. NoBreaksUpTo(lines, 0) = {} /\ BoundariesUpTo(lines, 0) = {} /\ WordsUpTo(lines, 0) = {}
    BY <2>1 DEF NoBreaksUpTo, BoundariesUpTo, WordsUpTo
  <2>3. QED
    BY <2>1, <2>2 DEF ReadUpTo
<1>3. \A i \in 1 .. n : ReadUpTo(lines, i) = ReadLine(ReadUpTo(lines, i - 1), lines[i])
  BY OneMoreLine
<1>. HIDE DEF none
<1>4. h = F(h)
  <2>1. \A i \in 0 .. n : h[i] = IF i = 0 THEN none ELSE ReadLine(h[i - 1], lines[i])
    BY <1>2, <1>3
  <2>. HIDE DEF h
  <2>2. h = [i \in 0 .. n |-> h[i]]
    BY DEF h
  <2>3. QED
    BY <2>1, <2>2
<1>. HIDE DEF h, F
<1>5. s = F(s)
  BY <1>4
<1>. HIDE DEF s
<1>6. \A i \in 0 .. n : s[i] = IF i = 0 THEN none ELSE ReadLine(s[i - 1], lines[i])
  BY <1>5 DEF F
<1>. DEFINE M == {i \in Nat : i <= n => s[i] = ReadUpTo(lines, i)}
<1>7. 0 \in M
  BY <1>2, <1>6
<1>8. ASSUME NEW i \in Nat, i \in M PROVE i + 1 \in M
  <2>1. SUFFICES ASSUME i + 1 <= n PROVE s[i + 1] = ReadUpTo(lines, i + 1)
    OBVIOUS
  <2>2. s[i] = ReadUpTo(lines, i) /\ i + 1 \in 1 .. n /\ i + 1 \in 0 .. n /\ i + 1 # 0 /\ i + 1 - 1 = i
    BY <1>8, <2>1
  <2>3. s[i + 1] = ReadLine(s[i], lines[i + 1])
    BY <1>6, <2>2
  <2>4. QED
    BY <1>3, <2>2, <2>3
<1>. HIDE DEF M
<1>9. n \in M
  BY <1>7, <1>8, SetInduction
<1>10. QED
  BY <1>1, <1>9 DEF M

-------------------------------------------------------------------------------
(* Correcting: what is found in place of a word                            *)

\* What is known of the annotation
AnnotationRead ==
  /\ AnnotationOf(lat.lines, lat.n)
  /\ lat.example = ReadExample(lat.lines)

\* The lines as sequences see them
LEMMA LinesRead ==
  ASSUME AnnotationRead
  PROVE  /\ Len(lat.lines) \in Nat /\ DOMAIN lat.lines = 1 .. Len(lat.lines)
         /\ \A i \in 1 .. Len(lat.lines) : lat.lines[i].length \in Nat
         /\ lat.example = ReadUpTo(lat.lines, Len(lat.lines))
<1>1. PICK lines : lines = lat.lines
  OBVIOUS
<1>2. Len(lines) \in Nat /\ DOMAIN lines = 1 .. Len(lines)
  <2>1. lines \in Seq(ToSet(lines))
    BY <1>1 DEF AnnotationRead, AnnotationOf
  <2>2. QED
    BY <2>1
<1>3. \A i \in 1 .. Len(lines) : lines[i].length \in Nat
  BY <1>1, <1>2 DEF AnnotationRead, AnnotationOf
<1>4. ReadExample(lines) = ReadUpTo(lines, Len(lines))
  BY <1>2, <1>3, ExampleOfLines
<1>5. QED
  BY <1>1, <1>2, <1>3, <1>4 DEF AnnotationRead

\* A required boundary in a word that lacks it is behind the start of the word.
LEMMA BoundaryBehindStart ==
  ASSUME AnnotationRead, NEW word, word.start \in Nat,
         CheckViolation(lat.example, word).kind = "NoBoundary"
  PROVE  LET b == CheckViolation(lat.example, word).parameter
         IN b \in Nat /\ word.start < b
<1>1. lat.example.boundaries \subseteq Nat
  <2>1. PICK lines : lines = lat.lines
    OBVIOUS
  <2>2. /\ Len(lines) \in Nat /\ \A i \in 1 .. Len(lines) : lines[i].length \in Nat
        /\ lat.example = ReadUpTo(lines, Len(lines))
    BY <2>1, LinesRead
  <2>3. \A i \in 1 .. Len(lines) : LineStart(lines, i + 1) \in Nat
    <3>1. TAKE i \in 1 .. Len(lines)
    <3>2. i + 1 \in 1 .. Len(lines) + 1
      BY <2>2
    <3>3. QED
      BY <2>2, <3>2, StartsOfLines
  <2>4. lat.example.boundaries = {LineStart(lines, i + 1) : i \in 1 .. Len(lines)}
    BY <2>2 DEF ReadUpTo, BoundariesUpTo
  <2>5. QED
    BY <2>3, <2>4
<1>2. /\ Inside(lat.example, word) # {}
      /\ CheckViolation(lat.example, word) = Violation("NoBoundary", Min(Inside(lat.example, word)))
  BY DEF CheckViolation, Violation, NoViolation
<1>3. Inside(lat.example, word) \in SUBSET Nat
  BY <1>1 DEF Inside
<1>4. \E x \in Inside(lat.example, word) : \A y \in Inside(lat.example, word) : x <= y
  BY <1>2, <1>3, LeastElement
<1>5. Min(Inside(lat.example, word)) \in Inside(lat.example, word)
  BY <1>4 DEF Min
<1>6. CheckViolation(lat.example, word).parameter \in Inside(lat.example, word)
  BY <1>2, <1>5 DEF Violation
<1>7. QED
  BY <1>1, <1>6 DEF Inside

\* A candidate in its context: three nodes of the lattice in a row, those before
\* it in agreement with the annotation.
InContext(c) ==
  /\ c.node \in 1 .. Eos
  /\ c.left \in Left(Start(c.node))
  /\ T2(c) \in (IF c.left = Bos THEN {-1} ELSE Left(Start(c.left)))
  /\ Matches(c.left) /\ Matches(T2(c))

\* What a beam holds can be a candidate.
LEMMA BeamsHoldContexts ==
  ASSUME InputOK, TypesOK, BeamsOK, NEW r \in 1 .. Eos, NEW c \in BeamOf(r)
  PROVE  /\ c.node = r /\ Points(c, Start(r))
         /\ c.left \in Left(Start(c.node))
         /\ T2(c) \in (IF c.left = Bos THEN {-1} ELSE Left(Start(c.left)))
<1>1. PICK k \in DOMAIN beams[r] : c = Candidate(r, beams[r][k].left, beams[r][k].beam, beams[r][k].total)
  BY DEF BeamOf, ToSet
<1>2. Points(beams[r][k], Start(r))
  BY TraceOfElement
<1>3. c.node = r /\ c.left = beams[r][k].left /\ c.beam = beams[r][k].beam
  BY <1>1 DEF Candidate
<1>4. Points(c, Start(r))
  BY <1>2, <1>3 DEF Points
<1>5. IF c.left = Bos THEN T2(c) = -1 ELSE T2(c) \in Left(Start(c.left))
  BY <1>4, PointersHaveScores
<1>6. QED
  BY <1>3, <1>4, <1>5 DEF Points

\* candidatesEndingOn: words in their contexts that end at the boundary.
LEMMA EndingOnIsAllowed ==
  ASSUME InputOK, TypesOK, BeamsOK, NEW b \in Nat \ {0}, NEW before, NEW c \in EndingOn(b, before)
  PROVE  InContext(c) /\ Matches(c.node) /\ c.node # Eos /\ Start(c.node) < before /\ End(c.node) = b
<1>1. PICK r \in EndingNodes(b, before) : c \in BeamOf(r)
  BY DEF EndingOn
<1>2. r \in 1 .. Eos - 1 /\ lat.nodes[r].end = b /\ Start(r) < before /\ r \in 1 .. Eos /\ r # Eos /\ r # Bos
  BY <1>1, NodesOfLattice DEF EndingNodes, Left
<1>3. c.node = r /\ c.left \in Left(Start(c.node))
      /\ T2(c) \in (IF c.left = Bos THEN {-1} ELSE Left(Start(c.left)))
  BY <1>1, <1>2, BeamsHoldContexts
<1>4. IsValid(c)
  BY DEF EndingOn
<1>5. QED
  BY <1>2, <1>3, <1>4 DEF IsValid, InContext, End

\* candidatesStartingOn: words in their contexts that start at the boundary.
LEMMA StartingOnIsAllowed ==
  ASSUME InputOK, TypesOK, BeamsOK, NEW b, NEW c \in StartingOn(b)
  PROVE  InContext(c) /\ Matches(c.node) /\ Start(c.node) = b
<1>1. PICK r \in Right(b) : c \in BeamOf(r)
  BY DEF StartingOn
<1>2. r \in 1 .. Eos /\ Start(r) = b
  BY <1>1 DEF Right
<1>3. c.node = r /\ c.left \in Left(Start(c.node))
      /\ T2(c) \in (IF c.left = Bos THEN {-1} ELSE Left(Start(c.left)))
  BY <1>1, <1>2, BeamsHoldContexts
<1>4. IsValid(c)
  BY DEF StartingOn
<1>5. QED
  BY <1>2, <1>3, <1>4 DEF IsValid, InContext

\* makeUpCandidatesEndingOn: a word after an element of a beam to its left, in
\* contexts that are there even if no beam holds them.
LEMMA MadeUpIsAllowed ==
  ASSUME InputOK, TypesOK, BeamsOK, NEW b \in Nat \ {0}, NEW before, NEW c \in MadeUpEndingOn(b, before)
  PROVE  InContext(c) /\ Matches(c.node) /\ c.node # Eos /\ Start(c.node) < before /\ End(c.node) = b
<1>1. PICK p \in EndingNodes(b, before) \X (0 .. Eos - 1) :
        /\ p[2] \in Left(Start(p[1])) /\ Matches(p[1]) /\ Matches(p[2])
        /\ \E k \in DOMAIN beams[p[2]] : /\ Matches(beams[p[2]][k].left)
                                         /\ c = Candidate(p[1], p[2], k, beams[p[2]][k].total - 1000)
  BY DEF MadeUpEndingOn
<1>2. PICK r, l : r = p[1] /\ l = p[2]
  OBVIOUS
<1>3. r \in EndingNodes(b, before) /\ l \in Left(Start(r)) /\ Matches(r) /\ Matches(l)
  BY <1>1, <1>2
<1>4. PICK k \in DOMAIN beams[l] : Matches(beams[l][k].left)
                                   /\ c = Candidate(r, l, k, beams[l][k].total - 1000)
  BY <1>1, <1>2
<1>5. r \in 1 .. Eos - 1 /\ lat.nodes[r].end = b /\ Start(r) < before /\ r \in 1 .. Eos /\ r # Eos /\ r # Bos
  BY <1>3, NodesOfLattice DEF EndingNodes, Left
<1>6. c.node = r /\ c.left = l /\ c.beam = k
  BY <1>4 DEF Candidate
<1>7. Points(c, Start(r))
  BY <1>3, <1>4, <1>6 DEF Points
<1>8. IF c.left = Bos THEN T2(c) = -1 ELSE T2(c) \in Left(Start(c.left))
  BY <1>5, <1>7, PointersHaveScores
<1>9. Matches(T2(c))
  BY <1>4, <1>6 DEF T2
<1>10. QED
  BY <1>3, <1>5, <1>6, <1>8, <1>9 DEF InContext, End

\* EntryBeam: nothing but what was put in.
LEMMA EntryBeamsHoldSubsets ==
  ASSUME NEW S, NEW k, NEW T \in EntryBeams(S, k)
  PROVE  T \subseteq S
BY DEF EntryBeams, kSubset

\* findCandidatesSpanning collects candidates of the boundaries it tries.
LEMMA SpanningIsCollected ==
  ASSUME NEW b \in Nat, lat.n \in Nat, b < lat.n, NEW found \in SpanningOfBeams(b)
  PROVE  \A c \in found : \E e \in b + 1 .. lat.n - 1 : c \in EndingOn(e, b)
<1>. DEFINE Collected == UNION {EndingOn(e, b) : e \in b + 1 .. lat.n - 1}
            S == SUBSET (SUBSET Collected)
            Blocks(T, e) == UNION {EntryBeams(T \cup block, cfg.beam)
                                     : block \in EntryBeams(EndingOn(e, b), BlockSize)}
            One(X, e) == UNION {IF Cardinality(T) = cfg.beam THEN {T} ELSE Blocks(T, e) : T \in X}
            last == lat.n - 1
            F(s) == [e \in b .. last |-> IF e = b THEN {{}} ELSE One(s[e - 1], e)]
            s == CHOOSE s : s = F(s)
            m == last - b
            G == [p \in S \X (1 .. m) |-> One(p[1], p[2] + b)]
<1>1. SpanningOfBeams(b) = s[last]
  BY DEF SpanningOfBeams
<1>2. ASSUME NEW X \in S, NEW e \in b + 1 .. last
      PROVE  One(X, e) \in S
  <2>1. SUFFICES ASSUME NEW U \in One(X, e) PROVE U \subseteq Collected
    OBVIOUS
  <2>2. PICK T \in X : U \in (IF Cardinality(T) = cfg.beam THEN {T} ELSE Blocks(T, e))
    BY <2>1
  <2>3. T \subseteq Collected
    BY <2>2
  <2>4. CASE U \in Blocks(T, e)
    <3>1. PICK block \in EntryBeams(EndingOn(e, b), BlockSize) : U \in EntryBeams(T \cup block, cfg.beam)
      BY <2>4
    <3>2. block \subseteq EndingOn(e, b) /\ U \subseteq T \cup block
      BY <3>1, EntryBeamsHoldSubsets
    <3>3. EndingOn(e, b) \subseteq Collected
      OBVIOUS
    <3>4. QED
      BY <2>3, <3>2, <3>3
  <2>5. QED
    BY <2>2, <2>3, <2>4
<1>. HIDE DEF One
<1>3. m \in Nat /\ last \in Int /\ {{}} \in S
  OBVIOUS
<1>. HIDE DEF S
<1>4. PICK f : Follows(f, {{}}, G, m) /\ \A i \in 0 .. m : f[i] \in S
  <2>1. G \in [S \X (1 .. m) -> S]
    <3>1. ASSUME NEW p \in S \X (1 .. m) PROVE One(p[1], p[2] + b) \in S
      <4>1. p[1] \in S /\ p[2] + b \in b + 1 .. last
        OBVIOUS
      <4>2. QED
        BY <1>2, <4>1
    <3>2. QED
      BY <3>1
  <2>. HIDE DEF G, m
  <2>2. QED
    BY <1>3, <2>1, StepsExist
<1>5. f[0] = {{}} /\ \A i \in 1 .. m : f[i] = One(f[i - 1], i + b)
  <2>1. f[0] = {{}}
    BY <1>4 DEF Follows
  <2>2. ASSUME NEW i \in 1 .. m PROVE f[i] = One(f[i - 1], i + b)
    <3>1. f[i - 1] \in S /\ <<f[i - 1], i>> \in S \X (1 .. m)
      BY <1>4
    <3>2. f[i] = G[<<f[i - 1], i>>]
      BY <1>4 DEF Follows
    <3>3. QED
      BY <3>1, <3>2
  <2>3. QED
    BY <2>1, <2>2
<1>. DEFINE h == [e \in b .. last |-> f[e - b]]
<1>6. h = F(h)
  <2>1. ASSUME NEW e \in b .. last
        PROVE  h[e] = IF e = b THEN {{}} ELSE One(h[e - 1], e)
    <3>1. CASE e = b
      <4>1. e - b = 0
        BY <3>1
      <4>2. QED
        BY <1>5, <3>1, <4>1
    <3>2. CASE e # b
      <4>1. e - b \in 1 .. m /\ e - 1 \in b .. last /\ (e - 1) - b = (e - b) - 1 /\ (e - b) + b = e
        BY <3>2
      <4>2. QED
        BY <1>5, <3>2, <4>1
    <3>3. QED
      BY <3>1, <3>2
  <2>. HIDE DEF h
  <2>2. h = [e \in b .. last |-> h[e]]
    BY DEF h
  <2>3. QED
    BY <2>1, <2>2
<1>. HIDE DEF h, F
<1>7. s = F(s)
  BY <1>6
<1>. HIDE DEF s
<1>8. \A e \in b .. last : s[e] = IF e = b THEN {{}} ELSE One(s[e - 1], e)
  BY <1>7 DEF F
<1>. DEFINE M == {i \in Nat : i <= m => s[b + i] \in S}
<1>9. 0 \in M
  BY <1>3, <1>8
<1>10. ASSUME NEW i \in Nat, i \in M PROVE i + 1 \in M
  <2>1. SUFFICES ASSUME i + 1 <= m PROVE s[b + (i + 1)] \in S
    OBVIOUS
  <2>2. /\ b + (i + 1) \in b .. last /\ b + (i + 1) # b /\ b + (i + 1) - 1 = b + i
        /\ b + (i + 1) \in b + 1 .. last /\ s[b + i] \in S
    BY <1>10, <2>1
  <2>3. s[b + (i + 1)] = One(s[b + i], b + (i + 1))
    BY <1>8, <2>2
  <2>4. QED
    BY <1>2, <2>2, <2>3
<1>. HIDE DEF M
<1>11. m \in M
  BY <1>3, <1>9, <1>10, SetInduction
<1>12. s[last] \in S
  BY <1>3, <1>11 DEF M
<1>13. found \subseteq Collected
  BY <1>1, <1>12 DEF S
<1>14. QED
  BY <1>13

\* What comes in place of a word that starts or ends at a boundary that is
\* forbidden: words that span it.
LEMMA SpanningIsAllowed ==
  ASSUME InputOK, TypesOK, BeamsOK, NEW b \in Nat, NEW found \in Spanning(b), NEW c \in found
  PROVE  InContext(c) /\ Matches(c.node) /\ c.node # Eos /\ Start(c.node) < b /\ b < End(c.node)
<1>1. lat.n \in Nat
  BY NodesOfLattice
<1>2. ASSUME NEW e \in b + 1 .. lat.n - 1, c \in EndingOn(e, b) \/ c \in MadeUpEndingOn(e, b)
      PROVE  InContext(c) /\ Matches(c.node) /\ c.node # Eos /\ Start(c.node) < b /\ b < End(c.node)
  <2>1. e \in Nat \ {0} /\ b < e
    BY <1>1
  <2>2. QED
    BY <1>2, <2>1, EndingOnIsAllowed, MadeUpIsAllowed
<1>3. CASE \E e \in Beyond(b) : EndingOn(e, b) # {}
  <2>1. found \in SpanningOfBeams(b)
    BY <1>3 DEF Spanning
  <2>2. b < lat.n
    BY <1>1, <1>3 DEF Beyond
  <2>3. PICK e \in b + 1 .. lat.n - 1 : c \in EndingOn(e, b)
    BY <1>1, <2>1, <2>2, SpanningIsCollected
  <2>4. QED
    BY <1>2, <2>3
<1>4. CASE ~(\E e \in Beyond(b) : EndingOn(e, b) # {})
  <2>1. found \in SpanningMadeUp(b)
    BY <1>4 DEF Spanning
  <2>. DEFINE some == {e \in Beyond(b) : MadeUpEndingOn(e, b) # {}}
  <2>2. CASE some = {}
    <3>1. found = {}
      BY <2>1, <2>2 DEF SpanningMadeUp
    <3>2. QED
      BY <3>1
  <2>3. CASE some # {}
    <3>1. PICK T \in EntryBeams(MadeUpEndingOn(Min(some), b), BlockSize) : found \in EntryBeams(T, cfg.beam)
      BY <2>1, <2>3 DEF SpanningMadeUp
    <3>2. c \in MadeUpEndingOn(Min(some), b)
      BY <3>1, EntryBeamsHoldSubsets
    <3>3. some \in SUBSET Nat
      BY <1>1 DEF Beyond
    <3>4. PICK x \in some : \A y \in some : x <= y
      BY <2>3, <3>3, LeastElement
    <3>. HIDE DEF some
    <3>5. Min(some) \in some
      BY <3>4 DEF Min
    <3>6. Min(some) \in b + 1 .. lat.n - 1
      BY <3>5 DEF some, Beyond
    <3>7. QED
      BY <1>2, <3>2, <3>6
  <2>4. QED
    BY <2>2, <2>3
<1>5. QED
  BY <1>3, <1>4

\* A correction that is right: what takes the place of a word is in agreement
\* with the annotation and stands where the violation asks for a word.
GoodFor(c, violation, bad) ==
  /\ InContext(c) /\ (c.node # Eos => Matches(c.node))
  /\ Resolves(c, violation, bad)
  /\ Context(c) # <<T2(ElementAt(bad)), ElementAt(bad).left, bad.node>>

\* handleBoundaryConstraints, whatever kind of violation the word has
LEMMA FoundIsGood ==
  ASSUME InputOK, TypesOK, BeamsOK, AnnotationRead,
         NEW place, place.node \in 1 .. Eos, ~Matches(place.node),
         NEW found \in Found(ViolationAt(place.node), WordAt(lat, place.node)), NEW c \in found
  PROVE  GoodFor(c, ViolationAt(place.node), place)
<1>1. PICK v, word : v = ViolationAt(place.node) /\ word = WordAt(lat, place.node)
  OBVIOUS
<1>2. v = CheckViolation(lat.example, word) /\ v # NoViolation
  BY <1>1, NodesOfLattice DEF ViolationAt, Matches
<1>3. word.start \in Nat /\ word.end \in Nat
  <2>1. /\ lat.n \in Nat /\ Len(lat.nodes) \in Nat /\ DOMAIN lat.nodes = 1 .. Len(lat.nodes)
        /\ lat.nodes \in Seq([start : 0 .. lat.n, end : 0 .. lat.n, data : Seq(Nat)])
    BY DEF InputOK
  <2>2. CASE place.node > Len(lat.nodes)
    BY <1>1, <2>1, <2>2 DEF WordAt
  <2>3. CASE ~(place.node > Len(lat.nodes))
    <3>1. place.node \in 1 .. Len(lat.nodes)
      BY <2>1, <2>3 DEF Eos
    <3>2. lat.nodes[place.node] \in [start : 0 .. lat.n, end : 0 .. lat.n, data : Seq(Nat)]
      BY <2>1, <3>1, ElementOfSeq
    <3>3. lat.nodes[place.node].start \in Nat /\ lat.nodes[place.node].end \in Nat
      BY <2>1, <3>2
    <3>4. word = lat.nodes[place.node]
      BY <1>1, <2>3 DEF WordAt
    <3>5. QED
      BY <3>3, <3>4
  <2>4. QED
    BY <2>2, <2>3
<1>4. found \in Found(v, word)
  BY <1>1
<1>5. v.kind \in {"WordStart", "WordEnd", "NoBoundary", "Tag"}
  BY <1>2 DEF CheckViolation, Violation, NoViolation
<1>6. Matches(c.node) => Context(c) # <<T2(ElementAt(place)), ElementAt(place).left, place.node>>
  BY DEF Context
<1>7. CASE v.kind = "WordStart"
  <2>1. found \in Spanning(word.start)
    BY <1>4, <1>7 DEF Found
  <2>2. InContext(c) /\ Matches(c.node) /\ Start(c.node) < word.start /\ word.start < End(c.node)
    BY <1>3, <2>1, SpanningIsAllowed
  <2>3. QED
    BY <1>1, <1>6, <1>7, <2>2 DEF GoodFor, Resolves
<1>8. CASE v.kind = "WordEnd"
  <2>1. found \in Spanning(word.end)
    BY <1>4, <1>8 DEF Found
  <2>2. InContext(c) /\ Matches(c.node) /\ Start(c.node) < word.end /\ word.end < End(c.node)
    BY <1>3, <2>1, SpanningIsAllowed
  <2>3. QED
    BY <1>1, <1>6, <1>8, <2>2 DEF GoodFor, Resolves
<1>9. CASE v.kind = "NoBoundary"
  <2>1. found \in EntryBeams(EndingOn(v.parameter, v.parameter), cfg.beam)
    BY <1>4, <1>9 DEF Found
  <2>2. c \in EndingOn(v.parameter, v.parameter)
    BY <2>1, EntryBeamsHoldSubsets
  <2>3. v.parameter \in Nat \ {0}
    BY <1>2, <1>3, <1>9, BoundaryBehindStart
  <2>4. InContext(c) /\ Matches(c.node) /\ End(c.node) = v.parameter
    BY <2>2, <2>3, EndingOnIsAllowed
  <2>5. QED
    BY <1>1, <1>6, <1>9, <2>4 DEF GoodFor, Resolves
<1>10. CASE v.kind = "Tag"
  <2>1. found \in EntryBeams(StartingOn(word.start), cfg.beam)
    BY <1>4, <1>10 DEF Found
  <2>2. c \in StartingOn(word.start)
    BY <2>1, EntryBeamsHoldSubsets
  <2>3. InContext(c) /\ Matches(c.node) /\ Start(c.node) = word.start
    BY <2>2, StartingOnIsAllowed
  <2>4. QED
    BY <1>1, <1>6, <1>10, <2>3 DEF GoodFor, Resolves
<1>11. QED
  BY <1>5, <1>7, <1>8, <1>9, <1>10

-------------------------------------------------------------------------------
(* Correcting: the walk along the best path                                *)

\* The node that a walk meets as its i-th: EOS, the words from the last to the
\* first, BOS.
NodeOfWalk(i) == IF i = 1 THEN Eos ELSE IF i <= Len(path) + 1 THEN path[i - 1] ELSE Bos

\* The i-th place of a walk is that of its node on the best path, in the beam
\* element that stands for the rest of this path.
OnPath(p, i) ==
  /\ i <= Len(path) + 2
  /\ p.node = NodeOfWalk(i)
  /\ i <= Len(path) + 1 => /\ p.node \in 1 .. Eos /\ p.beam \in DOMAIN beams[p.node]
                           /\ Trace(p.node, p.beam) = SubSeq(path, i, Len(path))

WalkPlaces == [node : Nat, beam : Nat]

\* The walk begins at the element of EOS that is the best path.
LEMMA WalkBegins ==
  ASSUME IInv, pc = "done"
  PROVE  OnPath(Place(Eos, 1), 1) /\ Place(Eos, 1) \in WalkPlaces /\ path \in Seq(Nat)
<1>1. InputOK /\ 1 \in DOMAIN beams[Eos] /\ path = Trace(Eos, 1) /\ path \in Histories[Eos]
  BY ResultOfEos DEF IInv, ResultOK
<1>2. Eos \in Nat /\ Eos \in 1 .. Eos /\ path \in Seq(Nat)
  BY <1>1, NodesOfLattice, PathsOfLattice
<1>3. Len(path) \in Nat /\ SubSeq(path, 1, Len(path)) = path
  BY <1>2
<1>4. QED
  BY <1>1, <1>2, <1>3 DEF OnPath, Place, WalkPlaces, NodeOfWalk

\* From every place on the path a pointer leads to the next one.
LEMMA WalkGoesOn ==
  ASSUME IInv, pc = "done", NEW i \in Nat \ {0}, NEW p, OnPath(p, i), p.node # Bos
  PROVE  /\ i <= Len(path) + 1 /\ p.node \in 1 .. Eos
         /\ OnPath(Previous(p), i + 1) /\ Previous(p) \in WalkPlaces
<1>1. InputOK /\ TypesOK /\ BeamsOK /\ path \in Seq(Nat)
  BY WalkBegins DEF IInv
<1>2. PICK u, n : u = path /\ n = Len(u) /\ u \in Seq(Nat) /\ n \in Nat
  BY <1>1
<1>3. i <= n + 1
  <2>1. ~(i <= n + 1) => p.node = Bos
    BY <1>2 DEF OnPath, NodeOfWalk
  <2>2. QED
    BY <2>1
<1>4. p.node \in 1 .. Eos /\ p.beam \in DOMAIN beams[p.node] /\ Trace(p.node, p.beam) = SubSeq(u, i, n)
  BY <1>2, <1>3 DEF OnPath
<1>5. PICK el : el = ElementAt(p)
  OBVIOUS
<1>6. SubSeq(u, i, n) = WayOf(el) /\ Points(el, Start(p.node))
  BY <1>1, <1>4, <1>5, TraceOfElement DEF ElementAt
<1>7. Previous(p) = Place(el.left, el.beam)
  BY <1>5 DEF Previous
<1>8. Start(p.node) \in 0 .. lat.n /\ el.left \in Left(Start(p.node)) /\ el.left \in NodeIds /\ el.left \in Nat
  BY <1>1, <1>4, <1>6, NodesOfLattice DEF Points
<1>9. el.beam \in DOMAIN beams[el.left] /\ el.beam \in Nat
  BY <1>1, <1>6, <1>8, BeamFacts DEF Points
<1>10. Previous(p) \in WalkPlaces
  BY <1>7, <1>8, <1>9 DEF Place, WalkPlaces
<1>11. SubSeq(u, i, n) = [j \in 1 .. n - i + 1 |-> u[i + j - 1]]
  BY <1>2
<1>12. CASE el.left = Bos
  <2>1. SubSeq(u, i, n) = <<>>
    BY <1>6, <1>12 DEF WayOf
  <2>2. 1 .. n - i + 1 = {}
    <3>1. DOMAIN SubSeq(u, i, n) = 1 .. n - i + 1
      BY <1>11
    <3>2. QED
      BY <2>1, <3>1
  <2>3. i = n + 1
    <3>1. n \in Nat
      BY <1>2
    <3>2. CASE i <= n
      <4>1. 1 \in 1 .. n - i + 1
        BY <3>1, <3>2
      <4>2. QED
        BY <2>2, <4>1
    <3>3. QED
      BY <1>3, <3>1, <3>2
  <2>4. i + 1 # 1 /\ ~(i + 1 <= n + 1) /\ i + 1 <= n + 2
    BY <1>2, <2>3
  <2>5. OnPath(Previous(p), i + 1)
    BY <1>2, <1>7, <1>12, <2>4 DEF OnPath, NodeOfWalk, Place
  <2>6. QED
    BY <1>2, <1>3, <1>4, <1>10, <2>5
<1>13. CASE el.left # Bos
  <2>1. el.left \in 1 .. Eos
    BY <1>1, <1>8, <1>13, NodesOfLattice
  <2>2. PICK g : g = Trace(el.left, el.beam)
    OBVIOUS
  <2>3. g = WayOf(beams[el.left][el.beam]) /\ Points(beams[el.left][el.beam], Start(el.left))
    BY <1>1, <1>9, <2>1, <2>2, TraceOfElement
  <2>4. g \in Histories[el.left]
    BY <1>1, <2>1, <2>3, WaysArePaths
  <2>5. g \in Seq(Nat)
    BY <1>1, <2>1, <2>4, PathsOfLattice
  <2>6. PICK h : h = SubSeq(u, i, n)
    OBVIOUS
  <2>7. h = <<el.left>> \o g
    BY <1>6, <1>13, <2>2, <2>6 DEF WayOf
  <2>8. Len(h) = Len(g) + 1 /\ h[1] = el.left /\ (\A j \in 1 .. Len(g) : h[j + 1] = g[j]) /\ Len(g) \in Nat
    BY <1>8, <2>5, <2>7, OneMoreInFront DEF InFront
  <2>9. Len(h) = n - i + 1 /\ \A j \in 1 .. n - i + 1 : h[j] = u[i + j - 1]
    <3>1. DOMAIN h = 1 .. n - i + 1
      BY <1>11, <2>6
    <3>2. n - i + 1 \in Nat /\ h \in Seq(Nat)
      BY <1>2, <1>3, <2>6
    <3>3. QED
      BY <1>11, <2>6, <3>1, <3>2
  <2>10. i <= n /\ Len(g) = n - i
    <3>1. PICK k : k = Len(g)
      OBVIOUS
    <3>2. k \in Nat /\ k + 1 = n - i + 1 /\ n \in Nat
      BY <1>2, <2>8, <2>9, <3>1
    <3>3. i <= n /\ k = n - i
      BY <3>2
    <3>4. QED
      BY <3>1, <3>3
  <2>11. el.left = u[i]
    <3>1. 1 \in 1 .. n - i + 1 /\ i + 1 - 1 = i
      BY <1>2, <2>10
    <3>2. QED
      BY <2>8, <2>9, <3>1
  <2>12. g = SubSeq(u, i + 1, n)
    <3>1. PICK t : t = SubSeq(u, i + 1, n)
      OBVIOUS
    <3>2. t \in Seq(Nat) /\ t = [j \in 1 .. n - (i + 1) + 1 |-> u[(i + 1) + j - 1]]
      BY <1>2, <3>1
    <3>3. n - (i + 1) + 1 = n - i /\ n - i \in Nat
      BY <1>2, <2>10
    <3>4. DOMAIN t = 1 .. n - i /\ Len(t) = n - i
      BY <3>2, <3>3
    <3>5. ASSUME NEW j \in 1 .. n - i PROVE g[j] = t[j]
      <4>1. j + 1 \in 1 .. n - i + 1 /\ i + (j + 1) - 1 = (i + 1) + j - 1
        BY <1>2, <2>10
      <4>2. h[j + 1] = u[(i + 1) + j - 1]
        BY <2>9, <4>1
      <4>3. t[j] = u[(i + 1) + j - 1]
        BY <3>2, <3>3
      <4>4. QED
        BY <2>8, <2>10, <4>2, <4>3
    <3>6. QED
      BY <2>5, <2>10, <3>1, <3>2, <3>4, <3>5, SeqEqual
  <2>13. i + 1 # 1 /\ i + 1 <= n + 1 /\ (i + 1) - 1 = i /\ i + 1 <= n + 2
    BY <1>2, <2>10
  <2>14. OnPath(Previous(p), i + 1)
    <3>1. PICK q : q = Previous(p)
      OBVIOUS
    <3>2. q.node = el.left /\ q.beam = el.beam
      BY <1>7, <3>1 DEF Place
    <3>3. NodeOfWalk(i + 1) = el.left
      BY <1>2, <2>11, <2>13 DEF NodeOfWalk
    <3>4. Trace(q.node, q.beam) = SubSeq(path, i + 1, Len(path))
      BY <1>2, <2>2, <2>12, <3>2
    <3>5. i + 1 <= Len(path) + 2
      BY <1>2, <2>13
    <3>6. OnPath(q, i + 1)
      BY <1>9, <2>1, <3>2, <3>3, <3>4, <3>5 DEF OnPath
    <3>7. QED
      BY <3>1, <3>6
  <2>15. QED
    BY <1>2, <1>3, <1>4, <1>10, <2>14
<1>14. QED
  BY <1>12, <1>13

\* The first words of a walk that violate the annotation
Violating(m) == {i \in 1 .. m : ~Matches(path[i])}

WalkOK(w) ==
  /\ w \in Seq(WalkPlaces) /\ Len(w) >= 2
  /\ \A i \in 1 .. Len(w) : OnPath(w[i], i)

CorrectionsOK(s) ==
  /\ s \in Seq(ToSet(s))
  /\ \A i \in DOMAIN s : \A c \in s[i].good : GoodFor(c, s[i].violation, s[i].bad)

\* The inductive invariant of the correction, with those of the beams: it begins
\* with the result, walks along the best path and counts what violates the
\* annotation behind it, and all that it corrects it corrects to the better.
CorrectInv ==
  /\ AnnotationRead
  /\ CorrectionsOK(corrected)
  /\ IF walk = <<>> THEN stage = "walk" /\ violations = 0 /\ corrected = <<>>
     ELSE /\ pc = "done"
          /\ WalkOK(walk)
          /\ stage \in {"walk", "eos", "finalize", "finished"}
          /\ violations = Cardinality(Violating(Len(walk) - 2))
          /\ stage # "walk" => Len(walk) = Len(path) + 2
          /\ stage = "finished" => partialLoss \in {0, violations}

\* Correcting does not change what it reads.
LEMMA CorrectionRests ==
  ASSUME vars' = vars
  PROVE  /\ AnnotationRead' <=> AnnotationRead
         /\ pc' = pc /\ path' = path
         /\ \A w : WalkOK(w)' <=> WalkOK(w)
         /\ \A s : CorrectionsOK(s)' <=> CorrectionsOK(s)
         /\ \A m : Violating(m)' = Violating(m)
<1>1. lat' = lat /\ beams' = beams /\ pc' = pc /\ path' = path
  BY DEF vars
<1>2. Eos' = Eos /\ (\A r : Start(r)' = Start(r)) /\ (\A b : Left(b)' = Left(b))
      /\ (\A r, k : Trace(r, k)' = Trace(r, k))
  BY <1>1, LatticeStays, SameTrace
<1>3. AnnotationRead' <=> AnnotationRead
  BY <1>1 DEF AnnotationRead
<1>4. \A r : ViolationAt(r)' = ViolationAt(r) /\ (Matches(r)' <=> Matches(r))
  BY <1>1 DEF ViolationAt, Matches, Bos
<1>5. \A m : Violating(m)' = Violating(m)
  BY <1>1, <1>4 DEF Violating
<1>6. \A p, i : OnPath(p, i)' <=> OnPath(p, i)
  <2>1. TAKE p, i
  <2>2. NodeOfWalk(i)' = NodeOfWalk(i)
    BY <1>1, <1>2 DEF NodeOfWalk, Bos
  <2>3. QED
    BY <1>1, <1>2, <2>2 DEF OnPath
<1>7. \A w : WalkOK(w)' <=> WalkOK(w)
  BY <1>6 DEF WalkOK, WalkPlaces
<1>8. \A c : T2(c)' = T2(c) /\ Context(c)' = Context(c)
  BY <1>1 DEF T2, Context
<1>9. \A c : InContext(c)' <=> InContext(c)
  BY <1>2, <1>4, <1>8 DEF InContext, Bos
<1>10. \A c, v, p : Resolves(c, v, p)' <=> Resolves(c, v, p)
  <2>1. TAKE c, v, p
  <2>2. End(c.node)' = End(c.node) /\ WordAt(lat, p.node)' = WordAt(lat, p.node)
    BY <1>1 DEF End, Bos
  <2>3. QED
    BY <1>2, <2>2 DEF Resolves
<1>11. \A c, v, p : GoodFor(c, v, p)' <=> GoodFor(c, v, p)
  <2>1. TAKE c, v, p
  <2>2. ElementAt(p)' = ElementAt(p)
    BY <1>1 DEF ElementAt
  <2>3. T2(ElementAt(p))' = T2(ElementAt(p))
    BY <1>1, <2>2 DEF T2
  <2>4. QED
    BY <1>2, <1>4, <1>8, <1>9, <1>10, <2>2, <2>3 DEF GoodFor
<1>12. \A s : CorrectionsOK(s)' <=> CorrectionsOK(s)
  BY <1>11 DEF CorrectionsOK
<1>13. QED
  BY <1>1, <1>3, <1>5, <1>7, <1>12

\* One more correction, or none
LEMMA ReplaceIsOK ==
  ASSUME CorrectionsOK(corrected), NEW v, NEW found, NEW place, NEW after,
         Replace(v, found, place, after), \A c \in found : GoodFor(c, v, place)
  PROVE  CorrectionsOK(corrected')
<1>1. CASE found = {}
  BY <1>1 DEF Replace
<1>2. CASE found # {}
  <2>0. PICK scores : corrected' = Append(corrected, Correction(v, place, found, scores))
    BY <1>2 DEF Replace
  <2>1. PICK s, new : s = corrected /\ new = Correction(v, place, found, scores)
    OBVIOUS
  <2>2. corrected' = Append(s, new)
    BY <2>0, <2>1
  <2>. DEFINE S == ToSet(s) \cup {new}
              t == Append(s, new)
  <2>3. s \in Seq(ToSet(s)) /\ \A i \in DOMAIN s : \A c \in s[i].good : GoodFor(c, s[i].violation, s[i].bad)
    BY <2>1 DEF CorrectionsOK
  <2>4. s \in Seq(S) /\ new \in S
    <3>1. PICK A : A = ToSet(s)
      OBVIOUS
    <3>2. s \in Seq(A \cup {new})
      BY <2>3, <3>1
    <3>3. QED
      BY <3>1, <3>2
  <2>. HIDE DEF S
  <2>5. /\ t \in Seq(S) /\ Len(t) = Len(s) + 1 /\ Len(s) \in Nat /\ DOMAIN t = 1 .. Len(s) + 1
        /\ DOMAIN s = 1 .. Len(s)
        /\ \A i \in 1 .. Len(s) : t[i] = s[i]
        /\ t[Len(s) + 1] = new
    BY <2>4
  <2>. HIDE DEF t
  <2>6. \A i \in DOMAIN t : \A c \in t[i].good : GoodFor(c, t[i].violation, t[i].bad)
    <3>1. TAKE i \in DOMAIN t
    <3>2. CASE i = Len(s) + 1
      <4>1. t[i] = new
        BY <2>5, <3>2
      <4>2. t[i].violation = v /\ t[i].bad = place /\ t[i].good = found
        BY <2>1, <4>1 DEF Correction
      <4>3. QED
        BY <4>2
    <3>3. CASE i # Len(s) + 1
      <4>1. i \in DOMAIN s /\ t[i] = s[i]
        BY <2>5, <3>3
      <4>2. QED
        BY <2>3, <4>1
    <3>4. QED
      BY <3>2, <3>3
  <2>7. t \in Seq(ToSet(t))
    <3>1. \A i \in 1 .. Len(t) : t[i] \in ToSet(t)
      BY <2>5 DEF ToSet
    <3>2. Len(t) \in Nat /\ DOMAIN t = 1 .. Len(t) /\ t = [i \in 1 .. Len(t) |-> t[i]]
      BY <2>5
    <3>3. QED
      BY <3>1, <3>2
  <2>8. QED
    BY <2>2, <2>6, <2>7 DEF CorrectionsOK, t
<1>3. QED
  BY <1>1, <1>2

\* One place more
LEMMA WalkGrows ==
  ASSUME IInv, pc = "done", NEW w, WalkOK(w), Last(w).node # Bos
  PROVE  /\ WalkOK(Append(w, Previous(Last(w))))
         /\ Len(Append(w, Previous(Last(w)))) = Len(w) + 1 /\ Len(w) \in Nat /\ Len(w) >= 2
         /\ Append(w, Previous(Last(w))) # <<>>
         /\ Len(w) <= Len(path) + 1 /\ Last(w).node = path[Len(w) - 1]
         /\ Last(w).node \in 1 .. Eos
<1>1. PICK m, p : m = Len(w) /\ p = w[m]
  OBVIOUS
<1>2. w \in Seq(WalkPlaces) /\ m \in Nat /\ m >= 2 /\ \A i \in 1 .. m : OnPath(w[i], i)
  <2>. HIDE DEF WalkPlaces
  <2>1. w \in Seq(WalkPlaces) /\ Len(w) >= 2 /\ \A i \in 1 .. m : OnPath(w[i], i)
    BY <1>1 DEF WalkOK
  <2>2. QED
    BY <1>1, <2>1
<1>3. Last(w) = p /\ OnPath(p, m) /\ m \in Nat \ {0} /\ p.node # Bos
  BY <1>1, <1>2 DEF Last
<1>4. m <= Len(path) + 1 /\ p.node \in 1 .. Eos /\ OnPath(Previous(p), m + 1) /\ Previous(p) \in WalkPlaces
  BY <1>3, WalkGoesOn
<1>5. p.node = path[m - 1]
  BY <1>2, <1>3, <1>4 DEF OnPath, NodeOfWalk
<1>6. PICK q, t : q = Previous(p) /\ t = Append(w, q)
  OBVIOUS
<1>7. t \in Seq(WalkPlaces) /\ Len(t) = m + 1 /\ (\A i \in 1 .. m : t[i] = w[i]) /\ t[m + 1] = q
  <2>. HIDE DEF WalkPlaces
  <2>1. QED
    BY <1>1, <1>2, <1>4, <1>6
<1>8. \A i \in 1 .. m + 1 : OnPath(t[i], i)
  <2>1. TAKE i \in 1 .. m + 1
  <2>2. CASE i = m + 1
    BY <1>4, <1>6, <1>7, <2>2
  <2>3. CASE i # m + 1
    <3>1. i \in 1 .. m
      BY <1>2, <2>3
    <3>2. QED
      BY <1>2, <1>7, <3>1
  <2>4. QED
    BY <2>2, <2>3
<1>9. WalkOK(t) /\ t # <<>>
  <2>1. Len(t) >= 2 /\ Len(t) # 0
    BY <1>2, <1>7
  <2>2. QED
    BY <1>7, <1>8, <2>1 DEF WalkOK
<1>10. QED
  BY <1>1, <1>2, <1>3, <1>4, <1>5, <1>6, <1>7, <1>9

\* Counting one more word
LEMMA OneMoreCounted ==
  ASSUME NEW m \in Nat \ {0}
  PROVE  /\ Cardinality(Violating(m - 1)) \in Nat
         /\ Cardinality(Violating(m)) =
              Cardinality(Violating(m - 1)) + (IF Matches(path[m]) THEN 0 ELSE 1)
<1>1. IsFiniteSet(Violating(m - 1))
  <2>1. IsFiniteSet(1 .. m - 1)
    BY FS_Interval
  <2>2. Violating(m - 1) \subseteq 1 .. m - 1
    BY DEF Violating
  <2>3. QED
    BY <2>1, <2>2, FS_Subset
<1>2. Cardinality(Violating(m - 1)) \in Nat
  BY <1>1, FS_CardinalityType
<1>3. CASE Matches(path[m])
  <2>1. Violating(m) = Violating(m - 1)
    BY <1>3 DEF Violating
  <2>2. QED
    BY <1>2, <1>3, <2>1
<1>4. CASE ~Matches(path[m])
  <2>1. Violating(m) = Violating(m - 1) \cup {m} /\ m \notin Violating(m - 1)
    BY <1>4 DEF Violating
  <2>2. QED
    BY <1>1, <1>2, <1>4, <2>1, FS_AddElement
<1>5. QED
  BY <1>2, <1>3, <1>4

\* The invariant of the next state, said of what is read in this one.
LEMMA CorrectInvNext ==
  ASSUME vars' = vars, AnnotationRead, CorrectionsOK(corrected'),
         walk' # <<>>, pc = "done", WalkOK(walk'), stage' \in {"walk", "eos", "finalize", "finished"},
         violations' = Cardinality(Violating(Len(walk') - 2)),
         stage' # "walk" => Len(walk') = Len(path) + 2,
         stage' = "finished" => partialLoss' \in {0, violations'}
  PROVE  CorrectInv'
<1>1. PICK w, s, m : w = walk' /\ s = corrected' /\ m = Len(w) - 2
  OBVIOUS
<1>2. AnnotationRead' /\ pc' = "done" /\ path' = path /\ WalkOK(w)' /\ CorrectionsOK(s)'
      /\ Violating(m)' = Violating(m)
  BY <1>1, CorrectionRests
<1>3. WalkOK(walk)' /\ CorrectionsOK(corrected)'
  BY <1>1, <1>2
<1>4. (violations = Cardinality(Violating(Len(walk) - 2)))'
  <2>1. Violating(Len(walk) - 2)' = Violating(m)'
    BY <1>1
  <2>2. QED
    BY <1>1, <1>2, <2>1
<1>5. QED
  BY <1>2, <1>3, <1>4 DEF CorrectInv

\* Before the analysis nothing has been corrected.
LEMMA InitCorrectInv == ScoringInit => CorrectInv
<1>. SUFFICES ASSUME ScoringInit PROVE CorrectInv
  OBVIOUS
<1>1. Init /\ PartialInit
  BY DEF ScoringInit
<1>2. AnnotationRead
  <2>1. PICK job \in Jobs : \E q \in job.problems : lat = Prepared(q)
    BY <1>1 DEF Init
  <2>2. PICK p \in job.problems : lat = Prepared(p)
    BY <2>1
  <2>3. AnnotationOf(p.lines, p.n)
    BY <2>1, <2>2, AnnotationConstants
  <2>4. lat.lines = p.lines /\ lat.n = p.n /\ lat.example = ReadExample(p.lines)
    BY <2>2 DEF Prepared
  <2>5. QED
    BY <2>3, <2>4 DEF AnnotationRead
<1>3. CorrectionsOK(<<>>)
  BY DEF CorrectionsOK
<1>4. QED
  BY <1>1, <1>2, <1>3 DEF PartialInit, CorrectInv

\* The analysis comes before the correction.
LEMMA AnalyseBeforeCorrect ==
  ASSUME CorrectInv, Analyse
  PROVE  CorrectInv'
<1>1. lat' = lat /\ UNCHANGED partialVars /\ pc # "done"
  BY DEF Analyse, ScoreFull, ScoreGlobal, SkipBoundary, AdjustBoundary, RemakeEosBeam, FillIn
<1>2. walk = <<>> /\ stage = "walk" /\ violations = 0 /\ corrected = <<>>
  BY <1>1 DEF CorrectInv
<1>3. AnnotationRead'
  BY <1>1 DEF CorrectInv, AnnotationRead
<1>4. CorrectionsOK(corrected)'
  BY <1>1, <1>2 DEF partialVars, CorrectionsOK
<1>5. QED
  BY <1>1, <1>2, <1>3, <1>4 DEF partialVars, CorrectInv

\* Every step of the correction keeps it on the best path and corrects to the
\* better.
LEMMA CorrectStepOK ==
  ASSUME IInv, CorrectInv, Correct
  PROVE  CorrectInv'
<1>1. PartialStep /\ vars' = vars
  BY DEF Correct
<1>2. AnnotationRead /\ CorrectionsOK(corrected) /\ InputOK /\ TypesOK /\ BeamsOK
  BY DEF CorrectInv, IInv
<1>3. ASSUME walk # <<>>
      PROVE  /\ pc = "done" /\ WalkOK(walk) /\ Len(walk) \in Nat
             /\ violations = Cardinality(Violating(Len(walk) - 2))
             /\ stage # "walk" => Len(walk) = Len(path) + 2
  <2>1. WalkOK(walk)
    BY <1>3 DEF CorrectInv
  <2>2. Len(walk) \in Nat
    <3>. HIDE DEF WalkPlaces
    <3>1. QED
      BY <2>1 DEF WalkOK
  <2>3. QED
    BY <1>3, <2>1, <2>2 DEF CorrectInv
<1>4. CASE BeginWalk
  <2>1. pc = "done" /\ walk = <<>> /\ stage' = "walk" /\ violations' = 0 /\ corrected' = corrected
        /\ walk' = <<Place(Eos, 1), Previous(Place(Eos, 1))>>
    BY <1>4 DEF BeginWalk, CorrectInv
  <2>2. OnPath(Place(Eos, 1), 1) /\ Place(Eos, 1) \in WalkPlaces
    BY <2>1, WalkBegins
  <2>3. Place(Eos, 1).node # Bos
    BY <1>2, NodesOfLattice DEF Place
  <2>4. OnPath(Previous(Place(Eos, 1)), 1 + 1) /\ Previous(Place(Eos, 1)) \in WalkPlaces
    BY <2>1, <2>2, <2>3, WalkGoesOn
  <2>5. PICK p, q : p = Place(Eos, 1) /\ q = Previous(Place(Eos, 1))
    OBVIOUS
  <2>6. p \in WalkPlaces /\ q \in WalkPlaces /\ OnPath(p, 1) /\ OnPath(q, 2) /\ walk' = <<p, q>>
    BY <2>1, <2>2, <2>4, <2>5
  <2>7. WalkOK(walk') /\ walk' # <<>> /\ Len(walk') - 2 = 0
    <3>. HIDE DEF WalkPlaces
    <3>1. walk' \in Seq(WalkPlaces) /\ Len(walk') = 2 /\ walk'[1] = p /\ walk'[2] = q
      BY <2>6
    <3>2. \A i \in 1 .. 2 : i = 1 \/ i = 2
      OBVIOUS
    <3>3. QED
      BY <2>6, <3>1, <3>2 DEF WalkOK
  <2>8. Violating(0) = {}
    BY DEF Violating
  <2>9. violations' = Cardinality(Violating(Len(walk') - 2))
    BY <2>1, <2>7, <2>8, FS_EmptySet
  <2>10. QED
    BY <1>1, <1>2, <2>1, <2>7, <2>9, CorrectInvNext
<1>5. ASSUME AtWord, walk' = Append(walk, Previous(Last(walk)))
      PROVE  /\ walk' # <<>> /\ WalkOK(walk') /\ pc = "done"
             /\ Cardinality(Violating(Len(walk') - 2)) =
                  violations + (IF Matches(Last(walk).node) THEN 0 ELSE 1)
             /\ violations \in Nat
             /\ Last(walk).node \in 1 .. Eos
  <2>1. walk # <<>> /\ Last(walk).node # Bos
    BY <1>5 DEF AtWord
  <2>2. /\ WalkOK(walk') /\ walk' # <<>> /\ Len(walk') = Len(walk) + 1 /\ Len(walk) \in Nat /\ Len(walk) >= 2
        /\ Last(walk).node = path[Len(walk) - 1] /\ Last(walk).node \in 1 .. Eos
    BY <1>3, <1>5, <2>1, WalkGrows
  <2>3. PICK m : m = Len(walk) - 1
    OBVIOUS
  <2>4. m \in Nat \ {0} /\ Len(walk') - 2 = m /\ Len(walk) - 2 = m - 1
    BY <2>2, <2>3
  <2>5. QED
    BY <1>3, <2>1, <2>2, <2>3, <2>4, OneMoreCounted
<1>6. CASE WordMatches
  <2>1. AtWord /\ Matches(Last(walk).node) /\ walk' = Append(walk, Previous(Last(walk)))
        /\ stage' = "walk" /\ violations' = violations /\ corrected' = corrected
    BY <1>6 DEF WordMatches, AtWord
  <2>2. violations' = Cardinality(Violating(Len(walk') - 2))
    BY <1>5, <2>1
  <2>3. QED
    BY <1>1, <1>2, <1>5, <2>1, <2>2, CorrectInvNext
<1>7. CASE WordViolates
  <2>1. AtWord /\ ~Matches(Last(walk).node) /\ walk' = Append(walk, Previous(Last(walk)))
        /\ stage' = "walk" /\ violations' = violations + 1
    BY <1>7 DEF WordViolates, AtWord
  <2>2. PICK place, v : place = Last(walk) /\ v = ViolationAt(place.node)
    OBVIOUS
  <2>3. PICK found \in Found(v, WordAt(lat, place.node)) : Replace(v, found, place, Front(walk))
    BY <1>7, <2>2 DEF WordViolates
  <2>4. place.node \in 1 .. Eos /\ ~Matches(place.node)
    BY <1>5, <2>1, <2>2
  <2>5. \A c \in found : GoodFor(c, v, place)
    BY <1>2, <2>2, <2>3, <2>4, FoundIsGood
  <2>6. CorrectionsOK(corrected')
    BY <1>2, <2>3, <2>5, ReplaceIsOK
  <2>7. violations' = Cardinality(Violating(Len(walk') - 2))
    BY <1>5, <2>1
  <2>8. QED
    BY <1>1, <1>2, <1>5, <2>1, <2>6, <2>7, CorrectInvNext
<1>8. CASE EndWalk
  <2>1. stage = "walk" /\ walk # <<>> /\ Last(walk).node = Bos /\ stage' = "eos" /\ walk' = walk
        /\ violations' = violations /\ corrected' = corrected
    BY <1>8 DEF EndWalk
  <2>2. Len(walk) = Len(path) + 2
    <3>1. PICK m, p : m = Len(walk) /\ p = walk[m]
      OBVIOUS
    <3>2. m \in Nat /\ m >= 2 /\ OnPath(p, m) /\ p.node = Bos
      <4>1. m \in Nat /\ m >= 2 /\ \A i \in 1 .. m : OnPath(walk[i], i)
        BY <1>3, <2>1, <3>1 DEF WalkOK
      <4>2. m \in 1 .. m
        BY <4>1
      <4>3. QED
        BY <2>1, <3>1, <4>1, <4>2 DEF Last
    <3>3. Bos \notin 1 .. Eos
      BY DEF Bos
    <3>4. ~(m <= Len(path) + 1) /\ m <= Len(path) + 2
      BY <3>2, <3>3 DEF OnPath
    <3>5. path \in Seq(Nat)
      BY <1>3, <2>1, WalkBegins
    <3>6. Len(path) \in Nat
      BY <3>5
    <3>7. QED
      BY <3>1, <3>2, <3>4, <3>6
  <2>3. QED
    BY <1>1, <1>2, <1>3, <2>1, <2>2, CorrectInvNext
<1>9. CASE HandleEos
  <2>1. stage = "eos" /\ stage' = "finalize" /\ walk' = walk /\ violations' = violations
    BY <1>9 DEF HandleEos
  <2>2. walk # <<>>
    BY <2>1 DEF CorrectInv
  <2>. DEFINE top == beams[Eos][1]
  <2>3. CASE Matches(top.left) /\ Matches(T2(top))
    <3>1. corrected' = corrected
      BY <1>9, <2>3 DEF HandleEos
    <3>2. QED
      BY <1>1, <1>2, <1>3, <2>1, <2>2, <3>1, CorrectInvNext
  <2>4. CASE ~(Matches(top.left) /\ Matches(T2(top)))
    <3>1. Replace(Violation("Eos", 0), EosCandidates, Place(Eos, 1), <<>>)
      BY <1>9, <2>4 DEF HandleEos
    <3>2. ASSUME NEW c \in EosCandidates
          PROVE  GoodFor(c, Violation("Eos", 0), Place(Eos, 1))
      <4>1. PICK k \in DOMAIN beams[Eos] : c = Candidate(Eos, beams[Eos][k].left, beams[Eos][k].beam, beams[Eos][k].total)
        BY DEF EosCandidates
      <4>2. Eos \in 1 .. Eos /\ c \in BeamOf(Eos)
        BY <1>2, <4>1, NodesOfLattice DEF BeamOf, ToSet
      <4>3. c.node = Eos /\ c.left \in Left(Start(c.node))
            /\ T2(c) \in (IF c.left = Bos THEN {-1} ELSE Left(Start(c.left)))
        BY <1>2, <4>2, BeamsHoldContexts
      <4>4. Matches(c.left) /\ Matches(T2(c))
        BY DEF EosCandidates
      <4>5. ElementAt(Place(Eos, 1)) = top
        BY DEF ElementAt, Place
      <4>6. Context(c) # <<T2(top), top.left, Place(Eos, 1).node>>
        BY <2>4, <4>4 DEF Context
      <4>7. Resolves(c, Violation("Eos", 0), Place(Eos, 1))
        BY <4>3 DEF Resolves, Violation
      <4>8. QED
        BY <4>2, <4>3, <4>4, <4>5, <4>6, <4>7 DEF GoodFor, InContext
    <3>3. CorrectionsOK(corrected')
      BY <1>2, <3>1, <3>2, ReplaceIsOK
    <3>4. QED
      BY <1>1, <1>2, <1>3, <2>1, <2>2, <3>3, CorrectInvNext
  <2>5. QED
    BY <2>3, <2>4
<1>10. CASE Finalize
  <2>1. stage = "finalize" /\ stage' = "finished" /\ walk' = walk /\ violations' = violations
        /\ corrected' = corrected /\ partialLoss' \in {0, violations}
    BY <1>10 DEF Finalize
  <2>2. walk # <<>>
    BY <2>1 DEF CorrectInv
  <2>3. QED
    BY <1>1, <1>2, <1>3, <2>1, <2>2, CorrectInvNext
<1>11. QED
  BY <1>1, <1>4, <1>6, <1>7, <1>8, <1>9, <1>10 DEF PartialStep

\* The other user of the scored lattice, or none, corrects nothing.
LEMMA NoCorrection ==
  ASSUME CorrectInv, UNCHANGED vars, UNCHANGED partialVars
  PROVE  CorrectInv'
<1>1. /\ walk' = walk /\ stage' = stage /\ violations' = violations /\ corrected' = corrected
      /\ partialLoss' = partialLoss
  BY DEF partialVars
<1>2. CASE walk = <<>>
  <2>1. AnnotationRead' /\ corrected' = <<>>
    BY <1>1, <1>2, CorrectionRests DEF CorrectInv
  <2>2. CorrectionsOK(corrected)'
    BY <2>1 DEF CorrectionsOK
  <2>3. QED
    BY <1>1, <1>2, <2>1, <2>2 DEF CorrectInv
<1>3. CASE walk # <<>>
  BY <1>1, <1>3, CorrectInvNext DEF CorrectInv
<1>4. QED
  BY <1>2, <1>3

\* The walk of the partial trainer is that along the best path, and its
\* corrections are right, whatever the lattice, the annotation and the beams.
THEOREM CorrectInvAlways == ScoringSpec => []CorrectInv
<1>1. ScoringInit => CorrectInv
  BY InitCorrectInv
<1>2. ScoringInv /\ CorrectInv /\ [ScoringNext]_allVars => CorrectInv'
  <2>. SUFFICES ASSUME IInv, CorrectInv, [ScoringNext]_allVars PROVE CorrectInv'
    BY DEF ScoringInv
  <2>1. CASE Analyse
    BY <2>1, AnalyseBeforeCorrect
  <2>2. CASE Correct
    BY <2>2, CorrectStepOK
  <2>3. CASE Compare \/ Finished \/ UNCHANGED allVars
    <3>1. UNCHANGED vars /\ UNCHANGED partialVars
      BY <2>3 DEF Compare, Finished, allVars
    <3>2. QED
      BY <3>1, NoCorrection
  <2>4. QED
    BY <2>1, <2>2, <2>3 DEF ScoringNext
<1>3. QED
  BY <1>1, <1>2, ScoringInvAlways, PTL DEF ScoringSpec

\* What gains from a correction is in agreement with the annotation, in a context
\* of the lattice, where the violation asks for a word, and never the path that
\* is corrected (handleBoundaryConstraints, handleEos).
THEOREM CorrectionsAreAllowed == ScoringSpec => []GoodCandidatesAreAllowed
<1>1. CorrectInv => GoodCandidatesAreAllowed
  BY DEF CorrectInv, CorrectionsOK, GoodFor, InContext, GoodCandidatesAreAllowed
<1>2. QED
  BY <1>1, CorrectInvAlways, PTL

\* The loss of the partial trainer is the number of words of the best path that
\* violate the annotation, if there is anything to learn from (compute).
THEOREM LossCountsViolations ==
  ScoringSpec =>
    [](stage = "finished" => partialLoss \in {0, Cardinality({i \in DOMAIN path : ~Matches(path[i])})})
<1>1. ScoringInv /\ CorrectInv =>
        (stage = "finished" => partialLoss \in {0, Cardinality({i \in DOMAIN path : ~Matches(path[i])})})
  <2>. SUFFICES ASSUME IInv, CorrectInv, stage = "finished"
                PROVE  partialLoss \in {0, Cardinality({i \in DOMAIN path : ~Matches(path[i])})}
    BY DEF ScoringInv
  <2>1. /\ pc = "done" /\ Len(walk) = Len(path) + 2
        /\ partialLoss \in {0, Cardinality(Violating(Len(walk) - 2))}
    BY DEF CorrectInv
  <2>2. path \in Seq(Nat)
    BY <2>1, WalkBegins
  <2>3. Len(walk) - 2 = Len(path) /\ DOMAIN path = 1 .. Len(path)
    BY <2>1, <2>2
  <2>4. QED
    BY <2>1, <2>3 DEF Violating
<1>2. QED
  BY <1>1, ScoringInvAlways, CorrectInvAlways, PTL

-------------------------------------------------------------------------------
(* What an annotation decides                                              *)

\* The lines of an annotation, one after the other
Annotation(lines, n) ==
  /\ Len(lines) \in Nat \ {0} /\ DOMAIN lines = 1 .. Len(lines) /\ n \in Nat
  /\ \A i \in 1 .. Len(lines) : /\ lines[i].kind \in {"text", "word"}
                                /\ lines[i].length \in Nat \ {0}
                                /\ lines[i].joined \subseteq 1 .. lines[i].length - 1
  /\ LineStart(lines, Len(lines) + 1) = n

\* Lines start later and later, all of them in the text.
LEMMA LinesInARow ==
  ASSUME NEW lines, NEW n, Annotation(lines, n)
  PROVE  /\ \A i, j \in 1 .. Len(lines) + 1 : i < j => LineStart(lines, i) < LineStart(lines, j)
         /\ \A i \in 1 .. Len(lines) : /\ LineStart(lines, i + 1) = LineStart(lines, i) + lines[i].length
                                       /\ LineStart(lines, i) \in 0 .. n - 1
                                       /\ LineStart(lines, i + 1) \in 1 .. n
         /\ LineStart(lines, 1) = 0
<1>. DEFINE m == Len(lines)
            s == [i \in 1 .. m + 1 |-> LineStart(lines, i)]
<1>1. m \in Nat \ {0} /\ n \in Nat /\ s[m + 1] = n /\ \A i \in 1 .. m : lines[i].length \in Nat \ {0}
  BY DEF Annotation
<1>2. LineStart(lines, 1) = 0
      /\ (\A i \in 1 .. m : LineStart(lines, i + 1) = LineStart(lines, i) + lines[i].length)
      /\ (\A i \in 1 .. m + 1 : LineStart(lines, i) \in Nat)
  BY <1>1, StartsOfLines
<1>3. s[1] = 0 /\ (\A i \in 1 .. m : s[i + 1] = s[i] + lines[i].length)
      /\ (\A i \in 1 .. m + 1 : s[i] \in Nat /\ s[i] = LineStart(lines, i))
  <2>1. \A i \in 1 .. m : i \in 1 .. m + 1 /\ i + 1 \in 1 .. m + 1
    BY <1>1
  <2>2. 1 \in 1 .. m + 1
    BY <1>1
  <2>3. QED
    BY <1>2, <2>1, <2>2
<1>. HIDE DEF s
<1>4. \A i \in 1 .. m : s[i] < s[i + 1]
  <2>1. TAKE i \in 1 .. m
  <2>2. s[i + 1] = s[i] + lines[i].length /\ s[i] \in Nat /\ lines[i].length \in Nat \ {0}
    BY <1>1, <1>3
  <2>3. QED
    BY <2>2
<1>. DEFINE Rising(k) == \A i, j \in 1 .. m + 1 : i < j /\ j - i <= k => s[i] < s[j]
            M == {k \in Nat : Rising(k)}
<1>5. 0 \in M
  <2>1. Rising(0)
    BY <1>1
  <2>2. QED
    BY <2>1
<1>6. ASSUME NEW k \in Nat, k \in M PROVE k + 1 \in M
  <2>1. SUFFICES ASSUME NEW i \in 1 .. m + 1, NEW j \in 1 .. m + 1, i < j, j - i <= k + 1
                 PROVE  s[i] < s[j]
    OBVIOUS
  <2>2. j - 1 \in 1 .. m /\ j - 1 \in 1 .. m + 1 /\ (j - 1) + 1 = j
    BY <1>1, <2>1
  <2>3. s[j - 1] < s[j] /\ s[j - 1] \in Nat /\ s[j] \in Nat /\ s[i] \in Nat
    BY <1>3, <1>4, <2>2
  <2>4. CASE i = j - 1
    BY <2>3, <2>4
  <2>5. CASE i # j - 1
    <3>1. i < j - 1 /\ (j - 1) - i <= k
      BY <1>1, <2>1, <2>5
    <3>2. s[i] < s[j - 1]
      BY <1>6, <2>2, <3>1
    <3>3. QED
      BY <2>3, <3>2
  <2>6. QED
    BY <2>4, <2>5
<1>. HIDE DEF M
<1>7. \A k \in Nat : k \in M
  BY <1>5, <1>6, SetInduction
<1>8. ASSUME NEW i \in 1 .. m + 1, NEW j \in 1 .. m + 1, i < j
      PROVE  s[i] < s[j]
  <2>1. j - i \in Nat
    BY <1>8, <1>1
  <2>2. Rising(j - i)
    BY <1>7, <2>1 DEF M
  <2>3. QED
    BY <1>8, <2>1, <2>2
<1>9. ASSUME NEW i \in 1 .. m
      PROVE  s[i] \in 0 .. n - 1 /\ s[i + 1] \in 1 .. n
  <2>1. i \in 1 .. m + 1 /\ i + 1 \in 1 .. m + 1 /\ m + 1 \in 1 .. m + 1 /\ i < m + 1
    BY <1>1
  <2>2. s[i] < n /\ s[i] \in Nat /\ s[i] < s[i + 1] /\ s[i + 1] \in Nat
    BY <1>1, <1>3, <1>4, <1>8, <2>1
  <2>3. s[i + 1] <= n
    <3>1. CASE i = m
      BY <1>1, <2>2, <3>1
    <3>2. CASE i # m
      <4>1. i + 1 < m + 1
        BY <1>1, <3>2
      <4>2. QED
        BY <1>1, <1>8, <2>1, <2>2, <4>1
    <3>3. QED
      BY <3>1, <3>2
  <2>4. QED
    BY <1>1, <2>2, <2>3
<1>10. ASSUME NEW i \in 1 .. m + 1, NEW j \in 1 .. m + 1, i < j
       PROVE  LineStart(lines, i) < LineStart(lines, j)
  BY <1>3, <1>8, <1>10
<1>11. ASSUME NEW i \in 1 .. m
       PROVE  /\ LineStart(lines, i + 1) = LineStart(lines, i) + lines[i].length
              /\ LineStart(lines, i) \in 0 .. n - 1
              /\ LineStart(lines, i + 1) \in 1 .. n
  <2>1. i \in 1 .. m + 1 /\ i + 1 \in 1 .. m + 1
    BY <1>1
  <2>2. LineStart(lines, i) = s[i] /\ LineStart(lines, i + 1) = s[i + 1]
    BY <1>3, <2>1
  <2>3. QED
    BY <1>2, <1>9, <2>2
<1>12. QED
  BY <1>2, <1>10, <1>11

\* What the lines say of places and words
Forbidden(lines, x) ==
  \E j \in 1 .. Len(lines) :
    \E k \in (IF lines[j].kind = "text" THEN lines[j].joined ELSE 1 .. lines[j].length - 1) :
      x = LineStart(lines, j) + k
Required(lines, x) == \E j \in 1 .. Len(lines) : x = LineStart(lines, j + 1)

\* A word that is in order with every line
InOrderWith(lines, w) ==
  /\ ~Forbidden(lines, w.start) /\ ~Forbidden(lines, w.end)
  /\ \A j \in 1 .. Len(lines) : ~(w.start < LineStart(lines, j + 1) /\ LineStart(lines, j + 1) < w.end)
  /\ \A j \in 1 .. Len(lines) : lines[j].kind = "word" /\ LineStart(lines, j) = w.start =>
       /\ lines[j].length = w.end - w.start
       /\ \A f \in DOMAIN lines[j].tags : w.data[f] = lines[j].tags[f]

\* checkViolation has no objection to a word exactly if it is in order with
\* every line.
LEMMA NoObjection ==
  ASSUME NEW lines, NEW n, Annotation(lines, n), NEW w
  PROVE  CheckViolation(ReadExample(lines), w) = NoViolation <=> InOrderWith(lines, w)
<1>. DEFINE m == Len(lines)
<1>1. PICK ex : ex = ReadUpTo(lines, m)
  OBVIOUS
<1>2. ReadExample(lines) = ex /\ \A j \in 1 .. m : lines[j].kind \in {"text", "word"}
  BY <1>1, ExampleOfLines DEF Annotation
<1>3. \A x : x \in ex.noBreak <=> Forbidden(lines, x)
  BY <1>1 DEF ReadUpTo, NoBreaksUpTo, Forbidden
<1>4. Inside(ex, w) = {} <=>
        \A j \in 1 .. m : ~(w.start < LineStart(lines, j + 1) /\ LineStart(lines, j + 1) < w.end)
  <2>1. ex.boundaries = {LineStart(lines, j + 1) : j \in 1 .. m}
    BY <1>1 DEF ReadUpTo, BoundariesUpTo
  <2>2. QED
    BY <2>1 DEF Inside
<1>. DEFINE line(j) == [start |-> LineStart(lines, j), length |-> lines[j].length, tags |-> lines[j].tags]
<1>5. ex.words = {line(j) : j \in {j \in 1 .. m : lines[j].kind = "word"}}
  <2>1. {j \in 1 .. m : lines[j].kind # "text"} = {j \in 1 .. m : lines[j].kind = "word"}
    BY <1>2
  <2>2. ex.words = {line(j) : j \in {j \in 1 .. m : lines[j].kind # "text"}}
    BY <1>1 DEF ReadUpTo, WordsUpTo
  <2>. HIDE DEF line
  <2>3. QED
    BY <2>1, <2>2
<1>6. \A j : line(j).start = LineStart(lines, j) /\ line(j).length = lines[j].length
             /\ line(j).tags = lines[j].tags
  OBVIOUS
<1>. HIDE DEF line
<1>7. ~WrongLength(ex, w) <=>
        \A j \in 1 .. m : lines[j].kind = "word" /\ LineStart(lines, j) = w.start =>
          lines[j].length = w.end - w.start
  BY <1>5, <1>6 DEF WrongLength
<1>8. ~WrongTags(ex, w) <=>
        \A j \in 1 .. m : lines[j].kind = "word" /\ LineStart(lines, j) = w.start =>
          \A f \in DOMAIN lines[j].tags : w.data[f] = lines[j].tags[f]
  BY <1>5, <1>6 DEF WrongTags
<1>9. CheckViolation(ex, w) = NoViolation <=>
        /\ w.start \notin ex.noBreak /\ w.end \notin ex.noBreak
        /\ Inside(ex, w) = {} /\ ~WrongLength(ex, w) /\ ~WrongTags(ex, w)
  BY DEF CheckViolation, NoViolation, Violation
<1>10. QED
  BY <1>2, <1>3, <1>4, <1>7, <1>8, <1>9 DEF InOrderWith

\* Words that are a segmentation of a text: none reaches into another one, and
\* every place is in one.
Segments(W, n) ==
  /\ \A w \in W : w.start \in Nat /\ w.end \in Nat /\ w.start < w.end /\ w.end <= n
  /\ \A v, w \in W : /\ ~(w.start < v.start /\ v.start < w.end)
                     /\ ~(w.start < v.end /\ v.end < w.end)
                     /\ v.start = w.start => v = w
  /\ \A b \in 0 .. n - 1 : \E w \in W : w.start <= b /\ b < w.end

\* A segmentation agrees with an annotation exactly if each of its words is in
\* order with every line.
LEMMA WordsDecide ==
  ASSUME NEW lines, NEW n, Annotation(lines, n), NEW W, Segments(W, n)
  PROVE  Conforms(lines, W) <=> \A w \in W : InOrderWith(lines, w)
<1>. DEFINE m == Len(lines)
            At(i) == LineStart(lines, i)
            cuts == {w.start : w \in W} \cup {w.end : w \in W}
            Agrees(i) == /\ At(i) + lines[i].length \in cuts
                         /\ \A j \in lines[i].joined : At(i) + j \notin cuts
                         /\ lines[i].kind = "word" =>
                              \E w \in W : /\ w.start = At(i) /\ w.end = At(i) + lines[i].length
                                           /\ \A f \in DOMAIN lines[i].tags : w.data[f] = lines[i].tags[f]
<1>1. /\ m \in Nat \ {0} /\ DOMAIN lines = 1 .. m /\ n \in Nat
      /\ \A i \in 1 .. m : /\ lines[i].kind \in {"text", "word"} /\ lines[i].length \in Nat \ {0}
                           /\ lines[i].joined \subseteq 1 .. lines[i].length - 1
  BY DEF Annotation
<1>2. /\ \A i \in 1 .. m : At(i + 1) = At(i) + lines[i].length /\ At(i) \in 0 .. n - 1 /\ At(i + 1) \in 1 .. n
      /\ At(1) = 0
  BY LinesInARow
<1>3. Conforms(lines, W) <=> \A i \in 1 .. m : Agrees(i)
  BY <1>1 DEF Conforms
<1>4. \A w \in W : w.start \in cuts /\ w.end \in cuts
  OBVIOUS
<1>5. /\ \A w \in W : w.start \in Nat /\ w.end \in Nat /\ w.start < w.end /\ w.end <= n
      /\ \A v, w \in W : v.start = w.start => v = w
      /\ \A c \in cuts : \A w \in W : ~(w.start < c /\ c < w.end)
      /\ \A b \in 0 .. n - 1 : \E w \in W : w.start <= b /\ b < w.end
  BY DEF Segments
<1>. HIDE DEF cuts, At
<1>6. ASSUME \A i \in 1 .. m : Agrees(i), NEW w \in W
      PROVE  InOrderWith(lines, w)
  <2>1. ASSUME NEW c \in cuts PROVE ~Forbidden(lines, c)
    <3>1. SUFFICES ASSUME NEW j \in 1 .. m,
                          NEW k \in (IF lines[j].kind = "text" THEN lines[j].joined ELSE 1 .. lines[j].length - 1),
                          c = At(j) + k
                   PROVE  FALSE
      BY DEF Forbidden, At
    <3>2. CASE lines[j].kind = "text"
      BY <1>6, <3>1, <3>2
    <3>3. CASE lines[j].kind # "text"
      <4>1. lines[j].kind = "word" /\ k \in 1 .. lines[j].length - 1
        BY <1>1, <3>3
      <4>2. PICK v \in W : v.start = At(j) /\ v.end = At(j) + lines[j].length
        BY <1>6, <4>1
      <4>3. v.start < c /\ c < v.end
        <5>1. At(j) \in Nat /\ lines[j].length \in Nat
          BY <1>1, <1>2
        <5>2. QED
          BY <3>1, <4>1, <4>2, <5>1
      <4>4. QED
        BY <1>5, <4>3
    <3>4. QED
      BY <3>2, <3>3
  <2>2. ASSUME NEW j \in 1 .. m PROVE ~(w.start < At(j + 1) /\ At(j + 1) < w.end)
    <3>1. At(j + 1) \in cuts
      BY <1>2, <1>6
    <3>2. QED
      BY <1>5, <3>1
  <2>3. ASSUME NEW j \in 1 .. m, lines[j].kind = "word", At(j) = w.start
        PROVE  /\ lines[j].length = w.end - w.start
               /\ \A f \in DOMAIN lines[j].tags : w.data[f] = lines[j].tags[f]
    <3>1. PICK v \in W : /\ v.start = At(j) /\ v.end = At(j) + lines[j].length
                         /\ \A f \in DOMAIN lines[j].tags : v.data[f] = lines[j].tags[f]
      BY <1>6, <2>3
    <3>2. v = w
      BY <1>5, <2>3, <3>1
    <3>3. w.start \in Nat /\ lines[j].length \in Nat /\ w.end = w.start + lines[j].length
      BY <1>1, <1>5, <3>1, <3>2
    <3>4. QED
      BY <3>1, <3>2, <3>3
  <2>4. QED
    BY <1>4, <2>1, <2>2, <2>3 DEF InOrderWith, At
<1>7. ASSUME \A w \in W : InOrderWith(lines, w), NEW i \in 1 .. m
      PROVE  Agrees(i)
  <2>1. ASSUME NEW b \in 0 .. n - 1, b = 0 \/ \E j \in 1 .. m : b = At(j + 1)
        PROVE  \E w \in W : w.start = b
    <3>1. PICK w \in W : w.start <= b /\ b < w.end
      BY <1>5
    <3>2. ~(w.start < b)
      <4>1. CASE b = 0
        BY <1>5, <4>1
      <4>2. CASE \E j \in 1 .. m : b = At(j + 1)
        BY <1>7, <3>1, <4>2 DEF InOrderWith, At
      <4>3. QED
        BY <2>1, <4>1, <4>2
    <3>3. w.start = b
      BY <1>5, <3>1, <3>2
    <3>4. QED
      BY <3>3
  <2>2. At(i + 1) \in cuts
    <3>1. At(i + 1) \in 1 .. n
      BY <1>2
    <3>2. CASE At(i + 1) = n
      <4>1. n - 1 \in 0 .. n - 1
        BY <1>1, <3>1
      <4>2. PICK w \in W : w.start <= n - 1 /\ n - 1 < w.end
        BY <1>5, <4>1
      <4>3. w.end = n
        BY <1>1, <1>5, <4>2
      <4>4. QED
        BY <1>4, <3>2, <4>3
    <3>3. CASE At(i + 1) # n
      <4>1. At(i + 1) \in 0 .. n - 1
        BY <1>1, <3>1, <3>3
      <4>2. PICK w \in W : w.start = At(i + 1)
        BY <2>1, <4>1
      <4>3. QED
        BY <1>4, <4>2
    <3>4. QED
      BY <3>2, <3>3
  <2>3. ASSUME NEW j \in lines[i].joined PROVE At(i) + j \notin cuts
    <3>1. Forbidden(lines, At(i) + j)
      BY <1>1 DEF Forbidden, At
    <3>2. QED
      BY <1>7, <3>1 DEF InOrderWith, cuts
  <2>4. ASSUME lines[i].kind = "word"
        PROVE  \E w \in W : /\ w.start = At(i) /\ w.end = At(i) + lines[i].length
                            /\ \A f \in DOMAIN lines[i].tags : w.data[f] = lines[i].tags[f]
    <3>1. At(i) \in 0 .. n - 1 /\ At(i) \in Nat
      BY <1>2
    <3>2. At(i) = 0 \/ \E j \in 1 .. m : At(i) = At(j + 1)
      <4>1. CASE i = 1
        BY <1>2, <4>1
      <4>2. CASE i # 1
        <5>1. i - 1 \in 1 .. m /\ (i - 1) + 1 = i
          BY <1>1, <4>2
        <5>2. QED
          BY <5>1
      <4>3. QED
        BY <4>1, <4>2
    <3>3. PICK w \in W : w.start = At(i)
      BY <2>1, <3>1, <3>2
    <3>4. lines[i].length = w.end - w.start /\ \A f \in DOMAIN lines[i].tags : w.data[f] = lines[i].tags[f]
      BY <1>7, <2>4, <3>3 DEF InOrderWith, At
    <3>5. w.end = At(i) + lines[i].length
      BY <1>5, <3>1, <3>3, <3>4
    <3>6. QED
      BY <3>3, <3>4, <3>5
  <2>5. QED
    BY <1>2, <2>2, <2>3, <2>4
<1>8. QED
  BY <1>3, <1>6, <1>7

\* The words of a path are a segmentation of the sentence.
LEMMA PathsAreSegments ==
  ASSUME InputOK, NEW h \in Histories[Eos]
  PROVE  Segments(Words(h), lat.n)
<1>1. /\ lat.n \in Nat \ {0} /\ Eos \in 1 .. Eos /\ Start(Eos) = lat.n /\ Eos \in Nat
      /\ \A r \in 1 .. Eos : Start(r) \in 0 .. lat.n
  BY NodesOfLattice
<1>2. PICK n, m : n = lat.n /\ m = Len(h)
  OBVIOUS
<1>3. /\ h \in Seq(1 .. Eos - 1) /\ m \in Nat /\ DOMAIN h = 1 .. m
      /\ \A i \in 1 .. m : h[i] \in 1 .. Eos - 1 /\ h[i] \in 1 .. Eos
  <2>. DEFINE WordIds == 1 .. Eos - 1
  <2>1. h \in Seq(WordIds)
    BY <1>1, PartsOfPaths
  <2>. HIDE DEF WordIds
  <2>2. m \in Nat /\ DOMAIN h = 1 .. m
    BY <1>2, <2>1
  <2>3. \A i \in 1 .. m : h[i] \in WordIds
    BY <2>1, <2>2, ElementOfSeq
  <2>. USE DEF WordIds
  <2>4. QED
    BY <1>1, <2>1, <2>2, <2>3
<1>. DEFINE from(i) == Start(h[i])
            to(i) == lat.nodes[h[i]].end
<1>4. ASSUME NEW i \in 1 .. m
      PROVE  /\ from(i) \in 0 .. n /\ from(i) < n
             /\ WordAt(lat, h[i]) = lat.nodes[h[i]]
             /\ lat.nodes[h[i]].start = from(i)
             /\ to(i) \in 0 .. n /\ from(i) < to(i)
             /\ from(i) = 0 <=> i = m
             /\ i # m => to(i + 1) = from(i)
             /\ i = 1 => to(i) = n
  <2>1. /\ h[i] \in 1 .. Eos - 1 /\ h[i] \in 1 .. Eos /\ from(i) \in 0 .. n
        /\ from(i) < n
    BY <1>1, <1>2, <1>3, PartsOfPaths
  <2>2. /\ Len(lat.nodes) \in Nat /\ DOMAIN lat.nodes = 1 .. Len(lat.nodes) /\ h[i] \in 1 .. Len(lat.nodes)
        /\ lat.nodes \in Seq([start : 0 .. n, end : 0 .. n, data : Seq(Nat)])
    BY <1>2, <2>1 DEF InputOK, Eos
  <2>3. WordAt(lat, h[i]) = lat.nodes[h[i]] /\ lat.nodes[h[i]].start = from(i)
    BY <2>2 DEF WordAt, Start, Eos
  <2>4. lat.nodes[h[i]] \in [start : 0 .. n, end : 0 .. n, data : Seq(Nat)]
    BY <2>2, ElementOfSeq
  <2>5. to(i) \in 0 .. n /\ from(i) < to(i)
    BY <2>2, <2>3, <2>4 DEF InputOK
  <2>6. PICK g : g = SubSeq(h, i + 1, m)
    OBVIOUS
  <2>7. g \in Histories[h[i]]
    BY <1>1, <1>2, <2>6, PartsOfPaths
  <2>8. g = <<>> <=> from(i) = 0
    BY <2>1, <2>7, PathsOfLattice
  <2>9. Before(g) \in Left(from(i))
    BY <2>1, <2>7, PathsOfLattice
  <2>10. g = [j \in 1 .. m - (i + 1) + 1 |-> h[(i + 1) + j - 1]]
    BY <1>3, <2>6
  <2>11. CASE i = m
    <3>1. DOMAIN g = 1 .. 0
      BY <1>3, <2>10, <2>11
    <3>2. g = <<>>
      BY <1>3, <2>6, <2>11
    <3>3. from(i) = 0
      BY <2>8, <3>2
    <3>4. i = 1 => to(i) = n
      <4>1. SUFFICES ASSUME i = 1 PROVE to(i) = n
        OBVIOUS
      <4>2. Before(h) \in Left(n) /\ h # <<>>
        BY <1>1, <1>2, PathsOfLattice
      <4>3. h[1] \in Left(n)
        BY <4>2 DEF Before
      <4>4. QED
        BY <1>1, <1>2, <4>1, <4>3 DEF Left
    <3>5. QED
      BY <2>1, <2>3, <2>5, <2>11, <3>3, <3>4
  <2>12. CASE i # m
    <3>1. 1 \in 1 .. m - (i + 1) + 1 /\ (i + 1) + 1 - 1 = i + 1 /\ i + 1 \in 1 .. m
      BY <1>3, <2>12
    <3>2. g[1] = h[i + 1] /\ g # <<>>
      <4>1. g[1] = h[i + 1] /\ 1 \in DOMAIN g
        BY <2>10, <3>1
      <4>2. g # <<>>
        BY <4>1
      <4>3. QED
        BY <4>1, <4>2
    <3>3. from(i) # 0 /\ h[i + 1] \in Left(from(i))
      BY <2>8, <2>9, <3>2 DEF Before
    <3>4. to(i + 1) = from(i)
      BY <3>3 DEF Left
    <3>5. i = 1 => to(i) = n
      <4>1. SUFFICES ASSUME i = 1 PROVE to(i) = n
        OBVIOUS
      <4>2. Before(h) \in Left(n) /\ h # <<>>
        BY <1>1, <1>2, PathsOfLattice
      <4>3. h[1] \in Left(n)
        BY <4>2 DEF Before
      <4>4. QED
        BY <1>1, <1>2, <4>1, <4>3 DEF Left
    <3>6. QED
      BY <2>1, <2>3, <2>5, <2>12, <3>3, <3>4, <3>5
  <2>13. QED
    BY <2>11, <2>12
<1>5. \A i, j \in 1 .. m : i < j => from(j) < from(i)
  BY <1>1, <1>2, PartsOfPaths
<1>6. h # <<>> /\ m >= 1
  <2>1. h # <<>>
    BY <1>1, PathsOfLattice
  <2>2. QED
    BY <1>2, <1>3, <2>1
<1>7. ASSUME NEW i \in 1 .. m, NEW j \in 1 .. m, i < j
      PROVE  to(j) <= from(i)
  <2>1. j - 1 \in 1 .. m /\ j - 1 # m /\ (j - 1) + 1 = j
    BY <1>3, <1>7
  <2>2. to(j) = from(j - 1) /\ from(j - 1) \in 0 .. n /\ from(i) \in 0 .. n
    BY <1>4, <2>1
  <2>3. CASE j - 1 = i
    BY <1>1, <1>2, <2>2, <2>3
  <2>4. CASE j - 1 # i
    <3>1. i < j - 1
      BY <1>3, <1>7, <2>4
    <3>2. from(j - 1) < from(i)
      BY <1>5, <2>1, <3>1
    <3>3. QED
      BY <1>1, <1>2, <2>2, <3>2
  <2>5. QED
    BY <2>3, <2>4
<1>8. Words(h) = {lat.nodes[h[i]] : i \in 1 .. m}
  <2>. HIDE DEF from, to
  <2>1. \A i \in 1 .. m : WordAt(lat, h[i]) = lat.nodes[h[i]]
    BY <1>4
  <2>2. Words(h) = {WordAt(lat, h[i]) : i \in 1 .. m}
    BY <1>3 DEF Words
  <2>3. QED
    BY <2>1, <2>2
<1>. HIDE DEF from, to
<1>9. ASSUME NEW w \in Words(h)
      PROVE  \E i \in 1 .. m : w = lat.nodes[h[i]] /\ w.start = from(i) /\ w.end = to(i)
  BY <1>4, <1>8 DEF to
<1>10. ASSUME NEW v \in Words(h), NEW w \in Words(h)
       PROVE  /\ ~(w.start < v.start /\ v.start < w.end)
              /\ ~(w.start < v.end /\ v.end < w.end)
              /\ v.start = w.start => v = w
  <2>1. PICK i \in 1 .. m : w = lat.nodes[h[i]] /\ w.start = from(i) /\ w.end = to(i)
    BY <1>9
  <2>2. PICK j \in 1 .. m : v = lat.nodes[h[j]] /\ v.start = from(j) /\ v.end = to(j)
    BY <1>9
  <2>3. /\ from(i) \in Nat /\ to(i) \in Nat /\ from(j) \in Nat /\ to(j) \in Nat
        /\ from(i) < to(i) /\ from(j) < to(j)
    BY <1>1, <1>2, <1>4
  <2>4. CASE i = j
    BY <2>1, <2>2, <2>3, <2>4
  <2>5. CASE i < j
    <3>1. to(j) <= from(i)
      BY <1>7, <2>5
    <3>2. QED
      BY <2>1, <2>2, <2>3, <3>1
  <2>6. CASE j < i
    <3>1. to(i) <= from(j)
      BY <1>7, <2>6
    <3>2. QED
      BY <2>1, <2>2, <2>3, <3>1
  <2>7. QED
    BY <1>3, <2>4, <2>5, <2>6
<1>11. ASSUME NEW b \in 0 .. n - 1
       PROVE  \E w \in Words(h) : w.start <= b /\ b < w.end
  <2>. DEFINE T == {i \in 1 .. m : from(i) <= b}
  <2>1. m \in T
    <3>1. m \in 1 .. m
      BY <1>3, <1>6
    <3>2. from(m) = 0 /\ 0 <= b
      BY <1>1, <1>2, <1>4, <3>1
    <3>3. QED
      BY <3>1, <3>2
  <2>2. T \in SUBSET Nat
    OBVIOUS
  <2>3. PICK i \in T : \A j \in T : i <= j
    BY <2>1, <2>2, LeastElement
  <2>4. i \in 1 .. m /\ from(i) <= b
    OBVIOUS
  <2>5. b < to(i)
    <3>1. CASE i = 1
      BY <1>1, <1>2, <1>4, <2>4, <3>1
    <3>2. CASE i # 1
      <4>1. i - 1 \in 1 .. m /\ i - 1 # m /\ (i - 1) + 1 = i
        BY <1>3, <2>4, <3>2
      <4>2. to(i) = from(i - 1) /\ from(i - 1) \in 0 .. n
        BY <1>4, <4>1
      <4>3. i - 1 \notin T
        BY <1>3, <2>3, <2>4
      <4>4. ~(from(i - 1) <= b)
        BY <4>1, <4>3
      <4>5. QED
        BY <1>1, <1>2, <4>2, <4>4
    <3>3. QED
      BY <3>1, <3>2
  <2>6. lat.nodes[h[i]] \in Words(h) /\ lat.nodes[h[i]].start = from(i) /\ lat.nodes[h[i]].end = to(i)
    BY <1>4, <1>8, <2>4 DEF to
  <2>7. QED
    BY <2>4, <2>5, <2>6
<1>12. ASSUME NEW w \in Words(h)
       PROVE  w.start \in Nat /\ w.end \in Nat /\ w.start < w.end /\ w.end <= n
  BY <1>1, <1>2, <1>4, <1>9
<1>13. QED
  BY <1>2, <1>10, <1>11, <1>12 DEF Segments

\* The places where a text may be cut, with a word between two of them that
\* nothing cuts
CutsAround(cuts, n, w) ==
  /\ cuts \in SUBSET (0 .. n) /\ {0, n, w.start, w.end} \subseteq cuts
  /\ \A c \in cuts : ~(w.start < c /\ c < w.end)
NextCut(cuts, c) == Min({d \in cuts : c < d})
FreeWords(lines, n, cuts, w) ==
  {[start |-> c, end |-> NextCut(cuts, c), data |-> TagsFor(lines, c, NextCut(cuts, c))]
     : c \in cuts \ {n, w.start}}

\* The next cut is the nearest one.
LEMMA NextCuts ==
  ASSUME NEW n \in Nat, NEW cuts \in SUBSET (0 .. n), n \in cuts, NEW c \in cuts, c # n
  PROVE  /\ NextCut(cuts, c) \in cuts /\ c < NextCut(cuts, c)
         /\ \A d \in cuts : ~(c < d /\ d < NextCut(cuts, c))
<1>. DEFINE T == {d \in cuts : c < d}
<1>1. T \in SUBSET Nat /\ n \in T /\ cuts \in SUBSET Nat
  <2>1. \A d \in cuts : d \in Nat /\ d <= n
    OBVIOUS
  <2>2. c < n
    BY <2>1
  <2>3. QED
    BY <2>1, <2>2
<1>2. PICK x \in T : \A y \in T : x <= y
  BY <1>1, LeastElement
<1>. HIDE DEF T
<1>3. Min(T) \in T /\ \A y \in T : Min(T) <= y
  BY <1>2 DEF Min
<1>4. NextCut(cuts, c) = Min(T)
  BY DEF NextCut, T
<1>5. \A d \in cuts : c < d => Min(T) <= d
  BY <1>3 DEF T
<1>6. Min(T) \in cuts /\ c < Min(T)
  BY <1>3 DEF T
<1>7. ASSUME NEW d \in cuts, c < d, d < Min(T) PROVE FALSE
  <2>1. Min(T) <= d /\ Min(T) \in Nat /\ d \in Nat
    BY <1>1, <1>5, <1>6, <1>7
  <2>2. QED
    BY <1>7, <2>1
<1>8. QED
  BY <1>4, <1>6, <1>7

\* The words between the cuts are a segmentation.
LEMMA CutsAreSegments ==
  ASSUME NEW lines, NEW n \in Nat \ {0}, NEW w, w.start \in Nat, w.end \in Nat, w.start < w.end,
         NEW cuts, CutsAround(cuts, n, w)
  PROVE  Segments(FreeWords(lines, n, cuts, w) \cup {w}, n)
<1>. DEFINE free == FreeWords(lines, n, cuts, w)
            W == free \cup {w}
<1>1. /\ cuts \in SUBSET (0 .. n) /\ 0 \in cuts /\ n \in cuts /\ w.start \in cuts /\ w.end \in cuts
      /\ \A c \in cuts : ~(w.start < c /\ c < w.end)
  BY DEF CutsAround
<1>2. ASSUME NEW v \in W
      PROVE  /\ v.start \in cuts /\ v.end \in cuts /\ v.start < v.end /\ v.start # n
             /\ \A c \in cuts : ~(v.start < c /\ c < v.end)
             /\ v = w \/ (v \in free /\ v.start # w.start
                          /\ v = [start |-> v.start, end |-> NextCut(cuts, v.start),
                                  data |-> TagsFor(lines, v.start, NextCut(cuts, v.start))])
  <2>1. CASE v = w
    BY <1>1, <2>1
  <2>2. CASE v \in free
    <3>1. PICK c \in cuts \ {n, w.start} :
            v = [start |-> c, end |-> NextCut(cuts, c), data |-> TagsFor(lines, c, NextCut(cuts, c))]
      BY <2>2 DEF FreeWords
    <3>2. v.start = c /\ v.end = NextCut(cuts, c)
      BY <3>1
    <3>3. /\ NextCut(cuts, c) \in cuts /\ c < NextCut(cuts, c)
          /\ \A d \in cuts : ~(c < d /\ d < NextCut(cuts, c))
      BY <1>1, NextCuts
    <3>4. QED
      BY <2>2, <3>1, <3>2, <3>3
  <2>3. QED
    BY <2>1, <2>2
<1>3. ASSUME NEW v \in W, NEW u \in W, v.start = u.start
      PROVE  v = u
  BY <1>2, <1>3
<1>4. ASSUME NEW c \in cuts, c # n
      PROVE  \E v \in W : v.start = c /\ \A d \in cuts : c < d => v.end <= d
  <2>1. CASE c = w.start
    <3>1. \A d \in cuts : c < d => w.end <= d
      BY <1>1, <2>1
    <3>2. QED
      BY <2>1, <3>1
  <2>2. CASE c # w.start
    <3>1. PICK v : v = [start |-> c, end |-> NextCut(cuts, c), data |-> TagsFor(lines, c, NextCut(cuts, c))]
      OBVIOUS
    <3>2. v \in free /\ v.start = c /\ v.end = NextCut(cuts, c)
      BY <1>4, <2>2, <3>1 DEF FreeWords
    <3>3. \A d \in cuts : ~(c < d /\ d < NextCut(cuts, c))
      BY <1>1, <1>4, NextCuts
    <3>4. NextCut(cuts, c) \in cuts
      BY <1>1, <1>4, NextCuts
    <3>5. ASSUME NEW d \in cuts, c < d PROVE v.end <= d
      <4>1. \A e \in cuts : e \in Nat
        BY <1>1
      <4>2. QED
        BY <3>2, <3>3, <3>4, <3>5, <4>1
    <3>6. QED
      BY <3>2, <3>5
  <2>3. QED
    BY <2>1, <2>2
<1>. HIDE DEF free, W
<1>5. ASSUME NEW b \in 0 .. n - 1
      PROVE  \E v \in W : v.start <= b /\ b < v.end
  <2>. DEFINE T == {c \in cuts : c <= b}
  <2>1. T \in SUBSET Nat /\ 0 \in T /\ b \in Nat /\ \A c \in T : c <= b
    <3>1. b \in Nat /\ 0 <= b
      OBVIOUS
    <3>2. \A c \in cuts : c \in Nat
      BY <1>1
    <3>3. QED
      BY <1>1, <3>1, <3>2
  <2>2. PICK c \in T : \A d \in T : d <= c
    BY <2>1, GreatestElement
  <2>3. c \in cuts /\ c <= b /\ c \in Nat /\ c # n
    BY <1>1, <2>1
  <2>4. PICK v \in W : v.start = c /\ \A d \in cuts : c < d => v.end <= d
    BY <1>4, <2>3
  <2>5. v.end \in cuts /\ c < v.end /\ v.end \in Nat
    BY <1>1, <1>2, <2>4
  <2>6. ~(v.end <= b)
    <3>1. v.end <= b => v.end \in T
      BY <2>5
    <3>2. v.end \in T => v.end <= c
      BY <2>2
    <3>3. QED
      BY <2>3, <2>5, <3>1, <3>2
  <2>7. QED
    BY <2>3, <2>4, <2>5, <2>6
<1>6. ASSUME NEW v \in W
      PROVE  v.start \in Nat /\ v.end \in Nat /\ v.start < v.end /\ v.end <= n
  BY <1>1, <1>2
<1>7. QED
  BY <1>2, <1>3, <1>5, <1>6 DEF Segments, W, free

\* A word may occur in a segmentation that agrees with the annotation if one
\* can cut the text around it.
LEMMA OccursBetweenCuts ==
  ASSUME NEW lines, NEW n, NEW w
  PROVE  MayOccur(lines, n, w) <=>
           \E cuts : CutsAround(cuts, n, w) /\ Conforms(lines, FreeWords(lines, n, cuts, w) \cup {w})
BY DEF MayOccur, CutsAround, FreeWords, NextCut

\* No place where a line starts or ends is forbidden: places in a line are.
LEMMA EndsOfLinesAreFree ==
  ASSUME NEW lines, NEW n, Annotation(lines, n), NEW i \in 1 .. Len(lines) + 1
  PROVE  ~Forbidden(lines, LineStart(lines, i))
<1>. DEFINE m == Len(lines)
            At(k) == LineStart(lines, k)
<1>1. SUFFICES ASSUME NEW j \in 1 .. m,
                      NEW k \in (IF lines[j].kind = "text" THEN lines[j].joined ELSE 1 .. lines[j].length - 1),
                      At(i) = At(j) + k
               PROVE  FALSE
  BY DEF Forbidden
<1>2. m \in Nat \ {0} /\ lines[j].length \in Nat \ {0} /\ k \in 1 .. lines[j].length - 1
  BY DEF Annotation
<1>3. /\ \A a, b \in 1 .. m + 1 : a < b => At(a) < At(b)
      /\ At(j + 1) = At(j) + lines[j].length
      /\ At(j) \in 0 .. n - 1
  BY LinesInARow
<1>. HIDE DEF At
<1>4. j \in 1 .. m + 1 /\ j + 1 \in 1 .. m + 1 /\ j \in Nat /\ i \in Nat
  BY <1>2
<1>5. At(j) < At(i) /\ At(i) < At(j + 1) /\ At(j) \in Int /\ At(i) \in Int /\ At(j + 1) \in Int
  BY <1>1, <1>2, <1>3
<1>6. CASE i <= j
  <2>1. i = j \/ At(i) < At(j)
    BY <1>3, <1>4, <1>6
  <2>2. QED
    BY <1>5, <2>1
<1>7. CASE j + 1 <= i
  <2>1. i = j + 1 \/ At(j + 1) < At(i)
    BY <1>3, <1>4, <1>7
  <2>2. QED
    BY <1>5, <2>1
<1>8. QED
  BY <1>4, <1>6, <1>7

\* The tags for a word that is a line are those of this line.
LEMMA TagsOfLine ==
  ASSUME NEW lines, NEW n, Annotation(lines, n), NEW j \in 1 .. Len(lines), lines[j].kind = "word",
         NEW from \in Nat, NEW to \in Nat, from = LineStart(lines, j), to = LineStart(lines, j + 1)
  PROVE  TagsFor(lines, from, to) = lines[j].tags
<1>. DEFINE m == Len(lines)
            asking == {i \in DOMAIN lines : /\ lines[i].kind = "word"
                                            /\ LineStart(lines, i) = from /\ lines[i].length = to - from}
<1>1. m \in Nat \ {0} /\ DOMAIN lines = 1 .. m /\ lines[j].length \in Nat \ {0}
  BY DEF Annotation
<1>2. /\ \A a, b \in 1 .. m + 1 : a < b => LineStart(lines, a) < LineStart(lines, b)
      /\ LineStart(lines, j + 1) = LineStart(lines, j) + lines[j].length
  BY LinesInARow
<1>3. ASSUME NEW i \in 1 .. m, LineStart(lines, i) = from
      PROVE  i = j
  <2>1. i \in 1 .. m + 1 /\ j \in 1 .. m + 1 /\ i \in Nat /\ j \in Nat
    BY <1>1
  <2>2. ~(i < j) /\ ~(j < i)
    BY <1>2, <1>3, <2>1
  <2>3. QED
    BY <2>1, <2>2
<1>4. asking = {j}
  <2>1. j \in asking
    BY <1>1, <1>2
  <2>2. QED
    BY <1>1, <1>3, <2>1
<1>5. Min(asking) = j
  <2>1. j <= j
    BY <1>1
  <2>2. QED
    BY <1>4, <2>1 DEF Min
<1>6. TagsFor(lines, from, to) = IF asking = {} THEN <<>> ELSE lines[Min(asking)].tags
  BY DEF TagsFor
<1>. HIDE DEF asking
<1>7. QED
  BY <1>4, <1>5, <1>6

\* Cuts where every line ends, at places that no line forbids
CutsOfLines(lines, n, cuts) ==
  /\ cuts \in SUBSET (0 .. n) /\ n \in cuts
  /\ \A j \in 1 .. Len(lines) : LineStart(lines, j + 1) \in cuts
  /\ \A c \in cuts : ~Forbidden(lines, c)

\* A word between two of them is in order with every line.
LEMMA FreeWordInOrder ==
  ASSUME NEW lines, NEW n, Annotation(lines, n), NEW cuts, CutsOfLines(lines, n, cuts),
         NEW c \in cuts, c # n,
         NEW v, v = [start |-> c, end |-> NextCut(cuts, c), data |-> TagsFor(lines, c, NextCut(cuts, c))]
  PROVE  InOrderWith(lines, v)
<1>. DEFINE m == Len(lines)
            At(k) == LineStart(lines, k)
<1>1. /\ m \in Nat \ {0} /\ n \in Nat
      /\ \A j \in 1 .. m : lines[j].kind \in {"text", "word"} /\ lines[j].length \in Nat \ {0}
  BY DEF Annotation
<1>2. \A j \in 1 .. m : /\ At(j + 1) = At(j) + lines[j].length
                        /\ At(j) \in 0 .. n - 1 /\ At(j + 1) \in 1 .. n
  BY LinesInARow
<1>a. /\ cuts \in SUBSET (0 .. n) /\ n \in cuts /\ \A j \in 1 .. m : At(j + 1) \in cuts
      /\ \A x \in cuts : ~Forbidden(lines, x)
  BY DEF CutsOfLines
<1>b. \A x \in cuts : x \in Nat
  <2>1. cuts \in SUBSET (0 .. n) /\ n \in Nat
    BY <1>1, <1>a
  <2>2. QED
    BY <2>1
<1>. HIDE DEF At
<1>3. PICK d : d = NextCut(cuts, c)
  OBVIOUS
<1>4. v.start = c /\ v.end = d /\ v.data = TagsFor(lines, c, d)
  BY <1>3
<1>5. d \in cuts /\ c < d /\ (\A x \in cuts : ~(c < x /\ x < d)) /\ c \in Nat /\ d \in Nat
  <2>1. /\ NextCut(cuts, c) \in cuts /\ c < NextCut(cuts, c)
        /\ \A x \in cuts : ~(c < x /\ x < NextCut(cuts, c))
    BY <1>1, <1>a, <1>b, NextCuts
  <2>2. QED
    BY <1>a, <1>b, <1>3, <2>1
<1>6. ASSUME NEW j \in 1 .. m, lines[j].kind = "word", At(j) = c
      PROVE  lines[j].length = d - c /\ v.data = lines[j].tags
  <2>1. At(j + 1) \in cuts /\ At(j + 1) = c + lines[j].length /\ lines[j].length \in Nat \ {0}
    BY <1>1, <1>2, <1>a, <1>b, <1>6
  <2>2. d <= At(j + 1)
    <3>1. ~(c < At(j + 1) /\ At(j + 1) < d) /\ c < At(j + 1)
      BY <1>5, <2>1
    <3>2. QED
      BY <1>a, <1>b, <1>5, <2>1, <3>1
  <2>3. ~(d < At(j + 1))
    <3>1. SUFFICES ASSUME d < At(j + 1) PROVE FALSE
      OBVIOUS
    <3>2. d - c \in 1 .. lines[j].length - 1 /\ d = At(j) + (d - c)
      BY <1>5, <1>6, <2>1, <3>1
    <3>3. Forbidden(lines, d)
      BY <1>6, <3>2 DEF Forbidden, At
    <3>4. QED
      BY <1>a, <1>5, <3>3
  <2>4. d = At(j + 1) /\ lines[j].length = d - c
    <3>1. d \in Nat /\ At(j + 1) \in Nat /\ c \in Nat /\ lines[j].length \in Nat
      BY <1>a, <1>b, <1>5, <2>1
    <3>2. d = At(j + 1)
      BY <2>2, <2>3, <3>1
    <3>3. QED
      BY <2>1, <3>1, <3>2
  <2>5. TagsFor(lines, c, d) = lines[j].tags
    BY <1>5, <1>6, <2>4, TagsOfLine DEF At
  <2>6. QED
    BY <1>4, <2>4, <2>5
<1>7. \A j \in 1 .. m : ~(c < At(j + 1) /\ At(j + 1) < d)
  BY <1>a, <1>b, <1>5
<1>8. ~Forbidden(lines, c) /\ ~Forbidden(lines, d)
  BY <1>a, <1>5
<1>9. QED
  BY <1>4, <1>6, <1>7, <1>8 DEF InOrderWith, At

\* A word is in order with every line exactly if it may occur in a segmentation
\* that agrees with the annotation.
LEMMA InOrderMayOccur ==
  ASSUME NEW lines, NEW n, Annotation(lines, n),
         NEW w, w.start \in Nat, w.end \in Nat, w.start < w.end, w.end <= n
  PROVE  InOrderWith(lines, w) <=> MayOccur(lines, n, w)
<1>. DEFINE m == Len(lines)
            At(k) == LineStart(lines, k)
<1>1. /\ m \in Nat \ {0} /\ n \in Nat \ {0}
      /\ \A j \in 1 .. m : /\ lines[j].kind \in {"text", "word"} /\ lines[j].length \in Nat \ {0}
                           /\ j \in 1 .. m + 1 /\ j + 1 \in 1 .. m + 1
  BY DEF Annotation
<1>2. /\ \A j \in 1 .. m : /\ At(j + 1) = At(j) + lines[j].length
                           /\ At(j) \in 0 .. n - 1 /\ At(j + 1) \in 1 .. n
      /\ At(1) = 0 /\ At(m + 1) = n
  BY LinesInARow DEF Annotation
<1>3. \A j \in 1 .. m + 1 : ~Forbidden(lines, At(j))
  BY EndsOfLinesAreFree
<1>. HIDE DEF At
<1>4. ASSUME MayOccur(lines, n, w)
      PROVE  InOrderWith(lines, w)
  <2>1. PICK cuts : CutsAround(cuts, n, w) /\ Conforms(lines, FreeWords(lines, n, cuts, w) \cup {w})
    BY <1>4, OccursBetweenCuts
  <2>2. Segments(FreeWords(lines, n, cuts, w) \cup {w}, n)
    BY <1>1, <2>1, CutsAreSegments
  <2>3. \A v \in FreeWords(lines, n, cuts, w) \cup {w} : InOrderWith(lines, v)
    BY <2>1, <2>2, WordsDecide
  <2>4. QED
    BY <2>3
<1>5. ASSUME InOrderWith(lines, w)
      PROVE  MayOccur(lines, n, w)
  <2>. DEFINE ends == {At(j + 1) : j \in 1 .. m}
              cuts == {0, n, w.start, w.end} \cup ends
              free == FreeWords(lines, n, cuts, w)
  <2>1. \A j \in 1 .. m : ~(w.start < At(j + 1) /\ At(j + 1) < w.end)
    BY <1>5 DEF InOrderWith, At
  <2>2. CutsAround(cuts, n, w)
    <3>1. w.start \in 0 .. n /\ w.end \in 0 .. n /\ 0 \in 0 .. n /\ n \in 0 .. n
      BY <1>1
    <3>2. ends \in SUBSET (0 .. n)
      BY <1>1, <1>2
    <3>3. cuts \in SUBSET (0 .. n)
      BY <3>1, <3>2
    <3>4. ASSUME NEW c \in cuts PROVE ~(w.start < c /\ c < w.end)
      <4>1. CASE c \in ends
        BY <2>1, <4>1
      <4>2. CASE c \in {0, n, w.start, w.end}
        BY <1>1, <4>2
      <4>3. QED
        BY <4>1, <4>2
    <3>5. QED
      BY <3>3, <3>4 DEF CutsAround
  <2>3. ASSUME NEW c \in cuts PROVE ~Forbidden(lines, c)
    <3>1. CASE c \in ends
      BY <1>1, <1>3, <3>1
    <3>2. CASE c = 0 \/ c = n
      <4>1. 1 \in 1 .. m + 1 /\ m + 1 \in 1 .. m + 1
        BY <1>1
      <4>2. QED
        BY <1>2, <1>3, <3>2, <4>1
    <3>3. CASE c = w.start \/ c = w.end
      BY <1>5, <3>3 DEF InOrderWith
    <3>4. QED
      BY <3>1, <3>2, <3>3
  <2>4. /\ cuts \in SUBSET (0 .. n) /\ n \in cuts /\ \A j \in 1 .. m : At(j + 1) \in cuts
        /\ \A c \in cuts : c \in Nat
    <3>1. cuts \in SUBSET (0 .. n)
      BY <2>2 DEF CutsAround
    <3>2. n \in cuts /\ \A j \in 1 .. m : At(j + 1) \in cuts
      OBVIOUS
    <3>. HIDE DEF cuts
    <3>3. \A c \in cuts : c \in Nat
      BY <1>1, <3>1
    <3>4. QED
      BY <3>1, <3>2, <3>3
  <2>. HIDE DEF cuts, ends
  <2>5. ASSUME NEW v \in free PROVE InOrderWith(lines, v)
    <3>1. PICK c \in cuts \ {n, w.start} :
            v = [start |-> c, end |-> NextCut(cuts, c), data |-> TagsFor(lines, c, NextCut(cuts, c))]
      BY DEF FreeWords
    <3>2. CutsOfLines(lines, n, cuts)
      BY <2>3, <2>4 DEF CutsOfLines, At
    <3>3. QED
      BY <3>1, <3>2, FreeWordInOrder
  <2>6. Segments(free \cup {w}, n)
    BY <1>1, <2>2, CutsAreSegments
  <2>7. Conforms(lines, free \cup {w})
    BY <1>5, <2>5, <2>6, WordsDecide
  <2>8. QED
    BY <2>2, <2>7, OccursBetweenCuts
<1>6. QED
  BY <1>4, <1>5

\* The segmentations that agree with an annotation, if the words are as one
\* likes, are the cuts where every line ends that no line forbids.
LEMMA AgreeingCuts ==
  ASSUME NEW lines, NEW n, Annotation(lines, n), NEW cuts
  PROVE  cuts \in Agreeing(lines, n) <=> 0 \in cuts /\ CutsOfLines(lines, n, cuts)
<1>. DEFINE m == Len(lines)
            At(k) == LineStart(lines, k)
            piece(c) == [start |-> c, end |-> NextCut(cuts, c), data |-> TagsFor(lines, c, NextCut(cuts, c))]
            W == {piece(c) : c \in cuts \ {n}}
<1>1. cuts \in Agreeing(lines, n) <=> cuts \in SUBSET (0 .. n) /\ 0 \in cuts /\ n \in cuts /\ Conforms(lines, W)
  BY DEF Agreeing, NextCut
<1>2. SUFFICES ASSUME cuts \in SUBSET (0 .. n), 0 \in cuts, n \in cuts
               PROVE  Conforms(lines, W) <=> CutsOfLines(lines, n, cuts)
  BY <1>1 DEF CutsOfLines
<1>3. /\ m \in Nat \ {0} /\ n \in Nat /\ DOMAIN lines = 1 .. m
      /\ At(m + 1) = n /\ At(m + 1) \in 1 .. n /\ m + 1 \in 1 .. m + 1
  <2>1. m \in Nat \ {0} /\ n \in Nat /\ DOMAIN lines = 1 .. m /\ At(m + 1) = n
    BY DEF Annotation
  <2>2. m \in 1 .. m /\ m + 1 \in 1 .. m + 1
    BY <2>1
  <2>3. At(m + 1) \in 1 .. n
    BY <2>2, LinesInARow
  <2>4. QED
    BY <2>1, <2>2, <2>3
<1>4. n # 0 /\ n \in Nat \ {0}
  <2>. HIDE DEF At
  <2>1. QED
    BY <1>3
<1>5. \A c \in cuts : c \in Nat
  BY <1>2, <1>3
<1>6. ASSUME NEW c \in cuts, c # n
      PROVE  /\ NextCut(cuts, c) \in cuts /\ c < NextCut(cuts, c) /\ NextCut(cuts, c) \in Nat
             /\ \A d \in cuts : ~(c < d /\ d < NextCut(cuts, c))
  BY <1>2, <1>3, <1>5, <1>6, NextCuts
<1>7. \A c : piece(c).start = c /\ piece(c).end = NextCut(cuts, c)
  OBVIOUS
<1>8. Segments(W, n)
  <2>1. W = FreeWords(lines, n, cuts, piece(0)) \cup {piece(0)}
    <3>1. FreeWords(lines, n, cuts, piece(0)) = {piece(c) : c \in cuts \ {n, 0}}
      BY <1>7 DEF FreeWords
    <3>2. cuts \ {n} = (cuts \ {n, 0}) \cup {0}
      BY <1>2, <1>4
    <3>. HIDE DEF piece
    <3>3. QED
      BY <3>1, <3>2
  <2>2. piece(0).start \in Nat /\ piece(0).end \in Nat /\ piece(0).start < piece(0).end
    BY <1>2, <1>4, <1>6, <1>7
  <2>3. CutsAround(cuts, n, piece(0))
    BY <1>2, <1>4, <1>6, <1>7 DEF CutsAround
  <2>. HIDE DEF piece, W
  <2>4. QED
    BY <1>4, <2>1, <2>2, <2>3, CutsAreSegments
<1>. HIDE DEF piece
<1>9. Conforms(lines, W) <=> \A w \in W : InOrderWith(lines, w)
  <2>. HIDE DEF W
  <2>1. QED
    BY <1>8, WordsDecide
<1>10. ASSUME Conforms(lines, W)
       PROVE  CutsOfLines(lines, n, cuts)
  <2>1. ASSUME NEW c \in cuts PROVE ~Forbidden(lines, c)
    <3>1. CASE c = n
      BY <1>3, <3>1, EndsOfLinesAreFree
    <3>2. CASE c # n
      <4>1. piece(c) \in W
        BY <3>2
      <4>2. InOrderWith(lines, piece(c))
        BY <1>9, <1>10, <4>1
      <4>3. QED
        BY <1>7, <4>2 DEF InOrderWith
    <3>3. QED
      BY <3>1, <3>2
  <2>2. ASSUME NEW j \in 1 .. m PROVE At(j + 1) \in cuts
    <3>1. At(j + 1) = At(j) + lines[j].length
      BY LinesInARow
    <3>2. At(j) + lines[j].length \in {w.start : w \in W} \cup {w.end : w \in W}
      <4>. HIDE DEF W
      <4>1. QED
        BY <1>3, <1>10 DEF Conforms
    <3>3. \A w \in W : w.start \in cuts /\ w.end \in cuts
      BY <1>6, <1>7
    <3>. HIDE DEF W, At
    <3>4. QED
      BY <3>1, <3>2, <3>3
  <2>3. QED
    BY <1>2, <2>1, <2>2 DEF CutsOfLines
<1>11. ASSUME CutsOfLines(lines, n, cuts)
       PROVE  Conforms(lines, W)
  <2>1. ASSUME NEW w \in W PROVE InOrderWith(lines, w)
    <3>1. PICK c \in cuts \ {n} : w = piece(c)
      OBVIOUS
    <3>. HIDE DEF W
    <3>2. QED
      BY <1>11, <3>1, FreeWordInOrder DEF piece
  <2>. HIDE DEF W
  <2>2. QED
    BY <1>9, <2>1
<1>12. QED
  BY <1>10, <1>11

\* checkViolation names what keeps a word from occurring.
LEMMA FaultsAreNamed ==
  ASSUME NEW lines, NEW n, Annotation(lines, n),
         NEW w, w.start \in Nat, w.end \in Nat, w.start < w.end, w.end <= n
  PROVE  NamesFault(lines, n, w, CheckViolation(ReadExample(lines), w))
<1>. DEFINE m == Len(lines)
            At(k) == LineStart(lines, k)
            agreeing == Agreeing(lines, n)
            starting == {cuts \in agreeing : w.start \in cuts}
            both == {cuts \in starting : w.end \in cuts}
            inner == {b \in w.start + 1 .. w.end - 1 : \A cuts \in agreeing : b \in cuts}
            ends == {At(j) : j \in 1 .. m + 1}
<1>1. /\ m \in Nat \ {0} /\ n \in Nat /\ DOMAIN lines = 1 .. m
      /\ \A j \in 1 .. m : /\ lines[j].kind \in {"text", "word"} /\ lines[j].length \in Nat \ {0}
                           /\ j \in 1 .. m + 1 /\ j + 1 \in 1 .. m + 1
      /\ 1 \in 1 .. m + 1 /\ m + 1 \in 1 .. m + 1
  BY DEF Annotation
<1>2. /\ \A j \in 1 .. m : /\ At(j + 1) = At(j) + lines[j].length
                           /\ At(j) \in 0 .. n - 1 /\ At(j + 1) \in 1 .. n
      /\ At(1) = 0 /\ At(m + 1) = n
  BY LinesInARow DEF Annotation
<1>3. \A j \in 1 .. m + 1 : ~Forbidden(lines, At(j))
  BY EndsOfLinesAreFree
<1>. HIDE DEF At
<1>4. \A x : x \in ends => x \in 0 .. n /\ ~Forbidden(lines, x)
  <2>1. ASSUME NEW j \in 1 .. m + 1 PROVE At(j) \in 0 .. n
    <3>1. CASE j = m + 1
      BY <1>1, <1>2, <3>1
    <3>2. CASE j # m + 1
      <4>1. j \in 1 .. m
        BY <1>1, <3>2
      <4>2. QED
        BY <1>1, <1>2, <4>1
    <3>3. QED
      BY <3>1, <3>2
  <2>2. QED
    BY <1>3, <2>1
<1>5. 0 \in ends /\ n \in ends /\ \A j \in 1 .. m : At(j + 1) \in ends
  BY <1>1, <1>2
<1>6. ASSUME NEW X \in SUBSET (0 .. n), \A x \in X : ~Forbidden(lines, x)
      PROVE  ends \cup X \in agreeing
  <2>1. CutsOfLines(lines, n, ends \cup X)
    <3>. HIDE DEF ends
    <3>1. QED
      BY <1>4, <1>5, <1>6 DEF CutsOfLines, At
  <2>2. QED
    BY <1>5, <2>1, AgreeingCuts
<1>7. ASSUME NEW cuts \in agreeing
      PROVE  (\A x \in cuts : ~Forbidden(lines, x)) /\ \A j \in 1 .. m : At(j + 1) \in cuts
  BY <1>7, AgreeingCuts DEF CutsOfLines, At
<1>. HIDE DEF ends, agreeing
<1>8. w.start \in 0 .. n /\ w.end \in 0 .. n
  BY <1>1
<1>9. starting = {} <=> Forbidden(lines, w.start)
  <2>1. ASSUME ~Forbidden(lines, w.start) PROVE starting # {}
    <3>1. ends \cup {w.start} \in agreeing
      BY <1>6, <1>8, <2>1
    <3>2. QED
      BY <3>1
  <2>2. QED
    BY <1>7, <2>1
<1>10. both = {} <=> Forbidden(lines, w.start) \/ Forbidden(lines, w.end)
  <2>1. ASSUME ~Forbidden(lines, w.start), ~Forbidden(lines, w.end) PROVE both # {}
    <3>1. ends \cup {w.start, w.end} \in agreeing
      BY <1>6, <1>8, <2>1
    <3>2. QED
      BY <3>1
  <2>2. QED
    BY <1>7, <2>1
<1>11. PICK ex : ex = ReadUpTo(lines, m)
  OBVIOUS
<1>12. ReadExample(lines) = ex
  BY <1>1, <1>11, ExampleOfLines
<1>13. \A x : x \in ex.noBreak <=> Forbidden(lines, x)
  BY <1>11 DEF ReadUpTo, NoBreaksUpTo, Forbidden
<1>14. ex.boundaries = {At(j + 1) : j \in 1 .. m}
  BY <1>11 DEF ReadUpTo, BoundariesUpTo, At
<1>15. inner = Inside(ex, w)
  <2>1. ASSUME NEW b \in inner PROVE b \in Inside(ex, w)
    <3>1. b \in w.start + 1 .. w.end - 1 /\ ends \cup {} \in agreeing
      BY <1>6
    <3>2. b \in ends /\ b # 0 /\ w.start < b /\ b < w.end
      BY <3>1
    <3>3. PICK j \in 1 .. m + 1 : b = At(j)
      BY <3>2 DEF ends
    <3>4. j # 1
      BY <1>2, <3>2, <3>3
    <3>5. j - 1 \in 1 .. m /\ (j - 1) + 1 = j
      BY <1>1, <3>4
    <3>6. b \in ex.boundaries
      BY <1>14, <3>3, <3>5
    <3>7. QED
      BY <3>2, <3>6 DEF Inside
  <2>2. ASSUME NEW b \in Inside(ex, w) PROVE b \in inner
    <3>1. PICK j \in 1 .. m : b = At(j + 1)
      BY <1>14 DEF Inside
    <3>2. b \in Nat /\ w.start < b /\ b < w.end
      BY <1>1, <1>2, <3>1 DEF Inside
    <3>3. b \in w.start + 1 .. w.end - 1
      BY <3>2
    <3>4. QED
      BY <1>7, <3>1, <3>3
  <2>3. QED
    BY <2>1, <2>2
<1>16. w.start \notin ex.noBreak /\ w.end \notin ex.noBreak /\ Inside(ex, w) = {} => ~WrongLength(ex, w)
  <2>1. SUFFICES ASSUME ~Forbidden(lines, w.end), Inside(ex, w) = {}, WrongLength(ex, w)
                 PROVE  FALSE
    BY <1>13
  <2>2. PICK x \in ex.words : x.start = w.start /\ x.length # w.end - w.start
    BY <2>1 DEF WrongLength
  <2>3. PICK j \in 1 .. m : /\ lines[j].kind # "text"
                            /\ x = [start |-> At(j), length |-> lines[j].length, tags |-> lines[j].tags]
    BY <1>11, <2>2 DEF ReadUpTo, WordsUpTo, At
  <2>4. At(j) = w.start /\ lines[j].length # w.end - w.start
    BY <2>2, <2>3
  <2>5. /\ At(j) \in Nat /\ lines[j].length \in Nat \ {0} /\ At(j + 1) = At(j) + lines[j].length
        /\ At(j + 1) \in Nat
    BY <1>1, <1>2
  <2>6. ~(At(j + 1) < w.end)
    <3>1. At(j + 1) \in ex.boundaries
      BY <1>14
    <3>2. w.start < At(j + 1)
      BY <2>4, <2>5
    <3>3. QED
      BY <2>1, <3>1, <3>2 DEF Inside
  <2>7. w.end < At(j + 1)
    BY <2>4, <2>5, <2>6
  <2>8. w.end - w.start \in 1 .. lines[j].length - 1 /\ w.end = At(j) + (w.end - w.start)
    BY <2>4, <2>5, <2>7
  <2>9. Forbidden(lines, w.end)
    BY <2>3, <2>8 DEF Forbidden, At
  <2>10. QED
    BY <2>1, <2>9
<1>17. PICK v : v = CheckViolation(ex, w)
  OBVIOUS
<1>18. v = NoViolation <=> MayOccur(lines, n, w)
  BY <1>12, <1>17, NoObjection, InOrderMayOccur
<1>19. v = IF w.start \in ex.noBreak THEN Violation("WordStart", w.start)
           ELSE IF w.end \in ex.noBreak THEN Violation("WordEnd", w.end)
           ELSE IF Inside(ex, w) # {} THEN Violation("NoBoundary", Min(Inside(ex, w)))
           ELSE IF WrongTags(ex, w) THEN Violation("Tag", 0)
           ELSE NoViolation
  BY <1>16, <1>17 DEF CheckViolation
<1>20. \A k, x : Violation(k, x).kind = k /\ Violation(k, x).parameter = x
  BY DEF Violation
<1>21. NoViolation.kind = "None"
  BY <1>20 DEF NoViolation
<1>. HIDE DEF starting, both, inner
<1>22. /\ v.kind = "WordStart" <=> w.start \in ex.noBreak
       /\ v.kind = "WordEnd" <=> w.start \notin ex.noBreak /\ w.end \in ex.noBreak
       /\ v.kind = "NoBoundary" <=>
            w.start \notin ex.noBreak /\ w.end \notin ex.noBreak /\ Inside(ex, w) # {}
       /\ v.kind = "NoBoundary" => v.parameter = Min(Inside(ex, w))
       /\ v.kind = "Tag" <=>
            /\ w.start \notin ex.noBreak /\ w.end \notin ex.noBreak /\ Inside(ex, w) = {}
            /\ v # NoViolation
  BY <1>19, <1>20, <1>21
<1>23. /\ v.kind = "WordStart" <=> starting = {}
       /\ v.kind = "WordEnd" <=> starting # {} /\ both = {}
       /\ v.kind = "NoBoundary" <=> both # {} /\ inner # {}
       /\ v.kind = "NoBoundary" => v.parameter = Min(inner)
       /\ v.kind = "Tag" <=> both # {} /\ inner = {} /\ ~MayOccur(lines, n, w)
  BY <1>9, <1>10, <1>13, <1>15, <1>18, <1>22
<1>24. QED
  BY <1>12, <1>17, <1>23 DEF NamesFault, agreeing, starting, both, inner

\* The lines of the sentence are an annotation of it.
LEMMA LinesOfSentence ==
  ASSUME InputOK, AnnotationRead, Tidy(lat.lines), lat.lines # <<>>
  PROVE  Annotation(lat.lines, lat.n)
<1>1. PICK lines, n : lines = lat.lines /\ n = lat.n
  OBVIOUS
<1>2. Len(lines) \in Nat /\ DOMAIN lines = 1 .. Len(lines)
  BY <1>1, LinesRead
<1>3. n \in Nat /\ lines # <<>>
  BY <1>1 DEF InputOK
<1>4. Len(lines) # 0
  <2>1. lines \in Seq(ToSet(lines))
    BY <1>1 DEF AnnotationRead, AnnotationOf
  <2>2. QED
    BY <1>3, <2>1
<1>5. \A i \in 1 .. Len(lines) : /\ lines[i].kind \in {"text", "word"} /\ lines[i].length \in Nat
                                 /\ lines[i].length > 0
                                 /\ lines[i].joined \subseteq 1 .. lines[i].length - 1
  BY <1>1, <1>2 DEF AnnotationRead, AnnotationOf, Tidy
<1>6. LineStart(lines, Len(lines) + 1) = n
  BY <1>1, <1>3 DEF AnnotationRead, AnnotationOf
<1>7. QED
  BY <1>1, <1>2, <1>3, <1>4, <1>5, <1>6 DEF Annotation

\* AnnotationDecides in the words of checkViolation: it objects to a word exactly
\* if no segmentation with this word agrees with the lines, and a path agrees
\* with them exactly if it objects to none of its words.
LEMMA ObjectionsDecide ==
  ASSUME InputOK, AnnotationRead, Tidy(lat.lines), lat.lines # <<>>
  PROVE  /\ \A r \in 1 .. Len(lat.nodes) : Matches(r) <=> MayOccur(lat.lines, lat.n, lat.nodes[r])
         /\ \A trace \in Histories[Eos] : Allowed(trace) <=> \A i \in DOMAIN trace : Matches(trace[i])
<1>1. PICK n, lines : n = lat.n /\ lines = lat.lines
  OBVIOUS
<1>2. Annotation(lines, n) /\ lat.example = ReadExample(lines)
  BY <1>1, LinesOfSentence DEF AnnotationRead
<1>3. /\ Len(lat.nodes) \in Nat /\ DOMAIN lat.nodes = 1 .. Len(lat.nodes)
      /\ lat.nodes \in Seq([start : 0 .. n, end : 0 .. n, data : Seq(Nat)])
      /\ Eos = Len(lat.nodes) + 1 /\ n \in Nat
  BY <1>1 DEF InputOK, Eos
<1>4. ASSUME NEW r \in 1 .. Len(lat.nodes)
      PROVE  /\ Matches(r) <=> InOrderWith(lines, lat.nodes[r])
             /\ WordAt(lat, r) = lat.nodes[r]
             /\ lat.nodes[r].start \in Nat /\ lat.nodes[r].end \in Nat
             /\ lat.nodes[r].start < lat.nodes[r].end /\ lat.nodes[r].end <= n
  <2>1. WordAt(lat, r) = lat.nodes[r]
    BY DEF WordAt
  <2>2. Matches(r) <=> CheckViolation(lat.example, lat.nodes[r]) = NoViolation
    <3>1. ~(r <= Bos)
      BY <1>3 DEF Bos
    <3>2. QED
      BY <2>1, <3>1 DEF Matches, ViolationAt
  <2>3. Matches(r) <=> InOrderWith(lines, lat.nodes[r])
    BY <1>2, <2>2, NoObjection
  <2>4. lat.nodes[r].start \in 0 .. n /\ lat.nodes[r].end \in 0 .. n
    <3>1. lat.nodes[r] \in [start : 0 .. n, end : 0 .. n, data : Seq(Nat)]
      BY <1>3, ElementOfSeq
    <3>2. QED
      BY <3>1
  <2>5. lat.nodes[r].start < lat.nodes[r].end
    BY <1>3 DEF InputOK
  <2>6. lat.nodes[r].start \in Nat /\ lat.nodes[r].end \in Nat /\ lat.nodes[r].end <= n
    <3>1. \A x \in 0 .. n : x \in Nat /\ x <= n
      BY <1>3
    <3>2. QED
      BY <2>4, <3>1
  <2>7. QED
    BY <2>1, <2>3, <2>5, <2>6
<1>5. ASSUME NEW r \in 1 .. Len(lat.nodes)
      PROVE  Matches(r) <=> MayOccur(lines, n, lat.nodes[r])
  BY <1>2, <1>4, InOrderMayOccur
<1>6. ASSUME NEW trace \in Histories[Eos]
      PROVE  Allowed(trace) <=> \A i \in DOMAIN trace : Matches(trace[i])
  <2>. DEFINE WordIds == 1 .. Eos - 1
  <2>1. trace \in Seq(WordIds)
    <3>1. Eos \in 1 .. Eos
      BY <1>3
    <3>2. QED
      BY <3>1, PartsOfPaths
  <2>2. \A i \in DOMAIN trace : trace[i] \in WordIds
    <3>. HIDE DEF WordIds
    <3>1. DOMAIN trace = 1 .. Len(trace)
      BY <2>1
    <3>2. QED
      BY <2>1, <3>1, ElementOfSeq
  <2>3. \A i \in DOMAIN trace : trace[i] \in 1 .. Len(lat.nodes)
    BY <1>3, <2>2
  <2>4. Segments(Words(trace), n)
    BY <1>1, PathsAreSegments
  <2>5. Allowed(trace) <=> \A w \in Words(trace) : InOrderWith(lines, w)
    BY <1>1, <1>2, <2>4, WordsDecide DEF Allowed
  <2>6. \A i \in DOMAIN trace : InOrderWith(lines, WordAt(lat, trace[i])) <=> Matches(trace[i])
    BY <1>4, <2>3
  <2>7. QED
    BY <2>5, <2>6 DEF Words
<1>7. QED
  BY <1>1, <1>5, <1>6

\* What it objects to is what keeps a word from occurring.
LEMMA ObjectionsNameFaults ==
  ASSUME InputOK, AnnotationRead, Tidy(lat.lines), lat.lines # <<>>, NEW r \in 1 .. Len(lat.nodes)
  PROVE  NamesFault(lat.lines, lat.n, lat.nodes[r], ViolationAt(r))
<1>1. PICK n, lines, w : n = lat.n /\ lines = lat.lines /\ w = lat.nodes[r]
  OBVIOUS
<1>2. Annotation(lines, n) /\ lat.example = ReadExample(lines)
  BY <1>1, LinesOfSentence DEF AnnotationRead
<1>3. w.start \in Nat /\ w.end \in Nat /\ w.start < w.end /\ w.end <= n
  <2>1. w \in [start : 0 .. n, end : 0 .. n, data : Seq(Nat)]
    BY <1>1, ElementOfSeq DEF InputOK
  <2>2. w.start < w.end /\ n \in Nat
    BY <1>1 DEF InputOK
  <2>3. QED
    BY <2>1, <2>2
<1>4. ViolationAt(r) = CheckViolation(ReadExample(lines), w)
  BY <1>1, <1>2 DEF ViolationAt, WordAt
<1>5. QED
  BY <1>1, <1>2, <1>3, <1>4, FaultsAreNamed

\* checkViolation, which looks at one word at a time, finds what the lines mean,
\* and what is wrong first (AnnotationDecides), if no line is empty or joined at its own ends.
THEOREM AnnotationIsDecided == ScoringSpec => [](Tidy(lat.lines) => AnnotationDecides)
<1>1. ScoringInv /\ CorrectInv => (Tidy(lat.lines) => AnnotationDecides)
  <2>. SUFFICES ASSUME IInv, CorrectInv, Tidy(lat.lines) PROVE AnnotationDecides
    BY DEF ScoringInv
  <2>1. InputOK /\ AnnotationRead
    BY DEF IInv, CorrectInv
  <2>2. ASSUME lat.lines # <<>>, NEW r \in 1 .. Len(lat.nodes)
        PROVE  NamesFault(lat.lines, lat.n, lat.nodes[r], ViolationAt(r))
    BY <2>1, <2>2, ObjectionsNameFaults
  <2>3. QED
    BY <2>1, <2>2, ObjectionsDecide DEF AnnotationDecides
<1>2. QED
  BY <1>1, ScoringInvAlways, CorrectInvAlways, PTL

-------------------------------------------------------------------------------
(* The analysis of a partially annotated sentence                          *)

\* No word of a path violates the annotation.
Clean(h) == \A i \in DOMAIN h : Matches(h[i])
CanBeClean(r) == \E h \in Histories[r] : Clean(h)

\* The plugin takes from the scores of what violates the annotation.
PluginRead ==
  lat.user = "partialInput" => \A r \in 1 .. Eos : lat.penalty[r] = PluginPenalty(ViolationAt(r))

\* It takes nothing from a word that matches, and much from any other.
LEMMA PenaltyOfWord ==
  ASSUME PluginRead, lat.user = "partialInput", NEW r \in 1 .. Eos
  PROVE  /\ lat.penalty[r] \in Nat
         /\ Matches(r) => lat.penalty[r] = 0
         /\ ~Matches(r) => lat.penalty[r] >= 1000
<1>1. PICK v : v = ViolationAt(r)
  OBVIOUS
<1>2. lat.penalty[r] = PluginPenalty(v)
  BY <1>1 DEF PluginRead
<1>3. Matches(r) => v = NoViolation
  <2>1. Eos \in Nat
    BY DEF Eos
  <2>2. ~(r <= Bos)
    BY DEF Bos
  <2>3. QED
    BY <1>1, <2>2 DEF Matches
<1>4. ~Matches(r) => v.kind # "None"
  <2>1. ~Matches(r) => v # NoViolation
    BY <1>1 DEF Matches
  <2>2. v # NoViolation => v.kind # "None"
    BY <1>1 DEF ViolationAt, CheckViolation, Violation, NoViolation
  <2>3. QED
    BY <2>1, <2>2
<1>5. NoViolation.kind = "None"
  BY DEF NoViolation, Violation
<1>6. QED
  BY <1>2, <1>3, <1>4, <1>5 DEF PluginPenalty

\* The score of a longer path without the penalties
LEMMA PlainOfLongerPath ==
  ASSUME NEW r \in Nat
  PROVE  /\ PlainScore(<<>>, r) = 0 + lat.score[<<-1, Bos, r>>]
         /\ \A h \in Seq(Nat) : \A l \in Nat :
              PlainScore(<<l>> \o h, r) = PlainScore(h, l) + lat.score[<<Before(h), l, r>>]
<1>1. \A h, q : PlainScore(h, q) = SumAlong(lat.score, h, q)
  BY DEF PlainScore, SumOver, SumAlong
<1>2. PlainScore(<<>>, r) = 0 + lat.score[<<-1, Bos, r>>]
  <2>1. PICK w : w = Way(<<>>, r)
    OBVIOUS
  <2>2. <<>> \in Seq(Nat) /\ Len(<<>>) = 0
    OBVIOUS
  <2>3. w[1] = -1 /\ w[1 + 1] = Bos /\ w[1 + 2] = r
    <3>1. PICK h : h = <<>>
      OBVIOUS
    <3>2. h \in Seq(Nat) /\ Len(h) = 0
      BY <3>1
    <3>3. Way(h, r)[1] = -1 /\ Way(h, r)[2] = 0 /\ Way(h, r)[Len(h) + 3] = r
      BY <3>2, NodesAlongPath
    <3>4. QED
      BY <2>1, <3>1, <3>2, <3>3 DEF Bos
  <2>4. \A f : SumTo(f, 0 + 1) = 0 + f[0 + 1]
    BY SumOfNone, SumOfOneMore
  <2>. DEFINE f == [i \in 1 .. 0 + 1 |-> lat.score[<<w[i], w[i + 1], w[i + 2]>>]]
  <2>5. PlainScore(<<>>, r) = SumTo(f, 0 + 1)
    BY <2>1, <2>2 DEF PlainScore, SumOver
  <2>6. f[0 + 1] = lat.score[<<-1, Bos, r>>]
    BY <2>3
  <2>. HIDE DEF f
  <2>7. QED
    BY <2>4, <2>5, <2>6
<1>3. QED
  BY <1>1, <1>2, SumOfLongerPath

\* What a path with one word more has to match
LEMMA CleanOfLongerPath ==
  ASSUME NEW h \in Seq(Nat), NEW l \in Nat
  PROVE  Clean(<<l>> \o h) <=> Matches(l) /\ Clean(h)
<1>1. PICK g : g = <<l>> \o h
  OBVIOUS
<1>2. InFront(g, l, h)
  BY <1>1, OneMoreInFront
<1>3. g \in Seq(Nat)
  BY <1>1, OneMoreInFront
<1>4. /\ Len(h) \in Nat /\ Len(g) = Len(h) + 1 /\ g[1] = l
      /\ DOMAIN g = 1 .. Len(h) + 1 /\ DOMAIN h = 1 .. Len(h)
      /\ \A i \in 1 .. Len(h) : g[i + 1] = h[i]
  BY <1>2, <1>3 DEF InFront
<1>5. ASSUME Clean(g) PROVE Matches(l) /\ Clean(h)
  <2>1. 1 \in DOMAIN g
    BY <1>4
  <2>2. \A i \in 1 .. Len(h) : i + 1 \in DOMAIN g
    BY <1>4
  <2>3. QED
    BY <1>4, <1>5, <2>1, <2>2 DEF Clean
<1>6. ASSUME Matches(l), Clean(h) PROVE Clean(g)
  <2>1. SUFFICES ASSUME NEW i \in DOMAIN g PROVE Matches(g[i])
    BY DEF Clean
  <2>2. CASE i = 1
    BY <1>4, <1>6, <2>2
  <2>3. CASE i # 1
    <3>1. i - 1 \in 1 .. Len(h) /\ (i - 1) + 1 = i
      BY <1>4, <2>3
    <3>2. g[i] = h[i - 1]
      BY <1>4, <3>1
    <3>3. QED
      BY <1>4, <1>6, <3>1, <3>2 DEF Clean
  <2>4. QED
    BY <2>2, <2>3
<1>7. QED
  BY <1>1, <1>5, <1>6

\* x is what the plugin takes from a path: nothing if it is clean, else much.
Taken(x, h) == x \in Nat /\ (Clean(h) => x = 0) /\ (~Clean(h) => x >= 1000)

\* The score of a path is that without penalties, less what its words lose and
\* what its last node loses.
LEMMA ScoreLessPenalties ==
  ASSUME InputOK, PluginRead, lat.user = "partialInput"
  PROVE  \A r \in 1 .. Eos : \A h \in Histories[r] :
           /\ PlainScore(h, r) \in Int
           /\ \E x : Taken(x, h) /\ PathScore(h, r) = (PlainScore(h, r) - x) - lat.penalty[r]
<1>. DEFINE Fine(h, r) == /\ PlainScore(h, r) \in Int
                          /\ \E x : Taken(x, h) /\ PathScore(h, r) = (PlainScore(h, r) - x) - lat.penalty[r]
            S == {r \in 1 .. Eos : \A h \in Histories[r] : Fine(h, r)}
<1>1. Eos \in Nat /\ \A r \in 1 .. Eos : Start(r) \in 0 .. lat.n /\ r \in Nat
  BY NodesOfLattice
<1>2. ASSUME NEW r \in 1 .. Eos,
             \A l \in 1 .. Eos : Start(l) < Start(r) => l \in S
      PROVE  r \in S
  <2>1. SUFFICES ASSUME NEW h \in Histories[r] PROVE Fine(h, r)
    OBVIOUS
  <2>2. lat.penalty[r] \in Nat
    BY PenaltyOfWord
  <2>3. CASE Start(r) = 0
    <3>1. h = <<>> /\ Clean(h)
      BY <2>3, PathsOfLattice DEF Clean
    <3>2. <<-1, Bos, r>> \in Linked(lat)
      <4>1. PICK l, a : l = Bos /\ a = -1
        OBVIOUS
      <4>2. l \in Left(Start(r)) /\ (IF l = Bos THEN a = -1 ELSE a \in Left(Start(l)))
        BY <2>3, <4>1, NodesOfLattice
      <4>3. QED
        BY <4>1, <4>2, TrigramsHaveScores
    <3>3. lat.score[<<-1, Bos, r>>] \in Int
      BY <3>2 DEF InputOK
    <3>4. PlainScore(h, r) = 0 + lat.score[<<-1, Bos, r>>]
      BY <1>1, <3>1, PlainOfLongerPath
    <3>5. PathScore(h, r) = 0 + (lat.score[<<-1, Bos, r>>] - lat.penalty[r])
      BY <1>1, <3>1, ScoreOfFirstNode DEF TrigramScore
    <3>6. Taken(0, h)
      BY <3>1 DEF Taken
    <3>7. PathScore(h, r) = (PlainScore(h, r) - 0) - lat.penalty[r] /\ PlainScore(h, r) \in Int
      BY <2>2, <3>3, <3>4, <3>5
    <3>8. QED
      BY <3>6, <3>7
  <2>4. CASE Start(r) # 0
    <3>1. PICK l \in Left(Start(r)) : \E g \in Histories[l] : h = <<l>> \o g
      BY <2>4, HistoriesOf
    <3>2. PICK g \in Histories[l] : h = <<l>> \o g
      BY <3>1
    <3>3. l \in 1 .. Eos /\ Start(l) < Start(r) /\ l \in Nat
      BY <1>1, <2>4, <3>1, NodesOfLattice
    <3>4. g \in Seq(Nat) /\ Before(g) \in Left(Start(l))
      BY <3>3, PathsOfLattice
    <3>5. PlainScore(g, l) \in Int
          /\ \E x : Taken(x, g) /\ PathScore(g, l) = (PlainScore(g, l) - x) - lat.penalty[l]
      BY <1>2, <3>3
    <3>6. PICK x : Taken(x, g) /\ PathScore(g, l) = (PlainScore(g, l) - x) - lat.penalty[l]
      BY <3>5
    <3>7. PICK t : t = <<Before(g), l, r>>
      OBVIOUS
    <3>8. lat.score[t] \in Int
      <4>1. l # Bos
        BY <3>3, <1>1 DEF Bos
      <4>2. PICK a : a = Before(g)
        OBVIOUS
      <4>3. <<a, l, r>> \in Linked(lat)
        BY <3>1, <3>4, <4>1, <4>2, TrigramsHaveScores
      <4>4. QED
        BY <3>7, <4>2, <4>3 DEF InputOK
    <3>9. PlainScore(h, r) = PlainScore(g, l) + lat.score[t]
      BY <1>1, <3>2, <3>3, <3>4, <3>7, PlainOfLongerPath
    <3>10. PathScore(h, r) = PathScore(g, l) + (lat.score[t] - lat.penalty[r])
      <4>1. TrigramScore(t) = lat.score[t] - lat.penalty[r]
        BY <3>7 DEF TrigramScore
      <4>2. QED
        BY <1>1, <3>2, <3>3, <3>4, <3>7, <4>1, ScoreOfLongerPath
    <3>11. Taken(x + lat.penalty[l], h)
      <4>1. /\ lat.penalty[l] \in Nat /\ (Matches(l) => lat.penalty[l] = 0)
            /\ (~Matches(l) => lat.penalty[l] >= 1000)
        BY <3>3, PenaltyOfWord
      <4>2. Clean(h) <=> Matches(l) /\ Clean(g)
        BY <3>2, <3>3, <3>4, CleanOfLongerPath
      <4>3. QED
        BY <3>6, <4>1, <4>2 DEF Taken
    <3>12. PathScore(h, r) = (PlainScore(h, r) - (x + lat.penalty[l])) - lat.penalty[r]
      <4>1. lat.penalty[l] \in Nat /\ x \in Nat
        BY <3>3, <3>6, PenaltyOfWord DEF Taken
      <4>2. QED
        BY <2>2, <3>5, <3>6, <3>8, <3>9, <3>10, <4>1
    <3>13. PlainScore(h, r) \in Int
      BY <3>5, <3>8, <3>9
    <3>14. QED
      BY <3>11, <3>12, <3>13
  <2>5. QED
    BY <2>3, <2>4
<1>. HIDE DEF S
<1>3. S = 1 .. Eos
  <2>1. S \in SUBSET (1 .. Eos)
    BY DEF S
  <2>2. QED
    BY <1>2, <2>1, NodeInduction
<1>4. QED
  BY <1>3 DEF S

\* Of two paths that compete, the one without violations has the higher score.
LEMMA CleanScoresMore ==
  ASSUME InputOK, PluginRead, lat.user = "partialInput", ScoresAreSmall,
         NEW r \in 1 .. Eos, NEW s \in 1 .. Eos, Rivals(r, s),
         NEW g \in Histories[r], NEW h \in Histories[s], Clean(g), r = s \/ Matches(r),
         PathScore(h, s) >= PathScore(g, r)
  PROVE  Clean(h) /\ (r = s \/ Matches(s))
<1>1. /\ PlainScore(g, r) \in Int /\ PlainScore(h, s) \in Int
      /\ \E x : Taken(x, g) /\ PathScore(g, r) = (PlainScore(g, r) - x) - lat.penalty[r]
      /\ \E x : Taken(x, h) /\ PathScore(h, s) = (PlainScore(h, s) - x) - lat.penalty[s]
  BY ScoreLessPenalties
<1>2. PICK x : Taken(x, h) /\ PathScore(h, s) = (PlainScore(h, s) - x) - lat.penalty[s]
  BY <1>1
<1>3. PathScore(g, r) = PlainScore(g, r) - lat.penalty[r]
  <2>1. PICK y : Taken(y, g) /\ PathScore(g, r) = (PlainScore(g, r) - y) - lat.penalty[r]
    BY <1>1
  <2>2. y = 0
    BY <2>1 DEF Taken
  <2>3. QED
    BY <1>1, <2>1, <2>2
<1>4. PlainScore(h, s) - PlainScore(g, r) < 1000
  <2>1. Rivals(s, r)
    BY DEF Rivals
  <2>2. QED
    BY <2>1 DEF ScoresAreSmall
<1>5. /\ lat.penalty[r] \in Nat /\ (Matches(r) => lat.penalty[r] = 0)
      /\ lat.penalty[s] \in Nat /\ (~Matches(s) => lat.penalty[s] >= 1000)
  BY PenaltyOfWord
<1>6. x \in Nat /\ (~Clean(h) => x >= 1000)
  BY <1>2 DEF Taken
<1>7. x + lat.penalty[s] < 1000 + lat.penalty[r]
  BY <1>1, <1>2, <1>3, <1>4, <1>5, <1>6
<1>8. CASE r = s
  BY <1>5, <1>6, <1>7, <1>8
<1>9. CASE r # s
  <2>1. lat.penalty[r] = 0
    BY <1>5, <1>9
  <2>2. QED
    BY <1>5, <1>6, <1>7, <2>1
<1>10. QED
  BY <1>8, <1>9

\* While scores are those of the features alone, the total of an element is the
\* score of its path.
LEMMA TotalIsScoreBefore ==
  ASSUME IInv, pc = "score", NEW el, Points(el, bnd)
  PROVE  /\ beams[el.left][el.beam].total = ScoreBefore(el)
         /\ el.left # Bos => /\ el.left \in Processed /\ el.left \in 1 .. Eos
                             /\ Trace(el.left, el.beam) \in Histories[el.left]
<1>1. InputOK /\ PhaseOK /\ TypesOK /\ BeamsOK /\ Pure /\ bnd \in 0 .. lat.n
  BY DEF IInv, Pure, PhaseOK
<1>2. el.left \in Left(bnd) /\ el.beam \in DOMAIN beams[el.left]
  BY DEF Points
<1>3. CASE el.left = Bos
  <2>1. beams[Bos] = <<BosElement>>
    BY <1>1 DEF TypesOK
  <2>2. beams[el.left][el.beam] = BosElement
    BY <1>2, <1>3, <2>1
  <2>3. QED
    BY <1>3, <2>2 DEF ScoreBefore, BosElement, Element
<1>4. CASE el.left # Bos
  <2>1. el.left \in 1 .. Eos /\ Start(el.left) < bnd
    BY <1>1, <1>2, <1>4, NodesOfLattice
  <2>2. el.left \in Processed
    BY <2>1 DEF Processed
  <2>3. beams[el.left][el.beam].total = PathScore(Trace(el.left, el.beam), el.left)
    BY <1>1, <1>2, <2>2, TotalsOfPaths
  <2>4. PICK f : f = beams[el.left][el.beam]
    OBVIOUS
  <2>5. Trace(el.left, el.beam) = WayOf(f) /\ Points(f, Start(el.left))
    BY <1>1, <1>2, <2>1, <2>4, TraceOfElement
  <2>6. WayOf(f) \in Histories[el.left]
    BY <1>1, <2>1, <2>5, WaysArePaths
  <2>7. QED
    BY <1>4, <2>1, <2>2, <2>3, <2>5, <2>6 DEF ScoreBefore
<1>5. QED
  BY <1>3, <1>4

\* A beam begins with a path without violations wherever there is one.
TopsAreClean == \A r \in Processed : CanBeClean(r) => Clean(Trace(r, 1))

\* Therefore no element to the left of a boundary is better than one without.
LEMMA BestOfLeftIsClean ==
  ASSUME IInv, pc = "score", PluginRead, lat.user = "partialInput", ScoresAreSmall, TopsAreClean,
         NEW r \in Right(bnd), CanBeClean(r),
         NEW d \in Candidates(bnd), \A c \in Candidates(bnd) : d.total >= c.total
  PROVE  Clean(WayOf(d))
<1>1. InputOK /\ PhaseOK /\ TypesOK /\ BeamsOK /\ Pure /\ bnd \in 0 .. lat.n /\ lat.n \in Nat
  BY NodesOfLattice DEF IInv, Pure, PhaseOK
<1>2. r \in 1 .. Eos /\ Start(r) = bnd
  BY <1>1, NodesOfLattice
<1>3. /\ \A c \in Candidates(bnd) : Points(c, bnd) /\ c.total = beams[c.left][c.beam].total
      /\ \A l \in Left(bnd) : \A k \in DOMAIN beams[l] :
           \E c \in Candidates(bnd) : c.left = l /\ c.beam = k
  BY <1>1, CandidatesOfBoundary
<1>4. CASE bnd = 0
  <2>1. d.left = Bos
    BY <1>1, <1>3, <1>4, NodesOfLattice DEF Points
  <2>2. WayOf(d) = <<>>
    BY <2>1 DEF WayOf
  <2>3. QED
    BY <2>2 DEF Clean
<1>5. CASE bnd # 0
  <2>1. PICK h \in Histories[r] : Clean(h)
    BY DEF CanBeClean
  <2>2. PICK l \in Left(bnd) : \E g \in Histories[l] : h = <<l>> \o g
    BY <1>1, <1>2, <1>5, HistoriesOf
  <2>3. PICK g \in Histories[l] : h = <<l>> \o g
    BY <2>2
  <2>4. l \in 1 .. Eos /\ Start(l) < bnd /\ l \in Nat /\ l # Bos
    BY <1>1, <1>5, <2>2, NodesOfLattice
  <2>5. g \in Seq(Nat)
    BY <1>1, <2>4, PathsOfLattice
  <2>6. Matches(l) /\ Clean(g)
    BY <2>1, <2>3, <2>4, <2>5, CleanOfLongerPath
  <2>7. l \in Processed
    BY <2>4 DEF Processed
  <2>8. Clean(Trace(l, 1))
    BY <2>3, <2>6, <2>7 DEF TopsAreClean, CanBeClean
  <2>9. 1 \in DOMAIN beams[l]
    <3>1. beams[l] # <<>>
      BY <2>3, <2>7, NodesWithPaths DEF NoNodeLost
    <3>2. beams[l] \in Seq(Elements)
      BY <1>1, <2>4, NodesOfLattice DEF TypesOK, NodeIds
    <3>. HIDE DEF Elements
    <3>3. QED
      BY <3>1, <3>2, EmptySeq, LenProperties
  <2>10. PICK c \in Candidates(bnd) : c.left = l /\ c.beam = 1
    BY <1>3, <2>2, <2>9
  <2>11. c.total = PathScore(Trace(l, 1), l) /\ Trace(l, 1) \in Histories[l]
    <3>1. Points(c, bnd) /\ c.total = beams[l][1].total
      BY <1>3, <2>10
    <3>2. QED
      BY <2>4, <2>10, <3>1, TotalIsScoreBefore DEF ScoreBefore
  <2>12. PICK m, k : m = d.left /\ k = d.beam
    OBVIOUS
  <2>13. Points(d, bnd) /\ m \in Left(bnd) /\ m # Bos /\ m \in 1 .. Eos /\ m \in Nat
    <3>1. Points(d, bnd)
      BY <1>3
    <3>2. m \in Left(bnd)
      BY <2>12, <3>1 DEF Points
    <3>3. QED
      BY <1>1, <1>5, <3>1, <3>2, NodesOfLattice
  <2>14. d.total = PathScore(Trace(m, k), m) /\ Trace(m, k) \in Histories[m]
    <3>1. d.total = beams[m][k].total
      BY <1>3, <2>12
    <3>2. QED
      BY <2>12, <2>13, <3>1, TotalIsScoreBefore DEF ScoreBefore
  <2>15. Rivals(l, m)
    BY <1>1, <1>5, <2>2, <2>13 DEF Rivals
  <2>16. PathScore(Trace(m, k), m) >= PathScore(Trace(l, 1), l)
    BY <2>10, <2>11, <2>14
  <2>17. Clean(Trace(m, k)) /\ (l = m \/ Matches(m))
    BY <1>1, <2>4, <2>6, <2>8, <2>11, <2>13, <2>14, <2>15, <2>16, CleanScoresMore
  <2>18. Trace(m, k) \in Seq(Nat)
    BY <1>1, <2>13, <2>14, PathsOfLattice
  <2>19. WayOf(d) = <<m>> \o Trace(m, k)
    BY <2>12, <2>13 DEF WayOf
  <2>20. QED
    BY <2>6, <2>13, <2>17, <2>18, <2>19, CleanOfLongerPath
<1>6. QED
  BY <1>4, <1>5

\* Nor is what extends the best element on the left worse than any that extends
\* a path with violations.
LEMMA TopOfNodeIsClean ==
  ASSUME IInv, pc = "score", PluginRead, lat.user = "partialInput", ScoresAreSmall, TopsAreClean,
         NEW r \in Right(bnd), CanBeClean(r),
         NEW d \in Candidates(bnd), \A c \in Candidates(bnd) : d.total >= c.total,
         NEW el, Points(el, bnd),
         el.total = beams[el.left][el.beam].total + FeatureScore(el, r),
         el.total >= Extended(d, r).total
  PROVE  Clean(WayOf(el))
<1>1. InputOK /\ PhaseOK /\ TypesOK /\ BeamsOK /\ bnd \in 0 .. lat.n
  BY DEF IInv, PhaseOK
<1>2. r \in 1 .. Eos /\ Start(r) = bnd
  BY <1>1, NodesOfLattice
<1>3. Clean(WayOf(d))
  BY BestOfLeftIsClean
<1>4. Points(d, bnd) /\ d.total = beams[d.left][d.beam].total
  BY <1>1, CandidatesOfBoundary
<1>5. ASSUME NEW e, Points(e, bnd)
      PROVE  /\ WayOf(e) \in Histories[r]
             /\ PathScore(WayOf(e), r) = beams[e.left][e.beam].total + FeatureScore(e, r)
  BY <1>1, <1>2, <1>5, WaysArePaths, TotalIsScoreBefore
<1>6. Extended(d, r).total = PathScore(WayOf(d), r)
  BY <1>4, <1>5 DEF Extended, Element
<1>7. PathScore(WayOf(el), r) >= PathScore(WayOf(d), r)
  BY <1>5, <1>6
<1>8. Rivals(r, r)
  BY DEF Rivals
<1>9. QED
  BY <1>1, <1>2, <1>3, <1>4, <1>5, <1>7, <1>8, CleanScoresMore

-------------------------------------------------------------------------------

\* The first of a beam is the best of all that it is made of.
LEMMA FirstIsBest ==
  ASSUME NEW S \in SUBSET Elements, IsFiniteSet(S), S # {}, NEW k \in Nat \ {0},
         NEW s \in BestBeams(S, k)
  PROVE  1 \in DOMAIN s /\ s[1] \in S /\ \A c \in S : s[1].total >= c.total
<1>1. /\ s \in Seq(Elements) /\ DOMAIN s = 1 .. Len(s) /\ s # <<>>
      /\ \A i \in DOMAIN s : s[i] \in S
      /\ \A i, j \in DOMAIN s : i < j => s[i].total >= s[j].total
      /\ \A c \in S : (\E i \in DOMAIN s : s[i] = c) \/ \A i \in DOMAIN s : s[i].total >= c.total
  <2>. HIDE DEF Elements
  <2>1. QED
    BY BestBeamsProperties
<1>2. 1 \in DOMAIN s
  <2>. HIDE DEF Elements
  <2>1. QED
    BY <1>1, EmptySeq, LenProperties
<1>3. \A c \in S : c.total \in Int
  BY DEF Elements
<1>4. ASSUME NEW c \in S PROVE s[1].total >= c.total
  <2>1. CASE \E i \in DOMAIN s : s[i] = c
    <3>1. PICK i \in DOMAIN s : s[i] = c
      BY <2>1
    <3>2. i = 1 \/ 1 < i
      BY <1>1
    <3>3. QED
      BY <1>1, <1>2, <1>3, <3>1, <3>2
  <2>2. CASE \A i \in DOMAIN s : s[i].total >= c.total
    BY <1>2, <2>2
  <2>3. QED
    BY <1>1, <2>1, <2>2
<1>5. QED
  BY <1>1, <1>2, <1>4

\* There is something to the left of a node to which a path leads.
LEMMA CandidatesIfPath ==
  ASSUME IInv, pc = "score", NEW r \in Right(bnd), NEW h \in Histories[r]
  PROVE  Candidates(bnd) # {}
<1>1. InputOK /\ PhaseOK /\ TypesOK /\ BeamsOK /\ bnd \in 0 .. lat.n
  BY DEF IInv, PhaseOK
<1>2. r \in 1 .. Eos /\ Start(r) = bnd
  BY <1>1, NodesOfLattice
<1>3. \E l \in Left(bnd) : beams[l] # <<>>
  <2>1. CASE bnd = 0
    <3>1. Bos \in Left(bnd) /\ beams[Bos] = <<BosElement>>
      BY <1>1, <2>1, NodesOfLattice DEF TypesOK
    <3>2. \A x : <<x>> # <<>>
      OBVIOUS
    <3>3. beams[Bos] # <<>>
      BY <3>1, <3>2
    <3>4. QED
      BY <3>1, <3>3
  <2>2. CASE bnd # 0
    <3>1. PICK l \in Left(bnd) : \E g \in Histories[l] : h = <<l>> \o g
      BY <1>1, <1>2, <2>2, HistoriesOf
    <3>2. l \in 1 .. Eos /\ Start(l) < bnd
      BY <1>1, <2>2, <3>1, NodesOfLattice
    <3>3. l \in Processed
      BY <3>2 DEF Processed
    <3>4. beams[l] # <<>>
      BY <3>1, <3>3, NodesWithPaths DEF NoNodeLost
    <3>5. QED
      BY <3>4
  <2>3. QED
    BY <2>1, <2>2
<1>4. QED
  BY <1>1, <1>3, CandidatesOrNone

\* A beam that is made of the best on its left, and others, has a path without
\* violations first, if there is one.
LEMMA CleanOfCandidates ==
  ASSUME IInv, pc = "score", PluginRead, lat.user = "partialInput", ScoresAreSmall, TopsAreClean,
         NEW r \in Right(bnd), CanBeClean(r),
         NEW F \in SUBSET Candidates(bnd),
         NEW d \in F, \A c \in Candidates(bnd) : d.total >= c.total,
         NEW s \in BestBeams(Extensions(F, r), cfg.beam)
  PROVE  1 \in DOMAIN s /\ Points(s[1], bnd) /\ Clean(WayOf(s[1]))
<1>1. InputOK /\ PhaseOK /\ TypesOK /\ BeamsOK /\ bnd \in 0 .. lat.n
  BY DEF IInv, PhaseOK
<1>2. r \in 1 .. Eos /\ Start(r) = bnd
  BY <1>1, NodesOfLattice
<1>3. /\ s \in Seq(Elements) /\ DOMAIN s = 1 .. Len(s)
      /\ \A k \in DOMAIN s : Points(s[k], bnd)
      /\ s # <<>> /\ ScoredOf(s, r)
      /\ \/ \E k \in DOMAIN s : SamePlace(s[k], d)
         \/ \A k \in DOMAIN s : s[k].total >= Extended(d, r).total
  BY <1>1, <1>2, BeamOfCandidates
<1>4. 1 \in DOMAIN s
  <2>. HIDE DEF Elements
  <2>1. QED
    BY <1>3, EmptySeq, LenProperties
<1>5. s[1].total = beams[s[1].left][s[1].beam].total + FeatureScore(s[1], r)
  BY <1>3, <1>4 DEF ScoredOf
<1>6. s[1].total >= Extended(d, r).total
  <2>1. CASE \A k \in DOMAIN s : s[k].total >= Extended(d, r).total
    BY <1>4, <2>1
  <2>2. CASE \E k \in DOMAIN s : SamePlace(s[k], d)
    <3>1. PICK k \in DOMAIN s : SamePlace(s[k], d)
      BY <2>2
    <3>2. FeatureScore(s[k], r) = FeatureScore(d, r)
      BY <3>1 DEF FeatureScore, T2, SamePlace
    <3>3. d.total = beams[d.left][d.beam].total
      BY <1>1, CandidatesOfBoundary
    <3>4. s[k].total = Extended(d, r).total
      BY <1>3, <3>1, <3>2, <3>3 DEF ScoredOf, SamePlace, Extended, Element
    <3>5. s[1].total >= s[k].total
      <4>1. k = 1 \/ 1 < k
        BY <1>3
      <4>2. s[1].total \in Int
        <5>. DEFINE e == s[1]
        <5>1. e \in Elements
          <6>. HIDE DEF Elements
          <6>1. QED
            BY <1>3, <1>4, ElementOfSeq
        <5>2. QED
          BY <5>1 DEF Elements
      <4>3. QED
        BY <1>3, <1>4, <4>1, <4>2 DEF ScoredOf
    <3>6. QED
      BY <3>4, <3>5
  <2>3. QED
    BY <1>3, <2>1, <2>2
<1>7. QED
  BY <1>3, <1>4, <1>5, <1>6, TopOfNodeIsClean

-------------------------------------------------------------------------------
(* What does not change while a sentence is analysed                       *)

LEMMA AnnotationStays ==
  ASSUME lat' = lat, cfg' = cfg
  PROVE  /\ PluginRead' <=> PluginRead
         /\ \A r : Matches(r)' <=> Matches(r)
         /\ \A h : Clean(h)' <=> Clean(h)
         /\ \A r : CanBeClean(r)' <=> CanBeClean(r)
         /\ ScoresAreSmall' <=> ScoresAreSmall
<1>1. Histories' = Histories /\ Eos' = Eos /\ \A b : Left(b)' = Left(b)
  BY HistoriesStay, LatticeStays
<1>2. \A r : ViolationAt(r)' = ViolationAt(r) /\ (Matches(r)' <=> Matches(r))
  BY DEF ViolationAt, Matches, Bos
<1>3. \A h : Clean(h)' <=> Clean(h)
  BY <1>2 DEF Clean
<1>4. \A r : CanBeClean(r)' <=> CanBeClean(r)
  BY <1>1, <1>3 DEF CanBeClean
<1>5. PluginRead' <=> PluginRead
  BY <1>1, <1>2 DEF PluginRead
<1>6. ScoresAreSmall' <=> ScoresAreSmall
  <2>1. \A h, r : PlainScore(h, r)' = PlainScore(h, r)
    BY DEF PlainScore, SumOver, SumTo, Way, Bos
  <2>2. \A h : PlainScores(h)' = PlainScores(h)
    <3>1. PICK e : e = Eos
      OBVIOUS
    <3>2. \A h : PlainScore(h, Eos)' = PlainScore(h, e)'
      BY <1>1, <3>1
    <3>3. \A h : SumOver(LAMBDA t : lat.extra[t], h, Eos)' = SumOver(LAMBDA t : lat.extra[t], h, Eos)
      BY <1>1 DEF SumOver, SumTo, Way, Bos
    <3>4. \A h : PlainScore(h, Eos)' = PlainScore(h, Eos)
      BY <2>1, <3>1, <3>2
    <3>5. QED
      BY <3>3, <3>4 DEF PlainScores
  <2>3. \A r, s : Rivals(r, s)' <=> Rivals(r, s)
    BY <1>1 DEF Rivals
  <2>4. QED
    BY <1>1, <2>1, <2>2, <2>3 DEF ScoresAreSmall
<1>7. QED
  BY <1>2, <1>3, <1>4, <1>5, <1>6

\* What is before an element of a beam, without assumptions
LEMMA TraceAlways ==
  InputOK /\ TypesOK /\ BeamsOK =>
    \A r \in 1 .. Eos : \A k \in DOMAIN beams[r] :
      Trace(r, k) = WayOf(beams[r][k]) /\ Points(beams[r][k], Start(r))
BY TraceOfElement

\* Paths stay as long as no pointer on them changes.
LEMMA TracesStay ==
  ASSUME InputOK, TypesOK, BeamsOK, InputOK', TypesOK', BeamsOK', lat' = lat,
         NEW G \in SUBSET (1 .. Eos),
         \A r \in G : \A l \in Left(Start(r)) : l = Bos \/ l \in G,
         \A r \in G : /\ DOMAIN beams'[r] = DOMAIN beams[r]
                      /\ \A k \in DOMAIN beams[r] : SamePlace(beams'[r][k], beams[r][k])
  PROVE  \A r \in G : \A k \in DOMAIN beams[r] : Trace(r, k)' = Trace(r, k)
<1>. DEFINE S == {r \in 1 .. Eos : r \in G => \A k \in DOMAIN beams[r] : Trace(r, k)' = Trace(r, k)}
<1>1. Eos' = Eos /\ \A r : Start(r)' = Start(r)
  BY LatticeStays
<1>2. (InputOK /\ TypesOK /\ BeamsOK =>
        \A r \in 1 .. Eos : \A k \in DOMAIN beams[r] :
          Trace(r, k) = WayOf(beams[r][k]) /\ Points(beams[r][k], Start(r)))'
  BY TraceAlways, PTL
<1>3. \A r \in 1 .. Eos : \A k \in DOMAIN beams'[r] : Trace(r, k)' = WayOf(beams[r][k])'
  BY <1>1, <1>2
<1>4. \A r \in 1 .. Eos : \A k \in DOMAIN beams[r] :
        Trace(r, k) = WayOf(beams[r][k]) /\ Points(beams[r][k], Start(r))
  BY TraceOfElement
<1>5. ASSUME NEW r \in 1 .. Eos,
             \A l \in 1 .. Eos : Start(l) < Start(r) => l \in S
      PROVE  r \in S
  <2>1. SUFFICES ASSUME r \in G, NEW k \in DOMAIN beams[r] PROVE Trace(r, k)' = Trace(r, k)
    OBVIOUS
  <2>2. PICK el, new : el = beams[r][k] /\ new = beams'[r][k]
    OBVIOUS
  <2>3. new.left = el.left /\ new.beam = el.beam
    BY <2>1, <2>2 DEF SamePlace
  <2>4. Trace(r, k) = WayOf(el) /\ el.left \in Left(Start(r)) /\ el.beam \in DOMAIN beams[el.left]
    BY <1>4, <2>2 DEF Points
  <2>5. Trace(r, k)' = IF new.left = Bos THEN <<>> ELSE <<new.left>> \o Trace(new.left, new.beam)'
    <3>1. k \in DOMAIN beams'[r]
      BY <2>1
    <3>2. Trace(r, k)' = WayOf(beams[r][k])'
      BY <1>3, <3>1
    <3>3. WayOf(beams[r][k])' = IF new.left = Bos THEN <<>> ELSE <<new.left>> \o Trace(new.left, new.beam)'
      BY <2>2 DEF WayOf, Bos
    <3>4. QED
      BY <3>2, <3>3
  <2>6. CASE el.left = Bos
    BY <2>3, <2>4, <2>5, <2>6 DEF WayOf
  <2>7. CASE el.left # Bos
    <3>1. el.left \in G /\ el.left \in 1 .. Eos
      BY <2>1, <2>4, <2>7
    <3>2. Start(el.left) < Start(r)
      <4>1. Start(r) \in 0 .. lat.n
        BY NodesOfLattice
      <4>2. QED
        BY <2>4, <2>7, <4>1, NodesOfLattice
    <3>3. Trace(el.left, el.beam)' = Trace(el.left, el.beam)
      BY <1>5, <2>4, <3>1, <3>2
    <3>4. PICK l, b : l = el.left /\ b = el.beam
      OBVIOUS
    <3>5. Trace(l, b)' = Trace(l, b)
      BY <3>3, <3>4
    <3>6. Trace(new.left, new.beam)' = Trace(l, b)'
      BY <2>3, <3>4
    <3>7. QED
      BY <2>3, <2>4, <2>5, <2>7, <3>4, <3>5, <3>6 DEF WayOf
  <2>8. QED
    BY <2>6, <2>7
<1>. HIDE DEF S
<1>6. S = 1 .. Eos
  <2>1. S \in SUBSET (1 .. Eos)
    BY DEF S
  <2>2. QED
    BY <1>5, <2>1, NodeInduction
<1>7. QED
  BY <1>6 DEF S

-------------------------------------------------------------------------------
(* The beams prefer what agrees with the annotation                        *)

\* With additional scorers it is the last global beam that matters: EOS gets its
\* beam from it.
CleanInGlobal == \E i \in DOMAIN gbeam[lat.n] : Clean(WayOf(gbeam[lat.n][i]))

TopsHonour ==
  /\ ~cfg.extra \/ pc = "score" => TopsAreClean
  /\ cfg.extra /\ pc # "score" /\ CanBeClean(Eos) => CleanInGlobal

\* The inductive invariant of the analysis of annotated text, with that of the
\* beams
HonourInv ==
  /\ PluginRead
  /\ lat.user = "partialInput" /\ ScoresAreSmall => TopsHonour

\* Before the analysis the plugin has read the annotation, and no node has been
\* processed.
LEMMA InitHonourInv == Init => HonourInv
<1>. SUFFICES ASSUME Init PROVE HonourInv
  OBVIOUS
<1>1. PICK job \in Jobs : \E q \in job.problems : lat = Prepared(q)
  BY DEF Init
<1>2. PICK p \in job.problems : lat = Prepared(p)
  BY <1>1
<1>3. PluginRead
  <2>1. /\ lat.user = p.user /\ lat.example = ReadExample(p.lines) /\ lat.n = p.n /\ lat.nodes = p.nodes
        /\ lat.penalty = [r \in 1 .. Len(p.nodes) + 1 |->
                            IF p.user = "partialInput"
                            THEN PluginPenalty(CheckViolation(ReadExample(p.lines), WordAt(p, r))) ELSE 0]
    BY <1>2 DEF Prepared
  <2>2. \A r : WordAt(lat, r) = WordAt(p, r)
    BY <2>1 DEF WordAt
  <2>3. ASSUME lat.user = "partialInput", NEW r \in 1 .. Eos
        PROVE  lat.penalty[r] = PluginPenalty(ViolationAt(r))
    <3>1. r \in 1 .. Len(p.nodes) + 1
      BY <2>1 DEF Eos
    <3>2. lat.penalty[r] = PluginPenalty(CheckViolation(ReadExample(p.lines), WordAt(p, r)))
      BY <2>1, <2>3, <3>1
    <3>3. ViolationAt(r) = CheckViolation(ReadExample(p.lines), WordAt(p, r))
      BY <2>1, <2>2 DEF ViolationAt
    <3>4. QED
      BY <3>2, <3>3
  <2>4. QED
    BY <2>3 DEF PluginRead
<1>4. Processed = {}
  <2>1. InputOK /\ pc = "score" /\ bnd = 0
    BY InitInputOK DEF Init
  <2>2. \A r \in 1 .. Eos : Start(r) \in 0 .. lat.n
    BY <2>1, NodesOfLattice
  <2>3. QED
    BY <2>1, <2>2 DEF Processed
<1>5. TopsHonour
  BY <1>4 DEF TopsHonour, TopsAreClean, Init
<1>6. QED
  BY <1>3, <1>5 DEF HonourInv

\* What an element stands for stays with the paths to its left.
LEMMA WayStays ==
  ASSUME NEW el,
         el.left # Bos => Trace(el.left, el.beam)' = Trace(el.left, el.beam)
  PROVE  WayOf(el)' = WayOf(el)
BY DEF WayOf, Bos

\* The paths to what has been processed are not touched by the next boundary.
LEMMA PathsAfterScore ==
  ASSUME IInv, IInv', pc = "score", lat' = lat,
         \A r \in NodeIds \ Right(bnd) : beams'[r] = beams[r]
  PROVE  /\ \A r \in Processed : \A k \in DOMAIN beams[r] : Trace(r, k)' = Trace(r, k)
         /\ \A el : Points(el, bnd) => WayOf(el)' = WayOf(el)
<1>1. InputOK /\ TypesOK /\ BeamsOK /\ PhaseOK /\ InputOK' /\ TypesOK' /\ BeamsOK'
      /\ bnd \in 0 .. lat.n
  BY DEF IInv, PhaseOK
<1>2. Processed = {r \in 1 .. Eos : Start(r) < bnd} /\ NodeIds = 0 .. Eos /\ Eos \in Nat
      /\ \A r \in Right(bnd) : r \in 1 .. Eos /\ Start(r) = bnd
  BY <1>1, NodesOfLattice DEF Processed
<1>3. \A b \in 0 .. lat.n : \A l \in Left(b) : l = Bos \/ (l \in 1 .. Eos /\ Start(l) < b /\ Start(l) \in 0 .. lat.n)
  BY <1>1, NodesOfLattice
<1>4. \A r \in Processed : \A l \in Left(Start(r)) : l = Bos \/ l \in Processed
  <2>1. TAKE r \in Processed
  <2>2. r \in 1 .. Eos /\ Start(r) < bnd /\ Start(r) \in 0 .. lat.n
    BY <1>1, <1>2, NodesOfLattice
  <2>3. \A l \in Left(Start(r)) : l = Bos \/ (l \in 1 .. Eos /\ Start(l) < bnd)
    BY <1>1, <1>3, <2>2
  <2>4. QED
    BY <1>2, <2>3
<1>5. \A r \in Processed : beams'[r] = beams[r]
  <2>1. \A r \in Processed : r \in NodeIds \ Right(bnd)
    BY <1>1, <1>2
  <2>2. QED
    BY <2>1
<1>6. \A r \in Processed : \A k \in DOMAIN beams[r] : Trace(r, k)' = Trace(r, k)
  <2>1. Processed \in SUBSET (1 .. Eos)
    BY <1>2
  <2>2. \A r \in Processed : /\ DOMAIN beams'[r] = DOMAIN beams[r]
                             /\ \A k \in DOMAIN beams[r] : SamePlace(beams'[r][k], beams[r][k])
    BY <1>5 DEF SamePlace
  <2>3. QED
    BY <1>1, <1>4, <2>1, <2>2, TracesStay
<1>7. ASSUME NEW el, Points(el, bnd) PROVE WayOf(el)' = WayOf(el)
  <2>1. el.left \in Left(bnd) /\ el.beam \in DOMAIN beams[el.left]
    BY <1>7 DEF Points
  <2>2. PICK l, b : l = el.left /\ b = el.beam
    OBVIOUS
  <2>3. l # Bos => Trace(l, b)' = Trace(l, b)
    BY <1>1, <1>2, <1>3, <1>6, <2>1, <2>2
  <2>4. el.left # Bos => Trace(el.left, el.beam)' = Trace(el.left, el.beam)
    BY <2>2, <2>3
  <2>5. QED
    BY <2>4, WayStays
<1>8. QED
  BY <1>6, <1>7

\* A node whose boundary is processed gets its beam, and keeps it.
LEMMA CleanAfterScore ==
  ASSUME IInv, IInv', pc = "score", lat' = lat, cfg' = cfg, TopsAreClean,
         \/ bnd < lat.n /\ bnd' = bnd + 1 /\ pc' = "score"
         \/ bnd = lat.n /\ pc' # "score",
         \A r \in NodeIds \ Right(bnd) : beams'[r] = beams[r],
         \A r \in Right(bnd) :
           CanBeClean(r) => /\ 1 \in DOMAIN beams'[r] /\ Points(beams'[r][1], bnd)
                            /\ Clean(WayOf(beams'[r][1]))
  PROVE  TopsAreClean'
<1>1. InputOK /\ TypesOK /\ BeamsOK /\ PhaseOK /\ InputOK' /\ TypesOK' /\ BeamsOK'
      /\ bnd \in 0 .. lat.n
  BY DEF IInv, PhaseOK
<1>2. Processed' = Processed \cup Right(bnd) /\ Processed \subseteq 1 .. Eos
  BY <1>1, ProcessedAfter
<1>3. Eos' = Eos /\ (\A r : Start(r)' = Start(r)) /\ NodeIds = 0 .. Eos
      /\ \A r \in Right(bnd) : r \in 1 .. Eos /\ Start(r) = bnd
  BY <1>1, LatticeStays, NodesOfLattice
<1>4. /\ \A h : Clean(h)' <=> Clean(h)
      /\ \A r : CanBeClean(r)' <=> CanBeClean(r)
  BY AnnotationStays
<1>5. /\ \A r \in Processed : \A k \in DOMAIN beams[r] : Trace(r, k)' = Trace(r, k)
      /\ \A el : Points(el, bnd) => WayOf(el)' = WayOf(el)
  BY PathsAfterScore
<1>6. \A r \in 1 .. Eos : \A k \in DOMAIN beams'[r] : Trace(r, k)' = WayOf(beams[r][k])'
  <2>1. (InputOK /\ TypesOK /\ BeamsOK =>
          \A r \in 1 .. Eos : \A k \in DOMAIN beams[r] :
            Trace(r, k) = WayOf(beams[r][k]) /\ Points(beams[r][k], Start(r)))'
    BY TraceAlways, PTL
  <2>2. QED
    BY <1>1, <1>3, <2>1
<1>7. ASSUME NEW r \in Processed, CanBeClean(r)
      PROVE  Clean(Trace(r, 1)')
  <2>1. Clean(Trace(r, 1))
    BY <1>7 DEF TopsAreClean
  <2>2. 1 \in DOMAIN beams[r]
    <3>1. beams[r] # <<>>
      BY <1>7, NodesWithPaths DEF NoNodeLost, CanBeClean
    <3>2. beams[r] \in Seq(Elements)
      BY <1>1, <1>2, <1>3, <1>7 DEF TypesOK
    <3>. HIDE DEF Elements
    <3>3. QED
      BY <3>1, <3>2, EmptySeq, LenProperties
  <2>3. QED
    BY <1>5, <2>1, <2>2
<1>8. ASSUME NEW r \in Right(bnd), CanBeClean(r)
      PROVE  Clean(Trace(r, 1)')
  <2>1. PICK el : el = beams'[r][1]
    OBVIOUS
  <2>2. 1 \in DOMAIN beams'[r] /\ Points(el, bnd) /\ Clean(WayOf(el))
    BY <1>8, <2>1
  <2>3. Trace(r, 1)' = WayOf(beams[r][1])'
    BY <1>3, <1>6, <2>2
  <2>4. WayOf(beams[r][1])' = WayOf(el)'
    BY <2>1
  <2>5. QED
    BY <1>5, <2>2, <2>3, <2>4
<1>9. \A r \in Processed' : CanBeClean(r)' => Clean(Trace(r, 1)')
  BY <1>2, <1>4, <1>7, <1>8
<1>10. \A r : Clean(Trace(r, 1)') <=> Clean(Trace(r, 1))'
  BY <1>4
<1>11. QED
  BY <1>9, <1>10 DEF TopsAreClean

\* All the candidates of a boundary, extended by a node
LEMMA ExtensionsAreElements ==
  ASSUME InputOK, TypesOK, BeamsOK, NEW b \in 0 .. lat.n, NEW r \in Right(b)
  PROVE  Extensions(Candidates(b), r) \in SUBSET Elements /\ IsFiniteSet(Extensions(Candidates(b), r))
<1>1. r \in 1 .. Eos /\ Start(r) = b
  BY NodesOfLattice
<1>2. Candidates(b) \in SUBSET Elements /\ IsFiniteSet(Candidates(b))
      /\ \A c \in Candidates(b) : Points(c, b)
  BY CandidatesOfBoundary
<1>3. \A c \in Candidates(b) : Extended(c, r) \in Elements
  <2>1. TAKE c \in Candidates(b)
  <2>2. FeatureScore(c, r) \in Int
    BY <1>1, <1>2, PointersHaveScores
  <2>3. c.left \in Int /\ c.beam \in Nat /\ c.total \in Int
    BY <1>2 DEF Elements
  <2>4. QED
    BY <2>2, <2>3 DEF Extended, Element, Elements
<1>. DEFINE f == [c \in Candidates(b) |-> Extended(c, r)]
<1>4. f = [c \in Candidates(b) |-> f[c]] /\ Extensions(Candidates(b), r) = {f[c] : c \in Candidates(b)}
  BY DEF Extensions
<1>. HIDE DEF f
<1>5. IsFiniteSet(Extensions(Candidates(b), r))
  BY <1>2, <1>4, ImageIsFinite
<1>6. QED
  BY <1>3, <1>5 DEF Extensions

\* computeScoresFull: all that is on the left of a node competes for its beam.
LEMMA ScoreFullHonours ==
  ASSUME IInv, IInv', PluginRead, lat.user = "partialInput", ScoresAreSmall, TopsAreClean, ScoreFull
  PROVE  TopsAreClean'
<1>1. /\ pc = "score" /\ cfg.global = 0 /\ lat' = lat /\ cfg' = cfg
      /\ beams' = [r \in NodeIds |->
                     IF r \in Right(bnd) THEN Best(Extensions(Candidates(bnd), r), cfg.beam) ELSE beams[r]]
      /\ NextBoundary("fill")
  BY DEF ScoreFull, Extensions
<1>2. InputOK /\ PhaseOK /\ TypesOK /\ BeamsOK /\ bnd \in 0 .. lat.n /\ cfg.beam \in Nat \ {0} /\ lat.n \in Nat
  BY DEF IInv, PhaseOK, InputOK
<1>3. \/ bnd < lat.n /\ bnd' = bnd + 1 /\ pc' = "score"
      \/ bnd = lat.n /\ pc' # "score"
  BY <1>1, <1>2 DEF NextBoundary
<1>4. Candidates(bnd) \in SUBSET Elements /\ IsFiniteSet(Candidates(bnd))
  BY <1>2, CandidatesOfBoundary
<1>5. Right(bnd) \subseteq NodeIds
  BY <1>2, NodesOfLattice DEF NodeIds
<1>6. ASSUME NEW r \in Right(bnd), CanBeClean(r)
      PROVE  1 \in DOMAIN beams'[r] /\ Points(beams'[r][1], bnd) /\ Clean(WayOf(beams'[r][1]))
  <2>1. PICK s : s = beams'[r]
    OBVIOUS
  <2>2. s = Best(Extensions(Candidates(bnd), r), cfg.beam)
    BY <1>1, <1>5, <2>1
  <2>3. s \in BestBeams(Extensions(Candidates(bnd), r), cfg.beam)
    BY <1>2, <2>2, ExtensionsAreElements, BestIsBestBeam
  <2>4. Candidates(bnd) # {}
    BY <1>1, <1>6, CandidatesIfPath DEF CanBeClean
  <2>5. Best(Candidates(bnd), 1) \in BestBeams(Candidates(bnd), 1)
    BY <1>4, BestIsBestBeam
  <2>6. \E d \in Candidates(bnd) : \A c \in Candidates(bnd) : d.total >= c.total
    BY <1>4, <2>4, <2>5, FirstIsBest
  <2>7. PICK d \in Candidates(bnd) : \A c \in Candidates(bnd) : d.total >= c.total
    BY <2>6
  <2>8. 1 \in DOMAIN s /\ Points(s[1], bnd) /\ Clean(WayOf(s[1]))
    BY <1>1, <1>6, <2>3, <2>7, CleanOfCandidates
  <2>9. QED
    BY <2>1, <2>8
<1>7. \A r \in NodeIds \ Right(bnd) : beams'[r] = beams[r]
  BY <1>1
<1>8. QED
  BY <1>1, <1>3, <1>6, <1>7, CleanAfterScore

\* computeScoresGbeam: the best of what is on the left comes first in the global
\* beam and in its head, so that every node is combined with it.
LEMMA ScoreGlobalHonours ==
  ASSUME IInv, IInv', PluginRead, lat.user = "partialInput", ScoresAreSmall, TopsAreClean, ScoreGlobal
  PROVE  /\ TopsAreClean'
         /\ pc' # "score" /\ CanBeClean(Eos) => CleanInGlobal'
<1>. DEFINE global == Best(Candidates(bnd), cfg.global)
            head == Prefix(global, HeadSize(global))
            From(keep, r) == IF r \in keep THEN ToSet(global) ELSE ToSet(head)
<1>1. /\ pc = "score" /\ cfg.global > 0 /\ Right(bnd) # {} /\ lat' = lat /\ cfg' = cfg
      /\ gbeam' = [gbeam EXCEPT ![bnd] = global]
      /\ NextBoundary(IF cfg.extra THEN "adjust" ELSE "fill")
  BY DEF ScoreGlobal
<1>2. PICK keep \in Keepable(head) :
        \E new \in [Right(bnd) -> UNION {BestBeams({Extended(c, r) : c \in From(keep, r)}, cfg.beam)
                                          : r \in Right(bnd)}] :
          /\ \A r \in Right(bnd) :
               new[r] \in BestBeams({Extended(c, r) : c \in From(keep, r)}, cfg.beam)
          /\ beams' = [r \in NodeIds |-> IF r \in Right(bnd) THEN new[r] ELSE beams[r]]
  BY DEF ScoreGlobal
<1>3. PICK new :
        /\ \A r \in Right(bnd) :
             new[r] \in BestBeams({Extended(c, r) : c \in From(keep, r)}, cfg.beam)
        /\ beams' = [r \in NodeIds |-> IF r \in Right(bnd) THEN new[r] ELSE beams[r]]
  BY <1>2
<1>4. /\ InputOK /\ PhaseOK /\ TypesOK /\ BeamsOK /\ bnd \in 0 .. lat.n /\ lat.n \in Nat
      /\ cfg.beam \in Nat \ {0} /\ cfg.global \in Nat \ {0} /\ cfg.check \in Nat
  BY <1>1 DEF IInv, PhaseOK, InputOK
<1>5. \/ bnd < lat.n /\ bnd' = bnd + 1 /\ pc' = "score"
      \/ bnd = lat.n /\ pc' # "score"
  BY <1>1, <1>4 DEF NextBoundary
<1>6. Candidates(bnd) \in SUBSET Elements /\ IsFiniteSet(Candidates(bnd))
      /\ \A c \in Candidates(bnd) : Points(c, bnd)
  BY <1>4, CandidatesOfBoundary
<1>7. global \in BestBeams(Candidates(bnd), cfg.global)
  BY <1>4, <1>6, BestIsBestBeam
<1>. HIDE DEF global
<1>8. /\ global \in Seq(Elements) /\ \A i \in DOMAIN global : global[i] \in Candidates(bnd)
  BY <1>4, <1>6, <1>7, BestBeamsProperties
<1>9. ASSUME NEW r \in Right(bnd), CanBeClean(r)
      PROVE  /\ 1 \in DOMAIN global /\ global[1] \in Candidates(bnd)
             /\ \A c \in Candidates(bnd) : global[1].total >= c.total
  <2>1. Candidates(bnd) # {}
    BY <1>1, <1>9, CandidatesIfPath DEF CanBeClean
  <2>2. QED
    BY <1>4, <1>6, <1>7, <2>1, FirstIsBest
<1>10. ToSet(global) \subseteq Candidates(bnd) /\ ToSet(head) \subseteq ToSet(global)
       /\ (cfg.check > 0 /\ global # <<>> => global[1] \in ToSet(head))
  <2>1. ToSet(global) \subseteq Candidates(bnd)
    BY <1>8 DEF ToSet
  <2>2. QED
    BY <1>1, <1>4, <1>8, <2>1, HeadOfGlobal
<1>11. cfg.check = 0 => keep = Right(bnd)
  BY <1>2 DEF Keepable
<1>12. Right(bnd) \subseteq NodeIds
  BY <1>4, NodesOfLattice DEF NodeIds
<1>13. ASSUME NEW r \in Right(bnd), CanBeClean(r)
       PROVE  1 \in DOMAIN beams'[r] /\ Points(beams'[r][1], bnd) /\ Clean(WayOf(beams'[r][1]))
  <2>1. PICK s, F, d : s = beams'[r] /\ F = From(keep, r) /\ d = global[1]
    OBVIOUS
  <2>2. s \in BestBeams(Extensions(F, r), cfg.beam)
    BY <1>3, <1>12, <2>1 DEF Extensions
  <2>3. 1 \in DOMAIN global /\ d \in Candidates(bnd) /\ \A c \in Candidates(bnd) : d.total >= c.total
    BY <1>9, <1>13, <2>1
  <2>4. F \in SUBSET Candidates(bnd)
    BY <1>10, <2>1
  <2>5. d \in F
    <3>1. CASE r \in keep
      <4>1. d \in ToSet(global)
        BY <2>1, <2>3 DEF ToSet
      <4>2. QED
        BY <2>1, <3>1, <4>1
    <3>2. CASE r \notin keep
      <4>1. cfg.check > 0
        BY <1>4, <1>11, <3>2
      <4>2. global # <<>>
        BY <2>3
      <4>3. QED
        BY <1>10, <2>1, <3>2, <4>1, <4>2
    <3>3. QED
      BY <3>1, <3>2
  <2>. HIDE DEF From
  <2>6. 1 \in DOMAIN s /\ Points(s[1], bnd) /\ Clean(WayOf(s[1]))
    BY <1>1, <1>13, <2>2, <2>3, <2>4, <2>5, CleanOfCandidates
  <2>7. QED
    BY <2>1, <2>6
<1>14. \A r \in NodeIds \ Right(bnd) : beams'[r] = beams[r]
  BY <1>3
<1>15. TopsAreClean'
  BY <1>1, <1>5, <1>13, <1>14, CleanAfterScore
<1>16. ASSUME pc' # "score", CanBeClean(Eos)
       PROVE  CleanInGlobal'
  <2>1. bnd = lat.n /\ Eos \in Right(bnd)
    BY <1>4, <1>5, <1>16, NodesOfLattice
  <2>2. PICK d : d = global[1]
    OBVIOUS
  <2>3. 1 \in DOMAIN global /\ d \in Candidates(bnd) /\ \A c \in Candidates(bnd) : d.total >= c.total
    BY <1>9, <1>16, <2>1, <2>2
  <2>4. Clean(WayOf(d))
    BY <1>1, <1>16, <2>1, <2>3, BestOfLeftIsClean
  <2>5. WayOf(d)' = WayOf(d)
    BY <1>1, <1>6, <1>14, <2>3, PathsAfterScore
  <2>6. Clean(WayOf(d)')
    BY <2>4, <2>5
  <2>7. gbeam'[lat.n] = global
    <3>. HIDE DEF Elements
    <3>1. gbeam \in [0 .. lat.n -> Seq(Elements)]
      BY <1>4 DEF TypesOK
    <3>2. QED
      BY <1>1, <1>4, <2>1, <3>1
  <2>8. 1 \in DOMAIN gbeam'[lat'.n] /\ WayOf(gbeam[lat.n][1])' = WayOf(d)'
    <3>1. gbeam'[lat'.n][1] = d
      BY <1>1, <2>2, <2>7
    <3>2. WayOf(gbeam[lat.n][1])' = WayOf(d)'
      BY <3>1 DEF WayOf
    <3>3. QED
      BY <1>1, <2>3, <2>7, <3>2
  <2>9. \A h : Clean(h)' <=> Clean(h)
    BY <1>1, AnnotationStays
  <2>10. Clean(WayOf(gbeam[lat.n][1]))'
    <3>1. Clean(WayOf(gbeam[lat.n][1])')
      BY <2>6, <2>8
    <3>2. QED
      BY <2>9, <3>1
  <2>11. QED
    BY <2>8, <2>10 DEF CleanInGlobal
<1>17. QED
  BY <1>15, <1>16

\* A boundary without nodes adds no beam.
LEMMA SkipBoundaryHonours ==
  ASSUME IInv, IInv', TopsAreClean, SkipBoundary
  PROVE  TopsAreClean' /\ pc' = "score"
<1>1. /\ pc = "score" /\ Right(bnd) = {} /\ lat' = lat /\ cfg' = cfg /\ beams' = beams /\ NextBoundary("fill")
  BY DEF SkipBoundary
<1>2. InputOK /\ bnd \in 0 .. lat.n /\ lat.n \in Nat
  BY DEF IInv, PhaseOK, InputOK
<1>3. bnd # lat.n
  BY <1>1, <1>2, NodesOfLattice
<1>4. bnd < lat.n /\ bnd' = bnd + 1 /\ pc' = "score"
  BY <1>1, <1>2, <1>3 DEF NextBoundary
<1>5. QED
  BY <1>1, <1>4, CleanAfterScore

\* What the last global beam stands for stays while no pointer to its left changes.
LEMMA CleanInGlobalStays ==
  ASSUME IInv, IInv', lat' = lat, cfg' = cfg, gbeam' = gbeam, CleanInGlobal,
         NEW G \in SUBSET (1 .. Eos),
         \A b \in 0 .. lat.n : \A l \in Left(b) : l = Bos \/ l \in G,
         \A r \in G : /\ DOMAIN beams'[r] = DOMAIN beams[r]
                      /\ \A k \in DOMAIN beams[r] : SamePlace(beams'[r][k], beams[r][k])
  PROVE  CleanInGlobal'
<1>1. InputOK /\ TypesOK /\ BeamsOK /\ InputOK' /\ TypesOK' /\ BeamsOK' /\ GlobalOK
      /\ lat.n \in 0 .. lat.n /\ lat.n \in Nat
  BY NodesOfLattice DEF IInv
<1>2. \A r \in G : \A l \in Left(Start(r)) : l = Bos \/ l \in G
  BY <1>1, NodesOfLattice
<1>3. \A r \in G : \A k \in DOMAIN beams[r] : Trace(r, k)' = Trace(r, k)
  BY <1>1, <1>2, TracesStay
<1>4. PICK i \in DOMAIN gbeam[lat.n] : Clean(WayOf(gbeam[lat.n][i]))
  BY DEF CleanInGlobal
<1>5. PICK el : el = gbeam[lat.n][i]
  OBVIOUS
<1>6. el.left \in Left(lat.n) /\ el.beam \in DOMAIN beams[el.left]
  BY <1>1, <1>4, <1>5 DEF GlobalOK, Points
<1>7. WayOf(el)' = WayOf(el)
  <2>1. PICK l, b : l = el.left /\ b = el.beam
    OBVIOUS
  <2>2. l # Bos => Trace(l, b)' = Trace(l, b)
    BY <1>1, <1>3, <1>6, <2>1
  <2>3. el.left # Bos => Trace(el.left, el.beam)' = Trace(el.left, el.beam)
    BY <2>1, <2>2
  <2>4. QED
    BY <2>3, WayStays
<1>8. Clean(WayOf(el)')
  BY <1>4, <1>5, <1>7
<1>9. WayOf(gbeam[lat.n][i])' = WayOf(el)'
  BY <1>5 DEF WayOf
<1>10. \A h : Clean(h)' <=> Clean(h)
  BY AnnotationStays
<1>11. Clean(WayOf(gbeam[lat.n][i]))'
  <2>1. Clean(WayOf(gbeam[lat.n][i])')
    BY <1>8, <1>9
  <2>2. QED
    BY <1>10, <2>1
<1>12. QED
  BY <1>4, <1>11 DEF CleanInGlobal

\* adjustBeamScores changes totals and no pointers.
LEMMA AdjustBoundaryHonours ==
  ASSUME IInv, IInv', CleanInGlobal, AdjustBoundary
  PROVE  CleanInGlobal'
<1>1. lat' = lat /\ cfg' = cfg /\ gbeam' = gbeam
  BY DEF AdjustBoundary
<1>2. InputOK
  BY DEF IInv
<1>3. ASSUME NEW r \in 1 .. Eos
      PROVE  /\ DOMAIN beams'[r] = DOMAIN beams[r]
             /\ \A k \in DOMAIN beams[r] : SamePlace(beams'[r][k], beams[r][k])
  <2>1. r \in NodeIds
    BY <1>2, NodesOfLattice DEF NodeIds
  <2>2. beams'[r] = [k \in DOMAIN beams[r] |->
                       IF \E i \in DOMAIN gbeam[bnd] : gbeam[bnd][i].left = r /\ gbeam[bnd][i].beam = k
                       THEN Adjusted(r, k) ELSE beams[r][k]]
    BY <2>1 DEF AdjustBoundary
  <2>3. ASSUME NEW k \in DOMAIN beams[r] PROVE SamePlace(beams'[r][k], beams[r][k])
    <3>1. beams'[r][k] = Adjusted(r, k) \/ beams'[r][k] = beams[r][k]
      BY <2>2
    <3>2. PICK el : el = beams[r][k]
      OBVIOUS
    <3>3. r \in 1 .. Eos /\ el \in Elements
      <4>1. beams[r] \in Seq(Elements)
        BY <2>1 DEF IInv, TypesOK
      <4>. HIDE DEF Elements
      <4>2. QED
        BY <3>2, <4>1, ElementOfSeq, LenProperties
    <3>4. Adjusted(r, k).left = el.left /\ Adjusted(r, k).beam = el.beam
      BY <3>2, <3>3 DEF Adjusted, Elements
    <3>5. QED
      BY <3>1, <3>2, <3>4 DEF SamePlace
  <2>4. QED
    BY <2>2, <2>3
<1>4. \A b \in 0 .. lat.n : \A l \in Left(b) : l = Bos \/ l \in 1 .. Eos
  BY <1>2, NodesOfLattice
<1>5. QED
  BY <1>1, <1>3, <1>4, CleanInGlobalStays

\* remakeEosBeam changes the beam of EOS alone, to which no element points.
LEMMA RemakeEosBeamHonours ==
  ASSUME IInv, IInv', CleanInGlobal, RemakeEosBeam
  PROVE  CleanInGlobal'
<1>1. lat' = lat /\ cfg' = cfg /\ gbeam' = gbeam /\ \E new : beams' = [beams EXCEPT ![Eos] = new]
  BY DEF RemakeEosBeam
<1>2. InputOK
  BY DEF IInv
<1>. DEFINE G == (1 .. Eos) \ {Eos}
<1>3. \A r \in G : /\ DOMAIN beams'[r] = DOMAIN beams[r]
                   /\ \A k \in DOMAIN beams[r] : SamePlace(beams'[r][k], beams[r][k])
  <2>1. \A r \in G : r \in NodeIds
    BY <1>2, NodesOfLattice DEF NodeIds
  <2>2. beams \in [NodeIds -> Seq(Elements)]
    BY DEF IInv, TypesOK
  <2>3. \A r \in G : beams'[r] = beams[r]
    <3>. HIDE DEF Elements
    <3>1. QED
      BY <1>1, <2>1, <2>2
  <2>4. QED
    BY <2>3 DEF SamePlace
<1>4. \A b \in 0 .. lat.n : \A l \in Left(b) : l = Bos \/ l \in G
  <2>1. \A b \in 0 .. lat.n : \A l \in Left(b) : l < Eos /\ l \in Nat /\ (l # Bos => l \in 1 .. Eos)
    BY <1>2, NodesOfLattice
  <2>2. Eos \in Nat
    BY <1>2, NodesOfLattice
  <2>3. QED
    BY <2>1, <2>2
<1>. HIDE DEF G
<1>5. G \in SUBSET (1 .. Eos)
  BY DEF G
<1>6. QED
  BY <1>1, <1>3, <1>4, <1>5, CleanInGlobalStays

\* Nothing is scored any more, or the result is read.
LEMMA NothingScoredHonours ==
  ASSUME IInv, TopsHonour, UNCHANGED <<lat, cfg, bnd, beams, gbeam>>, pc' = pc \/ (pc = "fill" /\ pc' = "done")
  PROVE  TopsHonour'
<1>1. Processed' = Processed /\ Eos' = Eos
  BY DEF Processed, Start, Eos
<1>2. /\ \A h : Clean(h)' <=> Clean(h)
      /\ \A r : CanBeClean(r)' <=> CanBeClean(r)
  BY AnnotationStays
<1>3. \A r, k : Trace(r, k)' = Trace(r, k)
  BY SameTrace
<1>4. TopsAreClean => TopsAreClean'
  <2>1. SUFFICES ASSUME TopsAreClean, NEW r \in Processed, CanBeClean(r)
                 PROVE  Clean(Trace(r, 1))'
    BY <1>1, <1>2 DEF TopsAreClean
  <2>2. PICK k : k = 1
    OBVIOUS
  <2>3. Clean(Trace(r, k))
    BY <2>1, <2>2 DEF TopsAreClean
  <2>4. Clean(Trace(r, k)')
    BY <1>3, <2>3
  <2>5. Clean(Trace(r, 1)')
    <3>1. Trace(r, 1)' = Trace(r, k)'
      BY <2>2
    <3>2. QED
      BY <2>4, <3>1
  <2>6. QED
    BY <1>2, <2>5
<1>5. CleanInGlobal => CleanInGlobal'
  <2>1. SUFFICES ASSUME CleanInGlobal PROVE CleanInGlobal'
    OBVIOUS
  <2>2. PICK i \in DOMAIN gbeam[lat.n] : Clean(WayOf(gbeam[lat.n][i]))
    BY <2>1 DEF CleanInGlobal
  <2>3. PICK el : el = gbeam[lat.n][i]
    OBVIOUS
  <2>4. WayOf(el)' = WayOf(el)
    <3>1. PICK l, b : l = el.left /\ b = el.beam
      OBVIOUS
    <3>2. Trace(l, b)' = Trace(l, b)
      BY <1>3
    <3>3. Trace(el.left, el.beam)' = Trace(el.left, el.beam)
      BY <3>1, <3>2
    <3>4. QED
      BY <3>3, WayStays
  <2>5. Clean(WayOf(gbeam[lat.n][i]))'
    <3>1. Clean(WayOf(el)')
      BY <2>2, <2>3, <2>4
    <3>2. WayOf(gbeam[lat.n][i])' = WayOf(el)'
      BY <2>3 DEF WayOf
    <3>3. Clean(WayOf(gbeam[lat.n][i])')
      BY <3>1, <3>2
    <3>4. QED
      BY <1>2, <3>3
  <2>6. QED
    BY <2>2, <2>5 DEF CleanInGlobal
<1>6. CanBeClean(Eos)' <=> CanBeClean(Eos)
  <2>1. PICK e : e = Eos
    OBVIOUS
  <2>2. CanBeClean(e)' <=> CanBeClean(e)
    BY <1>2
  <2>3. CanBeClean(Eos)' <=> CanBeClean(e)'
    BY <1>1, <2>1 DEF CanBeClean, Clean
  <2>4. QED
    BY <2>1, <2>2, <2>3
<1>7. QED
  BY <1>4, <1>5, <1>6 DEF TopsHonour

\* Every step of the analysis keeps what agrees with the annotation in front.
LEMMA NextHonours ==
  ASSUME IInv, IInv', HonourInv, [ScoringNext]_allVars
  PROVE  HonourInv'
<1>1. lat' = lat /\ cfg' = cfg
  BY DEF ScoringNext, allVars, vars, Analyse, Compare, Correct, Finished,
         ScoreFull, ScoreGlobal, SkipBoundary, AdjustBoundary, RemakeEosBeam, FillIn
<1>2. PluginRead /\ PluginRead' /\ (ScoresAreSmall' <=> ScoresAreSmall)
      /\ \A r : CanBeClean(r)' <=> CanBeClean(r)
  BY <1>1, AnnotationStays DEF HonourInv
<1>3. CanBeClean(Eos)' <=> CanBeClean(Eos)
  <2>1. PICK e : e = Eos
    OBVIOUS
  <2>2. Eos' = Eos
    BY <1>1 DEF Eos
  <2>3. CanBeClean(Eos)' <=> CanBeClean(e)'
    BY <2>1, <2>2 DEF CanBeClean, Clean
  <2>4. QED
    BY <1>2, <2>1, <2>3
<1>4. SUFFICES ASSUME lat.user = "partialInput", ScoresAreSmall, TopsHonour
               PROVE  TopsHonour'
  BY <1>1, <1>2 DEF HonourInv
<1>5. InputOK /\ PhaseOK
  BY DEF IInv
<1>6. CASE ScoreFull
  <2>1. pc = "score" /\ cfg.global = 0 /\ ~cfg.extra
    BY <1>5, <1>6 DEF ScoreFull, InputOK
  <2>2. TopsAreClean
    BY <2>1, <1>4 DEF TopsHonour
  <2>3. TopsAreClean'
    BY <1>2, <1>4, <1>6, <2>2, ScoreFullHonours
  <2>4. QED
    BY <1>1, <2>1, <2>3 DEF TopsHonour
<1>7. CASE ScoreGlobal
  <2>1. TopsAreClean
    BY <1>4, <1>7 DEF TopsHonour, ScoreGlobal
  <2>2. TopsAreClean' /\ (pc' # "score" /\ CanBeClean(Eos) => CleanInGlobal')
    BY <1>2, <1>4, <1>7, <2>1, ScoreGlobalHonours
  <2>3. QED
    BY <1>3, <2>2 DEF TopsHonour
<1>8. CASE SkipBoundary
  <2>1. TopsAreClean
    BY <1>4, <1>8 DEF TopsHonour, SkipBoundary
  <2>2. TopsAreClean' /\ pc' = "score"
    BY <1>8, <2>1, SkipBoundaryHonours
  <2>3. QED
    BY <2>2 DEF TopsHonour
<1>9. CASE AdjustBoundary \/ RemakeEosBeam
  <2>1. pc # "score" /\ cfg.extra
    BY <1>5, <1>9 DEF AdjustBoundary, RemakeEosBeam, PhaseOK
  <2>2. pc' # "score"
    BY <1>9 DEF AdjustBoundary, RemakeEosBeam, NextBoundary
  <2>3. CanBeClean(Eos) => CleanInGlobal
    BY <1>4, <2>1 DEF TopsHonour
  <2>4. CanBeClean(Eos) => CleanInGlobal'
    BY <1>9, <2>3, AdjustBoundaryHonours, RemakeEosBeamHonours
  <2>5. QED
    BY <1>1, <1>3, <2>1, <2>2, <2>4 DEF TopsHonour
<1>10. CASE FillIn \/ Compare \/ Correct \/ Finished \/ UNCHANGED allVars
  <2>1. UNCHANGED <<lat, cfg, bnd, beams, gbeam>>
    BY <1>10 DEF FillIn, Compare, Correct, Finished, allVars, vars
  <2>2. pc' = pc \/ (pc = "fill" /\ pc' = "done")
    BY <1>10 DEF FillIn, Compare, Correct, Finished, allVars, vars
  <2>3. QED
    BY <1>4, <2>1, <2>2, NothingScoredHonours
<1>11. QED
  BY <1>6, <1>7, <1>8, <1>9, <1>10 DEF ScoringNext, Analyse

\* Whatever the scores that are small enough, the widths of the beams, the scorers
\* and the annotation: as far as a sentence is analysed, what comes first agrees
\* with the annotation wherever anything does.
THEOREM HonourInvAlways == ScoringSpec => []HonourInv
<1>1. ScoringInit => HonourInv
  BY InitHonourInv DEF ScoringInit
<1>2. ScoringInv /\ ScoringInv' /\ HonourInv /\ [ScoringNext]_allVars => HonourInv'
  BY NextHonours DEF ScoringInv
<1>3. QED
  BY <1>1, <1>2, ScoringInvAlways, PTL DEF ScoringSpec

\* What is less after weighing is less.
LEMMA LessTaken ==
  ASSUME NEW w \in Nat, NEW x \in Nat, w * x < 1000 * w
  PROVE  x < 1000
<1>1. SUFFICES ASSUME x >= 1000 PROVE FALSE
  OBVIOUS
<1>2. PICK y \in Nat : x = 1000 + y
  <2>1. x - 1000 \in Nat /\ x = 1000 + (x - 1000)
    BY <1>1
  <2>2. QED
    BY <2>1
<1>3. w * x = w * 1000 + w * y
  BY <1>2
<1>4. w * y \in Nat
  OBVIOUS
<1>5. QED
  BY <1>3, <1>4

\* By all scorers, too, a path without violations has the higher score.
LEMMA CleanScoresMoreInAll ==
  ASSUME InputOK, PluginRead, lat.user = "partialInput", ScoresAreSmall, cfg.extra,
         NEW g \in Histories[Eos], NEW h \in Histories[Eos], Clean(g),
         AllScores(h, Eos) >= AllScores(g, Eos)
  PROVE  Clean(h)
<1>1. Eos \in 1 .. Eos /\ FeatureWeight \in Int /\ ExtraWeight \in Int
  BY NodesOfLattice, BeamConstants
<1>2. FeatureWeight > 0 /\ PlainScores(h) - PlainScores(g) < 1000 * FeatureWeight
  BY DEF ScoresAreSmall
<1>3. lat.penalty[Eos] \in Nat
  BY <1>1, PenaltyOfWord
<1>4. ExtraSum(g, Eos) \in Int /\ ExtraSum(h, Eos) \in Int
  BY <1>1, PathsOfLattice
<1>5. PICK e, f : e = ExtraWeight * ExtraSum(g, Eos) /\ f = ExtraWeight * ExtraSum(h, Eos)
  OBVIOUS
<1>6. PICK x : Taken(x, h) /\ PathScore(h, Eos) = (PlainScore(h, Eos) - x) - lat.penalty[Eos]
  BY <1>1, ScoreLessPenalties
<1>7. PICK y : Taken(y, g) /\ PathScore(g, Eos) = (PlainScore(g, Eos) - y) - lat.penalty[Eos]
  BY <1>1, ScoreLessPenalties
<1>8. y = 0 /\ x \in Nat /\ (~Clean(h) => x >= 1000)
  BY <1>6, <1>7 DEF Taken
<1>9. PICK p, q, t : p = PlainScore(g, Eos) /\ q = PlainScore(h, Eos) /\ t = lat.penalty[Eos]
  OBVIOUS
<1>10. p \in Int /\ q \in Int /\ t \in Nat /\ e \in Int /\ f \in Int
  BY <1>1, <1>3, <1>4, <1>5, <1>9, ScoreLessPenalties
<1>11. AllScores(g, Eos) = FeatureWeight * (p - t) + e /\ AllScores(h, Eos) = FeatureWeight * ((q - x) - t) + f
  <2>1. PathScore(g, Eos) = p - t /\ PathScore(h, Eos) = (q - x) - t
    BY <1>6, <1>7, <1>8, <1>9, <1>10
  <2>2. QED
    BY <1>5, <2>1 DEF AllScores, ExtraSum
<1>12. PlainScores(g) = FeatureWeight * p + e /\ PlainScores(h) = FeatureWeight * q + f
  BY <1>5, <1>9 DEF PlainScores, ExtraSum
<1>13. /\ FeatureWeight * (p - t) = FeatureWeight * p - FeatureWeight * t
       /\ FeatureWeight * ((q - x) - t) = (FeatureWeight * q - FeatureWeight * x) - FeatureWeight * t
  BY <1>1, <1>8, <1>10
<1>14. /\ FeatureWeight * p \in Int /\ FeatureWeight * q \in Int
       /\ FeatureWeight * x \in Int /\ FeatureWeight * t \in Int
  BY <1>1, <1>8, <1>10
<1>15. FeatureWeight * x < 1000 * FeatureWeight
  <2>1. PICK P, Q, X, T : P = FeatureWeight * p /\ Q = FeatureWeight * q /\ X = FeatureWeight * x /\ T = FeatureWeight * t
    OBVIOUS
  <2>2. ((Q - X) - T) + f >= (P - T) + e
    BY <1>11, <1>13, <2>1
  <2>3. (Q + f) - (P + e) < 1000 * FeatureWeight
    BY <1>2, <1>12, <2>1
  <2>4. P \in Int /\ Q \in Int /\ X \in Int /\ T \in Int
    BY <1>14, <2>1
  <2>5. X < 1000 * FeatureWeight
    BY <1>1, <1>10, <2>2, <2>3, <2>4
  <2>6. QED
    BY <2>1, <2>5
<1>16. x < 1000
  <2>1. FeatureWeight \in Nat
    BY <1>1, <1>2
  <2>2. QED
    BY <1>8, <1>15, <2>1, LessTaken
<1>17. QED
  BY <1>8, <1>16

\* The result has no violation if a segmentation without one exists.
LEMMA ResultIsClean ==
  ASSUME IInv, HonourInv, pc = "done", lat.user = "partialInput", ScoresAreSmall, CanBeClean(Eos)
  PROVE  Clean(path)
<1>1. InputOK /\ PhaseOK /\ TypesOK /\ BeamsOK /\ ResultOK /\ RemadeOK /\ GlobalOK /\ Eos \in 1 .. Eos
      /\ Processed = 1 .. Eos /\ Start(Eos) = lat.n /\ lat.n \in Nat \ {0} /\ cfg.beam \in Nat \ {0}
  BY NodesOfLattice DEF IInv, Processed, InputOK
<1>2. path = Trace(Eos, 1) /\ 1 \in DOMAIN beams[Eos] /\ path \in Histories[Eos]
  BY <1>1, ResultOfEos DEF ResultOK
<1>3. PluginRead /\ TopsHonour
  BY DEF HonourInv
<1>4. CASE ~cfg.extra
  BY <1>1, <1>2, <1>3, <1>4 DEF TopsHonour, TopsAreClean
<1>5. CASE cfg.extra
  <2>1. PICK i \in DOMAIN gbeam[lat.n] : Clean(WayOf(gbeam[lat.n][i]))
    BY <1>3, <1>5 DEF TopsHonour, CleanInGlobal
  <2>2. PICK c, w : c = gbeam[lat.n][i] /\ w = WayOf(c)
    OBVIOUS
  <2>3. Points(c, lat.n) /\ c \in ToSet(gbeam[lat.n])
    BY <1>1, <2>1, <2>2 DEF GlobalOK, ToSet
  <2>4. w \in Histories[Eos]
    BY <1>1, <2>2, <2>3, WaysArePaths
  <2>5. w = <<c.left>> \o Trace(c.left, c.beam)
    <3>1. c.left # Bos
      <4>1. c.left \in Left(lat.n) /\ lat.n # 0 /\ lat.n \in 0 .. lat.n
        BY <1>1, <2>3 DEF Points
      <4>2. QED
        BY <1>1, <4>1, NodesOfLattice
    <3>2. QED
      BY <2>2, <3>1 DEF WayOf
  <2>6. AllScores(path, Eos) >= AllScores(w, Eos)
    <3>. DEFINE ways == {<<d.left>> \o Trace(d.left, d.beam) : d \in ToSet(gbeam[lat.n])}
                chosen == {Trace(Eos, k) : k \in DOMAIN beams[Eos]}
    <3>1. /\ \A k \in DOMAIN beams[Eos] : beams[Eos][k].total = AllScores(Trace(Eos, k), Eos)
          /\ \A v \in ways \ chosen, d \in chosen : AllScores(d, Eos) >= AllScores(v, Eos)
      BY <1>5, EosOfScorers DEF EosBeamRemade
    <3>2. w \in ways /\ path \in chosen
      BY <1>2, <2>3, <2>5
    <3>3. CASE w \notin chosen
      <4>. HIDE DEF ways, chosen
      <4>1. QED
        BY <3>1, <3>2, <3>3
    <3>4. CASE w \in chosen
      <4>1. PICK k \in DOMAIN beams[Eos] : w = Trace(Eos, k)
        BY <3>4
      <4>2. beams[Eos] \in BestBeams(RemadeSet, cfg.beam)
        BY <1>1, <1>5 DEF RemadeOK, RemadeSet
      <4>3. RemadeSet \in SUBSET Elements /\ IsFiniteSet(RemadeSet)
        BY RemadeCandidates
      <4>4. beams[Eos][k] \in RemadeSet
        <5>. HIDE DEF Elements
        <5>1. QED
          BY <1>1, <4>1, <4>2, <4>3, BestBeamsProperties
      <4>5. beams[Eos][1].total >= beams[Eos][k].total
        <5>1. RemadeSet # {}
          BY <4>4
        <5>2. QED
          BY <1>1, <4>2, <4>3, <4>4, <5>1, FirstIsBest
      <4>6. QED
        BY <1>2, <3>1, <4>1, <4>5
    <3>5. QED
      BY <3>3, <3>4
  <2>7. QED
    BY <1>1, <1>2, <1>3, <1>5, <2>1, <2>2, <2>4, <2>6, CleanScoresMoreInAll
<1>6. QED
  BY <1>4, <1>5

\* Partially annotated text is analysed as annotated if any path of the lattice
\* is like that, however narrow the beams and whatever scorers there are
\* (ConstraintsHonoured): as long as the scores differ by less than what the
\* plugin takes for a violation, which the code relies on without a check.
THEOREM AnnotationsAreHonoured ==
  ScoringSpec => [](Tidy(lat.lines) /\ ScoresAreSmall => ConstraintsHonoured)
<1>1. ScoringInv /\ CorrectInv /\ HonourInv => (Tidy(lat.lines) /\ ScoresAreSmall => ConstraintsHonoured)
  <2>. SUFFICES ASSUME IInv, CorrectInv, HonourInv, Tidy(lat.lines), ScoresAreSmall,
                       pc = "done", lat.user = "partialInput"
                PROVE  Allowed(path) \/ \A trace \in Histories[Eos] : ~Allowed(trace)
    BY DEF ScoringInv, ConstraintsHonoured
  <2>1. CASE lat.lines = <<>>
    <3>1. Allowed(path)
      BY <2>1 DEF Allowed, Conforms
    <3>2. QED
      BY <3>1
  <2>2. CASE lat.lines # <<>>
    <3>1. \A trace \in Histories[Eos] : Allowed(trace) <=> Clean(trace)
      <4>1. InputOK /\ AnnotationRead
        BY DEF IInv, CorrectInv
      <4>2. QED
        BY <2>2, <4>1, ObjectionsDecide DEF Clean
    <3>2. path \in Histories[Eos]
      BY ResultOfEos DEF IInv, ResultOK
    <3>3. CanBeClean(Eos) => Clean(path)
      BY ResultIsClean
    <3>4. QED
      BY <3>1, <3>2, <3>3 DEF CanBeClean
  <2>3. QED
    BY <2>1, <2>2
<1>2. QED
  BY <1>1, ScoringInvAlways, CorrectInvAlways, HonourInvAlways, PTL

-------------------------------------------------------------------------------
(* The n-grams that are collected                                          *)

\* s has values of f at numbers up to m that grow.
PickedBy(p, s, f, m) ==
  /\ \A k \in 1 .. Len(s) : p[k] \in DOMAIN f /\ p[k] <= m /\ s[k] = f[p[k]]
  /\ \A j, k \in 1 .. Len(s) : j < k => p[j] < p[k]

\* What a loop appends is picked in order.
LEMMA InOrderPicks ==
  ASSUME NEW S, NEW n \in Nat, NEW D \in SUBSET (1 .. n), NEW f \in [D -> S]
  PROVE  InOrder(f, n) \in Seq(S) /\ \E p : PickedBy(p, InOrder(f, n), f, n)
<1>. DEFINE F(s) == [i \in 0 .. n |->
                       IF i = 0 THEN <<>>
                       ELSE IF i \in DOMAIN f THEN Append(s[i - 1], f[i]) ELSE s[i - 1]]
            s == CHOOSE s : s = F(s)
            G == [p \in Seq(S) \X (1 .. n) |-> IF p[2] \in D THEN Append(p[1], f[p[2]]) ELSE p[1]]
<1>0. \A x \in DOMAIN f : x \in Nat
  OBVIOUS
<1>1. InOrder(f, n) = s[n]
  BY DEF InOrder
<1>2. PICK g : Follows(g, <<>>, G, n) /\ \A i \in 0 .. n : g[i] \in Seq(S)
  <2>1. ASSUME NEW q \in Seq(S), NEW i \in 1 .. n
        PROVE  (IF i \in D THEN Append(q, f[i]) ELSE q) \in Seq(S)
    OBVIOUS
  <2>2. G \in [Seq(S) \X (1 .. n) -> Seq(S)] /\ <<>> \in Seq(S)
    BY <2>1
  <2>. HIDE DEF G
  <2>3. QED
    BY <2>2, StepsExist
<1>3. \A i \in 1 .. n : g[i] = IF i \in D THEN Append(g[i - 1], f[i]) ELSE g[i - 1]
  <2>1. TAKE i \in 1 .. n
  <2>2. g[i - 1] \in Seq(S)
    BY <1>2
  <2>3. QED
    BY <1>2, <2>2 DEF Follows
<1>. DEFINE h == [i \in 0 .. n |-> g[i]]
<1>4. h = F(h)
  <2>1. \A i \in 0 .. n :
          h[i] = IF i = 0 THEN <<>> ELSE IF i \in DOMAIN f THEN Append(h[i - 1], f[i]) ELSE h[i - 1]
    BY <1>2, <1>3 DEF Follows
  <2>. HIDE DEF h
  <2>2. h = [i \in 0 .. n |-> h[i]]
    BY DEF h
  <2>3. QED
    BY <2>1, <2>2
<1>. HIDE DEF h, F, G
<1>5. s = F(s)
  BY <1>4
<1>. HIDE DEF s
<1>6. \A i \in 0 .. n :
        s[i] = IF i = 0 THEN <<>> ELSE IF i \in D THEN Append(s[i - 1], f[i]) ELSE s[i - 1]
  BY <1>5 DEF F
<1>. DEFINE M == {m \in Nat : m <= n => s[m] \in Seq(S) /\ \E p : PickedBy(p, s[m], f, m)}
<1>7. 0 \in M
  <2>1. s[0] = <<>> /\ <<>> \in Seq(S)
    BY <1>6
  <2>2. PickedBy(<<>>, <<>>, f, 0)
    BY DEF PickedBy
  <2>3. QED
    BY <2>1, <2>2
<1>8. ASSUME NEW m \in Nat, m \in M PROVE m + 1 \in M
  <2>1. SUFFICES ASSUME m + 1 <= n
                 PROVE  s[m + 1] \in Seq(S) /\ \E p : PickedBy(p, s[m + 1], f, m + 1)
    OBVIOUS
  <2>2. m + 1 \in 0 .. n /\ m + 1 \in 1 .. n /\ m + 1 # 0 /\ (m + 1) - 1 = m
    BY <2>1
  <2>3. PICK q, p : q = s[m] /\ q \in Seq(S) /\ PickedBy(p, q, f, m)
    BY <1>8, <2>1
  <2>4. CASE m + 1 \notin D
    <3>1. s[m + 1] = q
      BY <1>6, <2>2, <2>3, <2>4
    <3>2. \A k \in 1 .. Len(q) : p[k] \in DOMAIN f /\ p[k] <= m
      BY <2>3 DEF PickedBy
    <3>3. \A k \in 1 .. Len(q) : p[k] <= m + 1
      <4>1. \A k \in 1 .. Len(q) : p[k] \in Nat
        BY <1>0, <3>2
      <4>2. QED
        BY <3>2, <4>1
    <3>4. PickedBy(p, q, f, m + 1)
      BY <2>3, <3>3 DEF PickedBy
    <3>5. QED
      BY <2>3, <3>1, <3>4
  <2>5. CASE m + 1 \in D
    <3>1. PICK t, l : t = s[m + 1] /\ l = Len(q)
      OBVIOUS
    <3>2. t = Append(q, f[m + 1]) /\ f[m + 1] \in S
      BY <1>6, <2>2, <2>3, <2>5, <3>1
    <3>3. t \in Seq(S) /\ l \in Nat /\ Len(t) = l + 1 /\ t[l + 1] = f[m + 1]
          /\ \A k \in 1 .. l : t[k] = q[k]
      BY <2>3, <3>1, <3>2
    <3>. DEFINE r == [k \in Nat |-> IF k = l + 1 THEN m + 1 ELSE p[k]]
    <3>4. r[l + 1] = m + 1 /\ \A k \in 1 .. l : r[k] = p[k] /\ k # l + 1
      BY <3>3
    <3>. HIDE DEF r
    <3>5. \A k \in 1 .. l : p[k] \in DOMAIN f /\ p[k] \in Nat /\ p[k] <= m /\ q[k] = f[p[k]]
      <4>1. \A k \in 1 .. l : p[k] \in DOMAIN f /\ p[k] <= m /\ q[k] = f[p[k]]
        BY <2>3, <3>1 DEF PickedBy
      <4>2. \A k \in 1 .. l : p[k] \in Nat
        BY <1>0, <4>1
      <4>3. QED
        BY <4>1, <4>2
    <3>6. \A j, k \in 1 .. l : j < k => p[j] < p[k]
      BY <2>3, <3>1 DEF PickedBy
    <3>7. \A k \in 1 .. l + 1 : r[k] \in DOMAIN f /\ r[k] <= m + 1 /\ t[k] = f[r[k]]
      <4>1. TAKE k \in 1 .. l + 1
      <4>2. CASE k = l + 1
        BY <2>5, <3>3, <3>4, <4>2
      <4>3. CASE k # l + 1
        <5>1. k \in 1 .. l
          BY <3>3, <4>3
        <5>2. QED
          BY <3>3, <3>4, <3>5, <5>1
      <4>4. QED
        BY <4>2, <4>3
    <3>8. ASSUME NEW j \in 1 .. l + 1, NEW k \in 1 .. l + 1, j < k
          PROVE  r[j] < r[k]
      <4>1. j \in 1 .. l
        BY <3>3, <3>8
      <4>2. CASE k = l + 1
        BY <3>4, <3>5, <4>1, <4>2
      <4>3. CASE k # l + 1
        <5>1. k \in 1 .. l
          BY <3>3, <4>3
        <5>2. QED
          BY <3>4, <3>6, <3>8, <4>1, <5>1
      <4>4. QED
        BY <4>2, <4>3
    <3>9. PickedBy(r, t, f, m + 1)
      BY <3>3, <3>7, <3>8 DEF PickedBy
    <3>10. QED
      BY <3>1, <3>3, <3>9
  <2>6. QED
    BY <2>4, <2>5
<1>. HIDE DEF M
<1>9. n \in M
  BY <1>7, <1>8, SetInduction
<1>10. QED
  BY <1>1, <1>9 DEF M

\* The trigrams of a path, place by place
LEMMA TrigramsOfPath ==
  ASSUME NEW S, NEW w \in Seq(S), NEW i \in 1 .. Len(w) + 1
  PROVE  PathTrigrams(w)[i] = <<IF i = 1 THEN -1 ELSE IF i = 2 THEN Bos ELSE w[i - 2],
                                IF i = 1 THEN Bos ELSE w[i - 1], NodeOf(w, i)>>
<1>. DEFINE n == Len(w)
            all == <<-1, Bos>> \o w \o <<Eos>>
            T == S \cup {-1, Bos, Eos}
<1>1. n \in Nat /\ i \in Nat
  OBVIOUS
<1>2. <<-1, Bos>> \in Seq(T) /\ w \in Seq(T) /\ <<Eos>> \in Seq(T)
      /\ Len(<<-1, Bos>>) = 2 /\ Len(<<Eos>>) = 1
  OBVIOUS
<1>3. PICK x : x = <<-1, Bos>> \o w
  OBVIOUS
<1>4. /\ x \in Seq(T) /\ Len(x) = n + 2 /\ x[1] = -1 /\ x[2] = Bos
      /\ \A k \in 1 .. n : x[k + 2] = w[k]
  <2>1. x \in Seq(T) /\ Len(x) = n + 2
    BY <1>2, <1>3
  <2>2. x[1] = -1 /\ x[2] = Bos
    BY <1>1, <1>2, <1>3
  <2>3. ASSUME NEW k \in 1 .. n PROVE x[k + 2] = w[k]
    <3>1. k + 2 \in 1 .. n + 2 /\ ~(k + 2 <= 2) /\ (k + 2) - 2 = k
      BY <1>1
    <3>2. QED
      BY <1>2, <1>3, <3>1
  <2>4. QED
    BY <2>1, <2>2, <2>3
<1>5. all = x \o <<Eos>>
  BY <1>3
<1>6. (\A k \in 1 .. n + 2 : all[k] = x[k]) /\ all[n + 3] = Eos
  <2>1. ASSUME NEW k \in 1 .. n + 2 PROVE all[k] = x[k]
    BY <1>1, <1>2, <1>4, <1>5
  <2>2. n + 3 \in 1 .. n + 3 /\ (n + 3) - (n + 2) = 1 /\ ~(n + 3 <= n + 2)
    BY <1>1
  <2>3. all[n + 3] = Eos
    BY <1>1, <1>2, <1>4, <1>5, <2>2
  <2>4. QED
    BY <2>1, <2>3
<1>7. PathTrigrams(w)[i] = <<all[i], all[i + 1], all[i + 2]>>
  BY DEF PathTrigrams
<1>. HIDE DEF all
<1>8. all[i] = IF i = 1 THEN -1 ELSE IF i = 2 THEN Bos ELSE w[i - 2]
  <2>1. i \in 1 .. n + 2 /\ (i # 1 /\ i # 2 => i - 2 \in 1 .. n /\ (i - 2) + 2 = i)
    BY <1>1
  <2>2. QED
    BY <1>4, <1>6, <2>1
<1>9. all[i + 1] = IF i = 1 THEN Bos ELSE w[i - 1]
  <2>1. i + 1 \in 1 .. n + 2 /\ (i # 1 => i - 1 \in 1 .. n /\ (i - 1) + 2 = i + 1)
    BY <1>1
  <2>2. QED
    BY <1>4, <1>6, <2>1
<1>10. all[i + 2] = NodeOf(w, i)
  <2>1. CASE i = n + 1
    <3>1. i + 2 = n + 3
      BY <1>1, <2>1
    <3>2. QED
      BY <1>6, <2>1, <3>1 DEF NodeOf
  <2>2. CASE i # n + 1
    <3>1. i \in 1 .. n /\ i + 2 \in 1 .. n + 2
      BY <1>1, <2>2
    <3>2. QED
      BY <1>4, <1>6, <2>2, <3>1 DEF NodeOf
  <2>3. QED
    BY <2>1, <2>2
<1>11. QED
  BY <1>7, <1>8, <1>9, <1>10

\* The trigram of a beam element is that of the path the element stands for.
LEMMA TrigramOnWay ==
  ASSUME InputOK, TypesOK, BeamsOK, NEW r \in 1 .. Eos, NEW k \in DOMAIN beams[r],
         NEW w, IsSegmentation(w), NEW i \in 1 .. Len(w) + 1,
         Trace(r, k) = Upto(w, i), r = NodeOf(w, i)
  PROVE  TrigramOf(beams[r][k], r) = PathTrigrams(w)[i]
<1>1. w \in Seq(1 .. Eos - 1) /\ Len(w) \in Nat /\ Eos \in Nat
  BY Segmentation, NodesOfLattice
<1>2. PICK el, l, h : el = beams[r][k] /\ l = el.left /\ h = Upto(w, i)
  OBVIOUS
<1>3. /\ h \in Seq(1 .. Eos - 1) /\ Len(h) = i - 1 /\ i \in Nat
      /\ \A j \in 1 .. i - 1 : h[j] = w[i - j]
  <2>. DEFINE S == 1 .. Eos - 1
  <2>1. w \in Seq(S) /\ i \in Nat
    BY <1>1
  <2>. HIDE DEF S
  <2>2. Upto(w, i) \in Seq(S) /\ Len(Upto(w, i)) = i - 1 /\ \A j \in 1 .. i - 1 : Upto(w, i)[j] = w[i - j]
    BY <2>1, WordsUpto
  <2>3. QED
    BY <1>2, <2>1, <2>2 DEF S
<1>4. ASSUME NEW q \in 1 .. Eos, NEW m \in DOMAIN beams[q]
      PROVE  /\ Points(beams[q][m], Start(q))
             /\ Trace(q, m) \in Seq(Nat)
             /\ IF beams[q][m].left = Bos THEN Trace(q, m) = <<>>
                ELSE /\ beams[q][m].left \in 1 .. Eos
                     /\ beams[q][m].beam \in DOMAIN beams[beams[q][m].left]
                     /\ Trace(q, m) = <<beams[q][m].left>> \o Trace(beams[q][m].left, beams[q][m].beam)
  <2>1. Trace(q, m) = WayOf(beams[q][m]) /\ Points(beams[q][m], Start(q))
    BY TraceOfElement
  <2>2. Trace(q, m) \in Seq(Nat)
    <3>1. Trace(q, m) \in Histories[q]
      BY <2>1, WaysArePaths
    <3>2. QED
      BY <3>1, PathsOfLattice
  <2>3. beams[q][m].left # Bos => beams[q][m].left \in 1 .. Eos
    <3>1. Start(q) \in 0 .. lat.n /\ beams[q][m].left \in Left(Start(q))
      BY <2>1, NodesOfLattice DEF Points
    <3>2. QED
      BY <3>1, NodesOfLattice
  <2>4. QED
    BY <2>1, <2>2, <2>3 DEF WayOf, Points
<1>5. ASSUME NEW q \in 1 .. Eos, NEW m \in DOMAIN beams[q]
      PROVE  beams[q][m].left = Before(Trace(q, m))
  <2>1. CASE beams[q][m].left = Bos
    BY <1>4, <2>1 DEF Before
  <2>2. CASE beams[q][m].left # Bos
    <3>1. PICK x, g : x = beams[q][m].left /\ g = Trace(x, beams[q][m].beam)
      OBVIOUS
    <3>2. g \in Seq(Nat) /\ Trace(q, m) = <<x>> \o g
      BY <1>4, <2>2, <3>1
    <3>3. Trace(q, m) # <<>> /\ Trace(q, m)[1] = x
      BY <3>2
    <3>4. QED
      BY <3>1, <3>3 DEF Before
  <2>3. QED
    BY <2>1, <2>2
<1>6. CASE i = 1
  <2>1. h = <<>>
    BY <1>3, <1>6
  <2>2. l = Bos
    BY <1>2, <1>5, <2>1 DEF Before
  <2>3. beams[l][el.beam].left = -1
    <3>1. el.beam \in DOMAIN beams[Bos] /\ Bos \in NodeIds
      <4>1. Points(el, Start(r))
        BY <1>2, <1>4
      <4>2. el.beam \in DOMAIN beams[Bos]
        BY <1>2, <2>2, <4>1 DEF Points
      <4>3. Bos \in NodeIds
        BY <1>1 DEF NodeIds, Bos
      <4>4. QED
        BY <4>2, <4>3
    <3>2. beams[Bos][el.beam] = BosElement
      BY <3>1, BeamFacts
    <3>3. QED
      BY <2>2, <3>2 DEF BosElement, Element
  <2>4. PathTrigrams(w)[i] = <<-1, Bos, NodeOf(w, i)>>
    BY <1>1, <1>6, TrigramsOfPath
  <2>5. QED
    BY <1>2, <2>2, <2>3, <2>4 DEF TrigramOf
<1>7. CASE i # 1
  <2>1. h # <<>> /\ h[1] = w[i - 1] /\ i - 1 \in 1 .. Len(w) /\ w[i - 1] # Bos
    <3>1. 1 \in 1 .. i - 1 /\ i - 1 \in 1 .. Len(w)
      BY <1>1, <1>3, <1>7
    <3>2. h # <<>> /\ h[1] = w[i - 1]
      BY <1>3, <1>7, <3>1
    <3>3. w[i - 1] \in 1 .. Eos - 1
      BY <1>1, <3>1
    <3>4. QED
      BY <1>1, <3>1, <3>2, <3>3 DEF Bos
  <2>2. l = w[i - 1] /\ l # Bos
    BY <1>2, <1>5, <2>1 DEF Before
  <2>3. PICK g : g = Trace(l, el.beam)
    OBVIOUS
  <2>4. l \in 1 .. Eos /\ el.beam \in DOMAIN beams[l] /\ h = <<l>> \o g
    BY <1>2, <1>4, <2>2, <2>3
  <2>5. g \in Seq(Nat)
    BY <1>4, <2>3, <2>4
  <2>6. Len(g) = i - 2 /\ (i # 2 => g[1] = w[i - 2])
    <3>1. Len(h) = Len(g) + 1 /\ (\A j \in 1 .. Len(g) : h[j + 1] = g[j]) /\ Len(g) \in Nat
      BY <2>4, <2>5
    <3>2. Len(g) = i - 2
      BY <1>3, <3>1
    <3>3. i # 2 => 1 \in 1 .. Len(g) /\ 2 \in 1 .. i - 1
      BY <1>3, <1>7, <3>2
    <3>4. i # 2 => h[2] = g[1] /\ h[2] = w[i - 2]
      BY <1>3, <3>1, <3>3
    <3>5. QED
      BY <3>2, <3>4
  <2>7. beams[l][el.beam].left = IF i = 2 THEN Bos ELSE w[i - 2]
    <3>1. beams[l][el.beam].left = Before(g)
      BY <1>5, <2>3, <2>4
    <3>2. g = <<>> <=> i = 2
      BY <1>3, <2>5, <2>6
    <3>3. QED
      BY <2>6, <3>1, <3>2 DEF Before
  <2>8. PathTrigrams(w)[i] = <<IF i = 2 THEN Bos ELSE w[i - 2], w[i - 1], NodeOf(w, i)>>
    BY <1>1, <1>7, TrigramsOfPath
  <2>9. QED
    BY <1>2, <2>2, <2>7, <2>8 DEF TrigramOf
<1>8. QED
  BY <1>6, <1>7

\* All the elements of the best path have its trigrams.
LEMMA TrigramsOfBestPath ==
  ASSUME IInv, pc = "done"
  PROVE  /\ \A i \in 1 .. Len(Top1) :
              TrigramOf(beams[Top1[i].node][Top1[i].beam], TopWords[i]) = PathTrigrams(TopWords)[i]
         /\ TrigramOf(beams[Eos][1], Eos) = PathTrigrams(TopWords)[Len(TopWords) + 1]
<1>1. InputOK /\ TypesOK /\ BeamsOK /\ Eos \in 1 .. Eos /\ 1 \in DOMAIN beams[Eos]
  BY BestPathWords, NodesOfLattice DEF IInv
<1>2. PICK h, n, p, w : h = Trace(Eos, 1) /\ n = Len(h) /\ p = Top1 /\ w = TopWords
  OBVIOUS
<1>3. /\ p \in Seq([node : Nat, beam : Nat]) /\ Len(p) = n
      /\ \A i \in 1 .. n : /\ p[i].node = h[n - i + 1]
                           /\ p[i].beam \in DOMAIN beams[p[i].node]
                           /\ Trace(p[i].node, p[i].beam) = SubSeq(h, n - i + 2, n)
  BY <1>1, <1>2, PlacesOfElement DEF Top1
<1>4. h \in Seq(Nat) /\ n \in Nat /\ h \in Histories[Eos]
  <2>1. h \in Histories[Eos]
    BY <1>1, <1>2, ResultOfEos
  <2>2. h \in Seq(Nat)
    BY <1>1, <2>1, PathsOfLattice
  <2>3. QED
    BY <1>2, <2>1, <2>2
<1>5. /\ IsSegmentation(w) /\ Len(w) = n
      /\ \A i \in 1 .. n : w[i] = p[i].node /\ w[i] \in 1 .. Eos
  BY <1>2, <1>3, BestPathWords
<1>6. w = Reverse(h)
  <2>1. PICK v : v = Reverse(h)
    OBVIOUS
  <2>2. v \in Seq(Nat) /\ Backwards(v, h, n)
    BY <1>2, <1>4, <2>1, ReversedPrefix
  <2>3. Len(v) = n /\ \A i \in 1 .. n : v[i] = h[n - i + 1]
    BY <2>2 DEF Backwards
  <2>4. w \in Seq(Nat)
    BY <1>1, <1>5, Segmentation
  <2>5. \A i \in 1 .. n : w[i] = v[i]
    BY <1>3, <1>5, <2>3
  <2>6. w = v
    <3>1. w = [i \in 1 .. n |-> w[i]] /\ v = [i \in 1 .. n |-> v[i]]
      BY <1>4, <1>5, <2>2, <2>3, <2>4
    <3>2. QED
      BY <2>5, <3>1
  <2>7. QED
    BY <2>1, <2>6
<1>7. \A i \in 1 .. n + 1 : Upto(w, i) = SubSeq(h, n - i + 2, n)
  BY <1>2, <1>4, <1>6, ReversedPrefix DEF Backwards, Upto
<1>8. ASSUME NEW i \in 1 .. n
      PROVE  TrigramOf(beams[p[i].node][p[i].beam], w[i]) = PathTrigrams(w)[i]
  <2>1. PICK r, k : r = w[i] /\ k = p[i].beam
    OBVIOUS
  <2>2. i \in 1 .. Len(w) + 1 /\ i \in 1 .. n + 1 /\ i # Len(w) + 1
    BY <1>4, <1>5
  <2>3. r \in 1 .. Eos /\ k \in DOMAIN beams[r] /\ Trace(r, k) = Upto(w, i)
    BY <1>3, <1>5, <1>7, <2>1, <2>2
  <2>4. r = NodeOf(w, i)
    BY <2>1, <2>2 DEF NodeOf
  <2>5. TrigramOf(beams[r][k], r) = PathTrigrams(w)[i]
    BY <1>1, <1>5, <2>2, <2>3, <2>4, TrigramOnWay
  <2>6. QED
    BY <1>5, <2>1, <2>5
<1>9. TrigramOf(beams[Eos][1], Eos) = PathTrigrams(w)[Len(w) + 1]
  <2>1. PICK i : i = n + 1
    OBVIOUS
  <2>2. i \in 1 .. Len(w) + 1 /\ i = Len(w) + 1 /\ i \in 1 .. n + 1 /\ n - i + 2 = 1
    BY <1>4, <1>5, <2>1
  <2>3. Upto(w, i) = h
    <3>1. Upto(w, i) = SubSeq(h, 1, n)
      BY <1>7, <2>2
    <3>2. QED
      BY <1>2, <1>4, <3>1, SubSeqFull
  <2>4. Eos = NodeOf(w, i)
    BY <2>2 DEF NodeOf
  <2>5. TrigramOf(beams[Eos][1], Eos) = PathTrigrams(w)[i]
    BY <1>1, <1>2, <1>5, <2>2, <2>3, <2>4, TrigramOnWay
  <2>6. QED
    BY <2>2, <2>5
<1>10. QED
  BY <1>2, <1>3, <1>5, <1>8, <1>9

\* The trigrams of the gold nodes are those of the annotated path.
LEMMA TrigramsOfGold ==
  ASSUME InputOK, IsSegmentation(gold), NEW i \in 1 .. Len(gold) + 1
  PROVE  GoldTrigram(i - 1) = PathTrigrams(gold)[i]
<1>1. gold \in Seq(Nat) /\ Len(gold) \in Nat /\ i \in Nat
  BY Segmentation
<1>2. GoldNode((i - 1) - 2) = IF i = 1 THEN -1 ELSE IF i = 2 THEN Bos ELSE gold[i - 2]
  <2>1. CASE i = 1
    <3>1. (i - 1) - 2 = -2
      BY <2>1
    <3>2. QED
      BY <2>1, <3>1, NodesOfGold
  <2>2. CASE i = 2
    <3>1. (i - 1) - 2 = -1
      BY <2>2
    <3>2. QED
      BY <2>2, <3>1, NodesOfGold
  <2>3. CASE i # 1 /\ i # 2
    <3>1. i - 2 \in 1 .. Len(gold) /\ (i - 2) - 1 = (i - 1) - 2
      BY <1>1, <2>3
    <3>2. QED
      BY <2>3, <3>1, NodesOfGold
  <2>4. QED
    BY <2>1, <2>2, <2>3
<1>3. GoldNode((i - 1) - 1) = IF i = 1 THEN Bos ELSE gold[i - 1]
  <2>1. CASE i = 1
    <3>1. (i - 1) - 1 = -1
      BY <2>1
    <3>2. QED
      BY <2>1, <3>1, NodesOfGold
  <2>2. CASE i # 1
    <3>1. i - 1 \in 1 .. Len(gold)
      BY <1>1, <2>2
    <3>2. QED
      BY <2>2, <3>1, NodesOfGold
  <2>3. QED
    BY <2>1, <2>2
<1>4. GoldNode(i - 1) = NodeOf(gold, i)
  BY NodesOfGold
<1>5. PathTrigrams(gold)[i] = <<IF i = 1 THEN -1 ELSE IF i = 2 THEN Bos ELSE gold[i - 2],
                                IF i = 1 THEN Bos ELSE gold[i - 1], NodeOf(gold, i)>>
  BY <1>1, TrigramsOfPath
<1>6. QED
  BY <1>2, <1>3, <1>4, <1>5 DEF GoldTrigram

\* What is collected in the order of a path is within the path.
LEMMA CollectedWithin ==
  ASSUME NEW w, Len(w) \in Nat, NEW S, NEW n \in Nat, NEW D \in SUBSET (1 .. n), NEW f \in [D -> S],
         NEW place, \A i \in D : place[i] \in 1 .. Len(w) + 1 /\ f[i] = PathTrigrams(w)[place[i]],
         \A i, j \in D : i < j => place[i] < place[j]
  PROVE  Within(InOrder(f, n), w)
<1>1. PICK s, m : s = InOrder(f, n) /\ m = Len(s)
  OBVIOUS
<1>2. PICK p : s \in Seq(S) /\ PickedBy(p, s, f, n)
  BY <1>1, InOrderPicks
<1>3. m \in Nat /\ DOMAIN s = 1 .. m
  BY <1>1, <1>2
<1>4. /\ \A k \in 1 .. m : p[k] \in D /\ s[k] = f[p[k]]
      /\ \A j, k \in 1 .. m : j < k => p[j] < p[k]
  <2>1. DOMAIN f = D
    OBVIOUS
  <2>2. QED
    BY <1>1, <1>2, <2>1 DEF PickedBy
<1>. DEFINE at == [k \in 1 .. m |-> place[p[k]]]
<1>5. at \in [DOMAIN s -> 1 .. Len(w) + 1]
  BY <1>3, <1>4
<1>6. \A k \in 1 .. m : at[k] = place[p[k]]
  OBVIOUS
<1>. HIDE DEF at
<1>7. ASSUME NEW j \in DOMAIN s, NEW k \in DOMAIN s, j < k
      PROVE  at[j] < at[k]
  <2>1. p[j] \in D /\ p[k] \in D /\ p[j] < p[k]
    BY <1>3, <1>4, <1>7
  <2>2. place[p[j]] < place[p[k]]
    BY <2>1
  <2>3. QED
    BY <1>3, <1>6, <2>2
<1>8. \A k \in DOMAIN s : s[k] = PathTrigrams(w)[at[k]]
  BY <1>3, <1>4, <1>6
<1>9. QED
  BY <1>1, <1>5, <1>7, <1>8 DEF Within

\* Nodes of a segmentation that start one before the other are in this order.
LEMMA PlacesInOrder ==
  ASSUME InputOK, NEW w, IsSegmentation(w),
         NEW i \in 1 .. Len(w) + 1, NEW j \in 1 .. Len(w) + 1,
         Start(NodeOf(w, i)) < Start(NodeOf(w, j))
  PROVE  i < j
<1>1. /\ Len(w) \in Nat /\ lat.n \in Nat
      /\ Start(NodeOf(w, i)) \in 0 .. lat.n /\ Start(NodeOf(w, j)) \in 0 .. lat.n
      /\ j < i => Start(NodeOf(w, j)) < Start(NodeOf(w, i))
  BY Segmentation, NodesOfLattice
<1>2. i # j /\ ~(j < i)
  BY <1>1
<1>3. QED
  BY <1>1, <1>2

\* A step that compares a word of the best path has the trigram of this word.
OnBestPath(s) ==
  \E j \in 1 .. Len(TopWords) + 1 :
    s.top = NodeOf(TopWords, j) /\ s.topTrigram = PathTrigrams(TopWords)[j]

\* The n-grams of the steps are those of the best path, and what is collected
\* from them is within the path it is collected for.
FeaturesInv ==
  /\ \A i \in 1 .. Len(comparison) : comparison[i].top # 0 => OnBestPath(comparison[i])
  /\ loss # -1 => Within(goldFeatures, gold) /\ Within(top1Features, TopWords)

\* addGoldNgrams: each of the steps has its own place in the gold path.
LEMMA GoldCollected ==
  ASSUME IInv, CompareInv, EosCompared
  PROVE  Within(InOrder([i \in InError("TopOnly") |-> GoldTrigram(comparison[i].numGold)], Size), gold)
<1>1. PICK c, m, w : c = comparison /\ m = Size /\ w = gold
  OBVIOUS
<1>2. InputOK /\ IsSegmentation(w) /\ WalkOf(c, curTop, curGold) /\ m \in Nat /\ m = Len(c)
  BY <1>1, Ended, Compared DEF Size
<1>3. Len(w) \in Nat
  BY <1>2, Segmentation
<1>4. PICK D : D = InError("TopOnly")
  OBVIOUS
<1>5. D \in SUBSET (1 .. m) /\ \A i \in D : i \in Nat /\ c[i].class # "TopOnly"
  BY <1>1, <1>4 DEF InError
<1>6. /\ \A i \in 1 .. m : StepOK(c[i])
      /\ \A i, j \in 1 .. m : i < j => c[i].boundary < c[j].boundary
  BY <1>2 DEF WalkOf
<1>7. ASSUME NEW i \in D
      PROVE  /\ c[i].numGold \in 0 .. Len(w) /\ c[i].numGold + 1 \in 1 .. Len(w) + 1
             /\ (c[i].numGold + 1) - 1 = c[i].numGold
             /\ Start(NodeOf(w, c[i].numGold + 1)) = c[i].boundary
  <2>1. StepOK(c[i]) /\ c[i].class # "TopOnly"
    BY <1>5, <1>6
  <2>2. c[i].numGold \in 0 .. Len(w) /\ Start(NodeOf(w, c[i].numGold + 1)) = c[i].boundary
    BY <1>1, <2>1 DEF StepOK
  <2>3. QED
    BY <1>3, <2>2
<1>. DEFINE f == [i \in D |-> GoldTrigram(c[i].numGold)]
            S == {f[i] : i \in D}
            place == [i \in D |-> c[i].numGold + 1]
<1>8. \A i \in D : place[i] \in 1 .. Len(w) + 1 /\ f[i] = PathTrigrams(w)[place[i]]
  <2>1. TAKE i \in D
  <2>2. place[i] \in 1 .. Len(w) + 1 /\ place[i] - 1 = c[i].numGold
    BY <1>7
  <2>3. GoldTrigram(place[i] - 1) = PathTrigrams(w)[place[i]]
    BY <1>1, <1>2, <2>2, TrigramsOfGold
  <2>4. QED
    BY <2>2, <2>3
<1>9. ASSUME NEW i \in D, NEW j \in D, i < j
      PROVE  place[i] < place[j]
  <2>1. c[i].boundary < c[j].boundary
    BY <1>5, <1>6, <1>9
  <2>2. /\ place[i] \in 1 .. Len(w) + 1 /\ place[j] \in 1 .. Len(w) + 1
        /\ Start(NodeOf(w, place[i])) < Start(NodeOf(w, place[j]))
    BY <1>7, <2>1
  <2>. HIDE DEF place
  <2>3. QED
    BY <1>2, <2>2, PlacesInOrder
<1>10. f \in [D -> S]
  OBVIOUS
<1>11. f = [i \in InError("TopOnly") |-> GoldTrigram(comparison[i].numGold)]
  BY <1>1, <1>4
<1>. HIDE DEF f, S, place
<1>12. Within(InOrder(f, m), w)
  BY <1>2, <1>3, <1>5, <1>8, <1>9, <1>10, CollectedWithin
<1>13. QED
  BY <1>1, <1>11, <1>12

\* addTopNgrams: each of the steps has its own place in the best path.
LEMMA TopCollected ==
  ASSUME IInv, CompareInv, FeaturesInv, EosCompared
  PROVE  Within(InOrder([i \in InError("GoldOnly") |-> comparison[i].topTrigram], Size), TopWords)
<1>1. PICK c, m, w : c = comparison /\ m = Size /\ w = TopWords
  OBVIOUS
<1>2. InputOK /\ IsSegmentation(w) /\ WalkOf(c, curTop, curGold) /\ m \in Nat /\ m = Len(c)
  BY <1>1, Ended, Compared DEF Size
<1>3. Len(w) \in Nat
  BY <1>2, Segmentation
<1>4. PICK D : D = InError("GoldOnly")
  OBVIOUS
<1>5. D \in SUBSET (1 .. m) /\ \A i \in D : i \in Nat /\ c[i].class # "GoldOnly"
  BY <1>1, <1>4 DEF InError
<1>6. /\ \A i \in 1 .. m : StepOK(c[i])
      /\ \A i, j \in 1 .. m : i < j => c[i].boundary < c[j].boundary
  BY <1>2 DEF WalkOf
<1>. DEFINE Has(i, j) == c[i].top = NodeOf(w, j) /\ c[i].topTrigram = PathTrigrams(w)[j]
            place == [i \in D |-> CHOOSE j \in 1 .. Len(w) + 1 : Has(i, j)]
<1>7. ASSUME NEW i \in D
      PROVE  /\ place[i] \in 1 .. Len(w) + 1 /\ Has(i, place[i])
             /\ Start(NodeOf(w, place[i])) = c[i].boundary
  <2>1. StepOK(c[i]) /\ c[i].class # "GoldOnly" /\ i \in 1 .. m
    BY <1>5, <1>6
  <2>2. c[i].top # 0 /\ Start(c[i].top) = c[i].boundary
    BY <2>1 DEF StepOK
  <2>3. \E j \in 1 .. Len(w) + 1 : Has(i, j)
    BY <1>1, <1>2, <2>1, <2>2 DEF FeaturesInv, OnBestPath
  <2>4. place[i] = CHOOSE j \in 1 .. Len(w) + 1 : Has(i, j)
    OBVIOUS
  <2>. HIDE DEF place
  <2>5. place[i] \in 1 .. Len(w) + 1 /\ Has(i, place[i])
    BY <2>3, <2>4
  <2>6. QED
    BY <2>2, <2>5
<1>. DEFINE f == [i \in D |-> c[i].topTrigram]
            S == {f[i] : i \in D}
<1>. HIDE DEF place
<1>8. \A i \in D : place[i] \in 1 .. Len(w) + 1 /\ f[i] = PathTrigrams(w)[place[i]]
  BY <1>7
<1>9. ASSUME NEW i \in D, NEW j \in D, i < j
      PROVE  place[i] < place[j]
  <2>1. c[i].boundary < c[j].boundary
    BY <1>5, <1>6, <1>9
  <2>2. /\ place[i] \in 1 .. Len(w) + 1 /\ place[j] \in 1 .. Len(w) + 1
        /\ Start(NodeOf(w, place[i])) < Start(NodeOf(w, place[j]))
    BY <1>7, <2>1
  <2>3. QED
    BY <1>2, <2>2, PlacesInOrder
<1>10. f \in [D -> S]
  OBVIOUS
<1>11. f = [i \in InError("GoldOnly") |-> comparison[i].topTrigram]
  BY <1>1, <1>4
<1>. HIDE DEF f, S
<1>12. Within(InOrder(f, m), w)
  BY <1>2, <1>3, <1>5, <1>8, <1>9, <1>10, CollectedWithin
<1>13. QED
  BY <1>1, <1>11, <1>12

\* The next word of the best path has the trigram of its place.
LEMMA NextTrigram ==
  ASSUME IInv, CompareInv, Training, HasNextTop
  PROVE  /\ curTop + 1 \in 1 .. Len(TopWords) + 1
         /\ Top1[curTop + 1].node = NodeOf(TopWords, curTop + 1)
         /\ TrigramOf(TopElement, Top1[curTop + 1].node) = PathTrigrams(TopWords)[curTop + 1]
<1>1. pc = "done" /\ IsSegmentation(TopWords) /\ InputOK /\ WalkOf(comparison, curTop, curGold)
  BY BothPaths
<1>2. /\ curTop < Len(TopWords) /\ curTop \in 0 .. Len(TopWords) /\ Len(TopWords) \in Nat
      /\ Len(TopWords) = Len(Top1)
      /\ Top1[curTop + 1].node = TopWords[curTop + 1]
  BY <1>1, NextTop, BestPathWords DEF WalkOf
<1>3. PICK i : i = curTop + 1
  OBVIOUS
<1>4. i \in 1 .. Len(TopWords) + 1 /\ i \in 1 .. Len(Top1) /\ i # Len(TopWords) + 1
  BY <1>2, <1>3
<1>5. TopElement = beams[Top1[i].node][Top1[i].beam]
  BY <1>3 DEF TopElement
<1>6. TrigramOf(TopElement, TopWords[i]) = PathTrigrams(TopWords)[i]
  BY <1>1, <1>4, <1>5, TrigramsOfBestPath
<1>7. QED
  BY <1>2, <1>3, <1>4, <1>6 DEF NodeOf

\* The best path stays what it is, and so do its trigrams.
LEMMA FeaturesRest ==
  ASSUME vars' = vars
  PROVE  /\ \A s : OnBestPath(s)' <=> OnBestPath(s)
         /\ \A t, w : Within(t, w)' <=> Within(t, w)
         /\ TopWords' = TopWords
<1>1. lat' = lat /\ beams' = beams
  BY DEF vars
<1>2. Eos' = Eos /\ TopWords' = TopWords
  BY <1>1, LatticeStays, PlacesRest
<1>3. \A w : PathTrigrams(w)' = PathTrigrams(w)
  BY <1>2 DEF PathTrigrams, Bos
<1>4. \A w, i : NodeOf(w, i)' = NodeOf(w, i)
  BY <1>2 DEF NodeOf
<1>5. \A t, w : Within(t, w)' <=> Within(t, w)
  BY <1>3 DEF Within
<1>6. PICK u : u = TopWords
  OBVIOUS
<1>7. TopWords' = u
  BY <1>2, <1>6
<1>8. \A s : OnBestPath(s)' <=> OnBestPath(s)
  BY <1>3, <1>4, <1>6, <1>7 DEF OnBestPath
<1>9. QED
  BY <1>2, <1>5, <1>8

\* One more step is compared; if a word of the best path is, with its trigram.
LEMMA OneMoreStep ==
  ASSUME FeaturesInv, vars' = vars, comparison \in Seq(Steps),
         NEW e, comparison' = Append(comparison, e), e.top # 0 => OnBestPath(e), loss' = -1
  PROVE  FeaturesInv'
<1>1. PICK c, d, n : c = comparison /\ d = comparison' /\ n = Len(c)
  OBVIOUS
<1>. HIDE DEF Steps
<1>2. n \in Nat /\ Len(d) = n + 1 /\ d[n + 1] = e /\ \A i \in 1 .. n : d[i] = c[i]
  BY <1>1
<1>3. ASSUME NEW i \in 1 .. n + 1
      PROVE  d[i].top # 0 => OnBestPath(d[i])
  <2>1. CASE i = n + 1
    BY <1>2, <2>1
  <2>2. CASE i # n + 1
    <3>1. i \in 1 .. n
      BY <1>2, <2>2
    <3>2. QED
      BY <1>1, <1>2, <3>1 DEF FeaturesInv
  <2>3. QED
    BY <2>1, <2>2
<1>4. \A i \in 1 .. n + 1 : d[i].top # 0 => OnBestPath(d[i])'
  BY <1>3, FeaturesRest
<1>5. (\A i \in 1 .. Len(comparison) : comparison[i].top # 0 => OnBestPath(comparison[i]))'
  BY <1>1, <1>2, <1>4
<1>6. QED
  BY <1>5 DEF FeaturesInv

\* The comparison keeps to the trigrams of the two paths.
LEMMA CompareFeatures ==
  ASSUME IInv, CompareInv, FeaturesInv, Compare
  PROVE  FeaturesInv'
<1>1. CompareStep /\ vars' = vars
  BY DEF Compare
<1>2. Training /\ loss = -1 /\ gold' = gold
  BY <1>1 DEF CompareStep, CompareBoth, CompareTopOnly, CompareGoldOnly, CompareEos, ComputeLoss,
              Comparing, Training
<1>3. /\ InputOK /\ pc = "done" /\ IsSegmentation(TopWords) /\ WalkOf(comparison, curTop, curGold)
      /\ comparison \in Seq(Steps)
  BY <1>2, BothPaths DEF WalkOf
<1>4. PICK t, x : t = TrigramOf(TopElement, Top1[curTop + 1].node) /\ x = Top1[curTop + 1].node
  OBVIOUS
<1>5. ASSUME HasNextTop, NEW e, e.top = x, e.topTrigram = t
      PROVE  OnBestPath(e)
  BY <1>2, <1>4, <1>5, NextTrigram DEF OnBestPath
<1>6. CASE CompareBoth
  <2>1. HasNextTop
    <3>1. HasNextTop \/ HasNextGold
      BY <1>6 DEF CompareBoth, Comparing
    <3>2. GoldBoundary = TopBoundary
      BY <1>6 DEF CompareBoth, Order
    <3>3. (HasNextTop <=> TopBoundary # lat.n) /\ (HasNextGold <=> GoldBoundary # lat.n)
      BY <1>2, NextTop, NextGold
    <3>4. QED
      BY <3>1, <3>2, <3>3
  <2>2. PICK g, a, b, m, w, q, y :
          /\ y = GoldNode(curGold) /\ g = curGold /\ a = GoldScores[curGold]
          /\ b = TopElement.total - GoldScores[curGold]
          /\ m = Cardinality(Mismatches(x, y)) /\ w = WeightOf(Mismatches(x, y))
          /\ q = GoldStillInBeam(y, curGold)
    OBVIOUS
  <2>3. PICK e : e = [Step("Both", TopBoundary, x, y) EXCEPT
                        !.topTrigram = t, !.numGold = g, !.lastGoldScore = a, !.violation = b,
                        !.mismatches = m, !.weight = w, !.goldInBeam = q]
    OBVIOUS
  <2>4. comparison' = Append(comparison, e) /\ loss' = -1
    BY <1>2, <1>4, <1>6, <2>2, <2>3 DEF CompareBoth
  <2>5. e.top = x /\ e.topTrigram = t
    BY <2>3 DEF Step
  <2>6. QED
    BY <1>1, <1>3, <1>5, <2>1, <2>4, <2>5, OneMoreStep
<1>7. CASE CompareTopOnly
  <2>1. HasNextTop
    <3>1. GoldBoundary > TopBoundary
      <4>1. Order(GoldBoundary, TopBoundary) = "TopOnly"
        BY <1>7 DEF CompareTopOnly
      <4>2. GoldBoundary \in 0 .. lat.n /\ TopBoundary \in 0 .. lat.n /\ lat.n \in Nat
        BY <1>2, <1>3, NextTop, NextGold, NodesOfLattice
      <4>3. QED
        BY <4>1, <4>2 DEF Order
    <3>2. TopBoundary # lat.n
      <4>1. GoldBoundary \in 0 .. lat.n /\ TopBoundary \in 0 .. lat.n /\ lat.n \in Nat
        BY <1>2, <1>3, NextTop, NextGold, NodesOfLattice
      <4>2. QED
        BY <3>1, <4>1
    <3>3. QED
      BY <1>2, <3>2, NextTop
  <2>2. PICK a, b : a = LastGoldScore /\ b = TopElement.total - LastGoldScore
    OBVIOUS
  <2>3. PICK e : e = [Step("TopOnly", TopBoundary, x, 0) EXCEPT
                        !.topTrigram = t, !.lastGoldScore = a, !.violation = b]
    OBVIOUS
  <2>4. comparison' = Append(comparison, e) /\ loss' = -1
    BY <1>2, <1>4, <1>7, <2>2, <2>3 DEF CompareTopOnly
  <2>5. e.top = x /\ e.topTrigram = t
    BY <2>3 DEF Step
  <2>6. QED
    BY <1>1, <1>3, <1>5, <2>1, <2>4, <2>5, OneMoreStep
<1>8. CASE CompareGoldOnly
  <2>1. PICK g, a, q, y :
          /\ y = GoldNode(curGold) /\ g = curGold /\ a = GoldScores[curGold]
          /\ q = GoldStillInBeam(y, curGold)
    OBVIOUS
  <2>2. PICK e : e = [Step("GoldOnly", GoldBoundary, 0, y) EXCEPT
                        !.numGold = g, !.lastGoldScore = a, !.goldInBeam = q]
    OBVIOUS
  <2>3. comparison' = Append(comparison, e) /\ loss' = -1
    BY <1>2, <1>8, <2>1, <2>2 DEF CompareGoldOnly
  <2>4. e.top = 0
    BY <2>2 DEF Step
  <2>5. QED
    BY <1>1, <1>3, <2>3, <2>4, OneMoreStep
<1>9. CASE CompareEos
  <2>1. PICK g, a, b, q, p :
          /\ g = curGold /\ a = GoldScores[curGold] /\ b = beams[Eos][1].total - GoldScores[curGold]
          /\ q = GoldStillInBeam(Eos, curGold) /\ p = TrigramOf(beams[Eos][1], Eos)
    OBVIOUS
  <2>2. PICK e : e = [Step("Both", lat.n, Eos, Eos) EXCEPT
                        !.topTrigram = p, !.numGold = g, !.lastGoldScore = a,
                        !.violation = b, !.goldInBeam = q]
    OBVIOUS
  <2>3. comparison' = Append(comparison, e) /\ loss' = -1
    BY <1>2, <1>9, <2>1, <2>2 DEF CompareEos
  <2>4. e.top = Eos /\ e.topTrigram = p
    BY <2>2 DEF Step
  <2>5. OnBestPath(e)
    <3>1. Len(TopWords) \in Nat /\ p = PathTrigrams(TopWords)[Len(TopWords) + 1]
      BY <1>3, <2>1, Segmentation, TrigramsOfBestPath
    <3>2. Len(TopWords) + 1 \in 1 .. Len(TopWords) + 1 /\ NodeOf(TopWords, Len(TopWords) + 1) = Eos
      BY <3>1 DEF NodeOf
    <3>3. QED
      BY <2>4, <3>1, <3>2 DEF OnBestPath
  <2>6. QED
    BY <1>1, <1>3, <2>3, <2>5, OneMoreStep
<1>10. CASE ComputeLoss
  <2>1. EosCompared /\ comparison' = comparison
    BY <1>10 DEF ComputeLoss
  <2>2. PICK a, b, u, v : a = goldFeatures' /\ b = top1Features' /\ u = gold /\ v = TopWords
    OBVIOUS
  <2>3. Within(a, u) /\ Within(b, v)
    BY <1>10, <2>1, <2>2, GoldCollected, TopCollected DEF ComputeLoss
  <2>4. Within(a, u)' /\ Within(b, v)' /\ TopWords' = v /\ gold' = u
    BY <1>1, <1>2, <2>2, <2>3, FeaturesRest
  <2>5. Within(goldFeatures, gold)' /\ Within(top1Features, TopWords)'
    BY <2>2, <2>4
  <2>6. (\A i \in 1 .. Len(comparison) : comparison[i].top # 0 => OnBestPath(comparison[i]))'
    <3>1. PICK c : c = comparison
      OBVIOUS
    <3>2. \A i \in 1 .. Len(c) : c[i].top # 0 => OnBestPath(c[i])
      BY <3>1 DEF FeaturesInv
    <3>3. \A i \in 1 .. Len(c) : c[i].top # 0 => OnBestPath(c[i])'
      BY <1>1, <3>2, FeaturesRest
    <3>4. QED
      BY <2>1, <3>1, <3>3
  <2>7. QED
    BY <2>5, <2>6 DEF FeaturesInv
<1>11. QED
  BY <1>1, <1>6, <1>7, <1>8, <1>9, <1>10 DEF CompareStep

\* Where nothing is compared nothing changes.
LEMMA OthersKeepFeatures ==
  ASSUME FeaturesInv, UNCHANGED vars, UNCHANGED lossVars
  PROVE  FeaturesInv'
<1>1. /\ vars' = vars /\ gold' = gold /\ comparison' = comparison /\ loss' = loss
      /\ goldFeatures' = goldFeatures /\ top1Features' = top1Features
  BY DEF lossVars
<1>2. PICK c, a, b, u, v : /\ c = comparison /\ a = goldFeatures /\ b = top1Features
                           /\ u = gold /\ v = TopWords
  OBVIOUS
<1>3. TopWords' = v
  BY <1>1, <1>2, FeaturesRest
<1>4. \A i \in 1 .. Len(c) : c[i].top # 0 => OnBestPath(c[i])'
  BY <1>1, <1>2, FeaturesRest DEF FeaturesInv
<1>5. loss # -1 => Within(a, u)' /\ Within(b, v)'
  BY <1>1, <1>2, FeaturesRest DEF FeaturesInv
<1>6. (\A i \in 1 .. Len(comparison) : comparison[i].top # 0 => OnBestPath(comparison[i]))'
  BY <1>1, <1>2, <1>4
<1>7. (loss # -1 => Within(goldFeatures, gold) /\ Within(top1Features, TopWords))'
  BY <1>1, <1>2, <1>3, <1>5
<1>8. QED
  BY <1>6, <1>7 DEF FeaturesInv

\* Whatever is trained on: all the steps have the trigrams of their words, and
\* the n-grams collected are of the path they are collected for.
THEOREM FeaturesInvAlways == ScoringSpec => []FeaturesInv
<1>1. Fresh => FeaturesInv
  BY DEF Fresh, FeaturesInv
<1>2. ScoringInit => FeaturesInv
  BY <1>1 DEF ScoringInit, CompareInit, Fresh
<1>3. ScoringInv /\ FeaturesInv /\ [ScoringNext]_allVars => FeaturesInv'
  <2>. SUFFICES ASSUME IInv, CompareInv, FeaturesInv, [ScoringNext]_allVars PROVE FeaturesInv'
    BY DEF ScoringInv
  <2>1. CASE Analyse
    <3>1. pc # "done" /\ UNCHANGED lossVars
      BY <2>1 DEF Analyse, ScoreFull, ScoreGlobal, SkipBoundary, AdjustBoundary, RemakeEosBeam, FillIn
    <3>2. Fresh
      BY <3>1 DEF CompareInv
    <3>3. comparison' = <<>> /\ loss' = -1
      BY <3>1, <3>2 DEF Fresh, lossVars
    <3>4. QED
      BY <3>3 DEF FeaturesInv
  <2>2. CASE Compare
    BY <2>2, CompareFeatures
  <2>3. CASE Correct \/ Finished \/ UNCHANGED allVars
    <3>1. UNCHANGED vars /\ UNCHANGED lossVars
      BY <2>3 DEF Correct, Finished, allVars
    <3>2. QED
      BY <3>1, OthersKeepFeatures
  <2>4. QED
    BY <2>1, <2>2, <2>3 DEF ScoringNext
<1>4. QED
  BY <1>2, <1>3, ScoringInvAlways, PTL DEF ScoringSpec

\* computeLoss, in every mode: the features end within the comparison, and the
\* n-grams collected for either path are n-grams of this path, in its order, each
\* place of it once.
THEOREM FeaturesAreOfOwnPath == ScoringSpec => []FeaturesOfOwnPath
<1>1. ScoringInv /\ FeaturesInv => FeaturesOfOwnPath
  BY StepsAreUsed DEF ScoringInv, FeaturesInv, FeaturesOfOwnPath
<1>2. QED
  BY <1>1, ScoringInvAlways, FeaturesInvAlways, PTL

-------------------------------------------------------------------------------
(* The balance of the update                                               *)

\* The scores of the features of one correction: each that is lost counts the
\* same, and they are handed out to those that gain.
Updating(scores) ==
  /\ IsFiniteSet(DOMAIN scores)
  /\ \A x \in Lost(scores) : scores[x] = -Unit
  /\ \A x \in Gained(scores) :
       scores[x] = (Unit * Cardinality(Lost(scores))) \div Cardinality(Gained(scores))

\* A correction in figures: what is lost is what is gained, but for the rest that
\* cannot be handed out.
LEMMA HandedOut ==
  ASSUME NEW F, Updating(F)
  PROVE  /\ Cardinality(Lost(F)) \in Nat /\ Cardinality(Gained(F)) \in Nat
         /\ Lost(F) \in SUBSET DOMAIN F /\ Gained(F) \in SUBSET DOMAIN F
         /\ Imbalance(F) \in Int
         /\ \E w \in Int : /\ \A x \in Gained(F) : F[x] = w
                           /\ (-Unit) * Cardinality(Lost(F)) + w * Cardinality(Gained(F)) = Imbalance(F)
         /\ Cardinality(DOMAIN F) \in Nat /\ (Cardinality(DOMAIN F) = 0 <=> DOMAIN F = {})
<1>1. Lost(F) \in SUBSET DOMAIN F /\ Gained(F) \in SUBSET DOMAIN F /\ Lost(F) \cap Gained(F) = {}
  BY DEF Lost, Gained
<1>2. IsFiniteSet(DOMAIN F) /\ IsFiniteSet(Lost(F)) /\ IsFiniteSet(Gained(F))
  BY <1>1, FS_Subset DEF Updating
<1>3. PICK p, q : p = Cardinality(Lost(F)) /\ q = Cardinality(Gained(F))
  OBVIOUS
<1>4. p \in Nat /\ q \in Nat /\ (q = 0 <=> Gained(F) = {})
  BY <1>2, <1>3, FS_CardinalityType, FS_EmptySet
<1>5. Cardinality(DOMAIN F) \in Nat /\ (Cardinality(DOMAIN F) = 0 <=> DOMAIN F = {})
  BY <1>2, FS_CardinalityType, FS_EmptySet
<1>6. Unit \in Nat
  BY PartialConstants
<1>7. PICK u : u = Unit * p
  OBVIOUS
<1>8. u \in Nat /\ (-Unit) * p = -u
  <2>1. (-Unit) * p = -(Unit * p) /\ Unit * p \in Nat
    BY <1>4, <1>6
  <2>2. QED
    BY <1>7, <2>1
<1>. DEFINE Shared(w) == (\A x \in Gained(F) : F[x] = w) /\ -u + w * q = Imbalance(F)
<1>9. ASSUME q = 0 PROVE (\E w \in Int : Shared(w)) /\ Imbalance(F) \in Int
  <2>1. Gained(F) = {} /\ Imbalance(F) = -u
    BY <1>3, <1>4, <1>7, <1>9 DEF Imbalance
  <2>2. -u + 0 * q = Imbalance(F) /\ -u \in Int
    BY <1>8, <1>9, <2>1
  <2>3. \A x \in Gained(F) : F[x] = 0
    BY <2>1
  <2>4. Shared(0)
    BY <2>2, <2>3 DEF Shared
  <2>5. QED
    BY <2>1, <2>2, <2>4
<1>10. ASSUME q # 0 PROVE (\E w \in Int : Shared(w)) /\ Imbalance(F) \in Int
  <2>1. PICK w : w = u \div q
    OBVIOUS
  <2>2. Imbalance(F) = -(u % q)
    BY <1>3, <1>4, <1>7, <1>10 DEF Imbalance
  <2>3. u = q * (u \div q) + (u % q) /\ u \div q \in Int /\ u % q \in Int
    BY <1>4, <1>8, <1>10
  <2>4. w \in Int /\ q * w = w * q /\ w * q \in Int
    BY <1>4, <2>1, <2>3
  <2>5. -u + w * q = Imbalance(F)
    BY <1>8, <2>1, <2>2, <2>3, <2>4
  <2>6. \A x \in Gained(F) : F[x] = w
    BY <1>3, <1>7, <2>1 DEF Updating
  <2>7. Shared(w)
    BY <2>5, <2>6 DEF Shared
  <2>8. Imbalance(F) \in Int
    BY <2>2, <2>3
  <2>9. QED
    BY <2>4, <2>7, <2>8
<1>12. PICK w \in Int : Shared(w)
  BY <1>9, <1>10
<1>13. (-Unit) * Cardinality(Lost(F)) + w * Cardinality(Gained(F)) = Imbalance(F)
  BY <1>3, <1>8, <1>12 DEF Shared
<1>14. Imbalance(F) \in Int
  BY <1>9, <1>10
<1>15. \A x \in Gained(F) : F[x] = w
  BY <1>12 DEF Shared
<1>16. Cardinality(Lost(F)) \in Nat /\ Cardinality(Gained(F)) \in Nat
  BY <1>3, <1>4
<1>11. QED
  BY <1>1, <1>5, <1>13, <1>14, <1>15, <1>16

\* The scores of one correction, added up
LEMMA CorrectionBalances ==
  ASSUME NEW e, NEW n, NEW I, Numbering(e, n, I), NEW F, DOMAIN F \subseteq I, Updating(F),
         NEW g, g = [k \in 1 .. n |-> IF e[k] \in DOMAIN F THEN F[e[k]] ELSE 0]
  PROVE  g \in [1 .. n -> Int] /\ SumTo(g, n) = Imbalance(F)
<1>1. PICK p, q, w, u, L, G :
        /\ L = Lost(F) /\ G = Gained(F) /\ u = -Unit
        /\ p = Cardinality(L) /\ q = Cardinality(G) /\ p \in Nat /\ q \in Nat /\ w \in Int
        /\ \A x \in G : F[x] = w
        /\ u * p + w * q = Imbalance(F)
  BY HandedOut
<1>a. w \in Int /\ \A x \in G : F[x] = w
  BY <1>1
<1>b. u * p + w * q = Imbalance(F)
  BY <1>1
<1>c. p = Cardinality(L) /\ q = Cardinality(G)
  BY <1>1
<1>2. /\ u \in Int /\ n \in Nat
      /\ L \in SUBSET I /\ G \in SUBSET I /\ L \cap G = {} /\ DOMAIN F = L \cup G
      /\ \A x \in L : F[x] = u
  <2>1. u = -Unit /\ L = Lost(F) /\ G = Gained(F)
    BY <1>1
  <2>2. u \in Int /\ n \in Nat
    BY <2>1, PartialConstants DEF Numbering
  <2>3. L \in SUBSET I /\ G \in SUBSET I /\ L \cap G = {} /\ DOMAIN F = L \cup G
    BY <2>1 DEF Lost, Gained
  <2>4. \A x \in L : F[x] = u
    BY <2>1 DEF Updating
  <2>5. QED
    BY <2>2, <2>3, <2>4
<1>3. PICK K, M, a, b :
        /\ K = {k \in 1 .. n : e[k] \in L} /\ M = {k \in 1 .. n : e[k] \in G}
        /\ a = [k \in 1 .. n |-> IF k \in K THEN u ELSE 0]
        /\ b = [k \in 1 .. n |-> IF k \in M THEN w ELSE 0]
  OBVIOUS
<1>4. K \in SUBSET (1 .. n) /\ M \in SUBSET (1 .. n) /\ Cardinality(K) = p /\ Cardinality(M) = q
  <2>a. ASSUME NEW T \in SUBSET I
        PROVE  LET Z == {k \in 1 .. n : e[k] \in T} IN Z \in SUBSET (1 .. n) /\ Cardinality(Z) = Cardinality(T)
    BY NumbersOfPart
  <2>b. L \in SUBSET I /\ G \in SUBSET I
    BY <1>2
  <2>1. K \in SUBSET (1 .. n) /\ Cardinality(K) = Cardinality(L)
    BY <1>3, <2>a, <2>b
  <2>2. M \in SUBSET (1 .. n) /\ Cardinality(M) = Cardinality(G)
    BY <1>3, <2>a, <2>b
  <2>3. QED
    BY <1>c, <2>1, <2>2
<1>5. SumTo(a, n) = u * p /\ SumTo(b, n) = w * q
  <2>1. SumTo(a, n) = u * Cardinality(K)
    BY <1>2, <1>3, <1>4, SumOfSome
  <2>2. SumTo(b, n) = w * Cardinality(M)
    BY <1>2, <1>3, <1>4, <1>a, SumOfSome
  <2>3. QED
    BY <1>4, <2>1, <2>2
<1>6. \A k \in 1 .. n : a[k] \in Int /\ b[k] \in Int /\ g[k] = a[k] + b[k]
  <2>1. TAKE k \in 1 .. n
  <2>2. CASE e[k] \in L
    <3>1. e[k] \notin G /\ e[k] \in DOMAIN F /\ k \in K /\ k \notin M
      BY <1>2, <1>3, <2>2
    <3>2. g[k] = u /\ a[k] = u /\ b[k] = 0
      BY <1>2, <1>3, <2>2, <3>1
    <3>3. QED
      BY <1>2, <3>2
  <2>3. CASE e[k] \in G
    <3>1. e[k] \notin L /\ e[k] \in DOMAIN F /\ k \notin K /\ k \in M
      BY <1>2, <1>3, <2>3
    <3>2. g[k] = w /\ a[k] = 0 /\ b[k] = w
      BY <1>a, <1>3, <2>3, <3>1
    <3>3. QED
      BY <1>a, <3>2
  <2>4. CASE e[k] \notin L /\ e[k] \notin G
    <3>1. e[k] \notin DOMAIN F /\ k \notin K /\ k \notin M
      BY <1>2, <1>3, <2>4
    <3>2. g[k] = 0 /\ a[k] = 0 /\ b[k] = 0
      BY <1>3, <3>1
    <3>3. QED
      BY <3>2
  <2>5. QED
    BY <2>2, <2>3, <2>4
<1>7. SumTo(g, n) = SumTo(a, n) + SumTo(b, n)
  <2>1. n \in Nat
    BY <1>2
  <2>2. QED
    BY <1>6, <2>1, SumsAdd
<1>8. \A k \in 1 .. n : g[k] \in Int
  BY <1>6
<1>9. QED
  BY <1>b, <1>5, <1>7, <1>8

\* Adding up the scores of all the corrections feature by feature keeps what each
\* of them adds up to.
LEMMA CorrectionsBalance ==
  ASSUME NEW m \in Nat, Len(features) = m, DOMAIN features = 1 .. m,
         \A i \in 1 .. m : Updating(features[i]),
         NEW r, r = [i \in 1 .. m |-> Imbalance(features[i])]
  PROVE  SumFunction([x \in UNION {DOMAIN features[i] : i \in DOMAIN features} |-> Total(x)]) = SumTo(r, m)
<1>. DEFINE dom == [i \in 1 .. m |-> DOMAIN features[i]]
            names == UNION {DOMAIN features[i] : i \in DOMAIN features}
            sums == [x \in names |-> Total(x)]
<1>1. IsFiniteSet(names)
  <2>1. IsFiniteSet({dom[i] : i \in 1 .. m})
    <3>1. IsFiniteSet(1 .. m)
      BY FS_Interval
    <3>2. dom = [i \in 1 .. m |-> dom[i]]
      OBVIOUS
    <3>. HIDE DEF dom
    <3>3. QED
      BY <3>1, <3>2, ImageIsFinite
  <2>2. \A d \in {dom[i] : i \in 1 .. m} : IsFiniteSet(d)
    BY DEF Updating
  <2>3. names = UNION {dom[i] : i \in 1 .. m}
    OBVIOUS
  <2>4. QED
    BY <2>1, <2>2, <2>3, FS_UNION
<1>2. PICK I : I = names
  OBVIOUS
<1>3. PICK e, n : Numbering(e, n, I)
  BY <1>1, <1>2, NumberingExists
<1>4. n \in Nat /\ \A k \in 1 .. n : e[k] \in I
  BY <1>3 DEF Numbering
<1>. DEFINE row(i) == [k \in 1 .. n |-> IF e[k] \in DOMAIN features[i] THEN features[i][e[k]] ELSE 0]
<1>5. ASSUME NEW i \in 1 .. m
      PROVE  row(i) \in [1 .. n -> Int] /\ SumTo(row(i), n) = r[i] /\ r[i] \in Int
  <2>1. PICK F : F = features[i]
    OBVIOUS
  <2>2. DOMAIN F \subseteq I /\ Updating(F) /\ r[i] = Imbalance(F)
    BY <1>2, <2>1
  <2>3. PICK g : g = [k \in 1 .. n |-> IF e[k] \in DOMAIN F THEN F[e[k]] ELSE 0]
    OBVIOUS
  <2>4. g \in [1 .. n -> Int] /\ SumTo(g, n) = Imbalance(F)
    BY <1>3, <2>2, <2>3, CorrectionBalances
  <2>5. Imbalance(F) \in Int
    BY <2>2, HandedOut
  <2>6. QED
    BY <2>1, <2>2, <2>3, <2>4, <2>5
<1>. DEFINE h == [i \in 1 .. m |-> row(i)]
            cols == [k \in 1 .. n |-> SumTo([i \in 1 .. m |-> h[i][k]], m)]
<1>6. SumTo(cols, n) = SumTo(r, m)
  <2>. HIDE DEF row
  <2>1. h \in [1 .. m -> [1 .. n -> Int]] /\ \A i \in 1 .. m : SumTo(h[i], n) = r[i]
    BY <1>5
  <2>a. r \in [1 .. m -> Int]
    BY <1>5
  <2>. HIDE DEF h
  <2>2. QED
    BY <1>4, <2>1, <2>a, SumOfRows
<1>7. ASSUME NEW x \in I
      PROVE  Total(x) \in Int /\ \A k \in 1 .. n : e[k] = x => Total(x) = cols[k]
  <2>1. PICK k \in 1 .. n : e[k] = x
    BY <1>3 DEF Numbering
  <2>2. \A j \in 1 .. n : e[j] = x => j = k
    BY <1>3, <2>1 DEF Numbering
  <2>. DEFINE c == [i \in DOMAIN features |-> IF x \in DOMAIN features[i] THEN features[i][x] ELSE 0]
              d == [i \in 1 .. m |-> h[i][k]]
  <2>3. c = d
    BY <2>1
  <2>4. \A i \in 1 .. m : d[i] \in Int
    <3>1. TAKE i \in 1 .. m
    <3>2. row(i)[k] \in Int
      BY <1>5
    <3>3. d[i] = row(i)[k]
      OBVIOUS
    <3>4. QED
      BY <3>2, <3>3
  <2>5. Total(x) = SumTo(c, m)
    BY DEF Total
  <2>6. cols[k] = SumTo(d, m)
    OBVIOUS
  <2>7. SumTo(d, m) \in Int
    <3>. HIDE DEF d
    <3>1. QED
      BY <2>4, SumOfInts
  <2>. HIDE DEF c, d, cols
  <2>8. QED
    BY <2>2, <2>3, <2>5, <2>6, <2>7
<1>8. SumFunction(sums) = SumTo(r, m)
  <2>1. DOMAIN sums = I /\ \A x \in I : sums[x] = Total(x)
    BY <1>2
  <2>. DEFINE v == [k \in 1 .. n |-> sums[e[k]]]
  <2>. HIDE DEF sums, cols
  <2>2. SumFunction(sums) = SumFunctionOnSet(sums, I)
    BY <2>1 DEF SumFunction
  <2>3. \A x \in I : sums[x] \in Int
    BY <1>7, <2>1
  <2>4. SumFunctionOnSet(sums, I) = SumTo(v, n)
    BY <1>3, <2>3, SumOverSet
  <2>5. \A k \in 1 .. n : v[k] = cols[k]
    BY <1>4, <1>7, <2>1
  <2>. HIDE DEF v
  <2>6. SumTo(v, n) = SumTo(cols, n)
    BY <1>4, <2>5, SumOfSame
  <2>7. QED
    BY <1>6, <2>2, <2>4, <2>6
<1>9. QED
  BY <1>8

\* More entries than one are those of some feature.
LEMMA EntriesHaveFeatures ==
  ASSUME NEW m \in Nat, Len(features) = m, DOMAIN features = 1 .. m,
         \A i \in 1 .. m : Updating(features[i])
  PROVE  /\ Entries \in Nat
         /\ ~(Entries <= 1) => \E i \in 1 .. m : DOMAIN features[i] # {}
<1>. DEFINE c == [i \in DOMAIN features |-> Cardinality(DOMAIN features[i])]
<1>1. Entries = SumTo(c, m)
  BY DEF Entries
<1>2. \A i \in 1 .. m : c[i] \in Nat /\ (DOMAIN features[i] = {} => c[i] = 0)
  BY HandedOut
<1>. HIDE DEF c
<1>3. SumTo(c, m) \in Nat
  BY <1>2, SumOfNats DEF Summing
<1>4. ASSUME \A i \in 1 .. m : DOMAIN features[i] = {}
      PROVE  SumTo(c, m) = 0
  <2>1. PICK z : z = [k \in 1 .. m |-> IF k \in {} THEN 0 ELSE 0]
    OBVIOUS
  <2>2. SumTo(z, m) = 0 * Cardinality({})
    <3>1. {} \in SUBSET (1 .. m) /\ 0 \in Int
      OBVIOUS
    <3>2. QED
      BY ONLY m \in Nat, <2>1, <3>1, SumOfSome
  <2>3. Cardinality({}) = 0
    BY FS_EmptySet
  <2>4. \A i \in 1 .. m : c[i] = z[i]
    BY <1>2, <1>4, <2>1
  <2>5. SumTo(c, m) = SumTo(z, m)
    BY <2>4, SumOfSame
  <2>6. QED
    BY <2>2, <2>3, <2>5
<1>5. QED
  BY <1>1, <1>3, <1>4

\* The nodes that features can be of, those before the sentence included
FeatureNodes == -1 .. Eos

\* There are finitely many features of finitely many nodes.
LEMMA FeaturesAreFinite ==
  ASSUME Eos \in Nat, NEW T, \A t \in T : \E x, y, z \in FeatureNodes : t = <<x, y, z>>
  PROVE  IsFiniteSet(AllFeaturesOf(T))
<1>. DEFINE C == FeatureNodes
            P == C \X (C \X C)
            one == [p \in P |-> <<Value(p[2][2])>>]
            two == [p \in P |-> <<Value(p[2][1]), Value(p[2][2])>>]
            three == [p \in P |-> <<Value(p[1]), Value(p[2][1]), Value(p[2][2])>>]
<1>1. IsFiniteSet(C)
  <2>1. -1 \in Int /\ Eos \in Int
    OBVIOUS
  <2>2. QED
    BY <2>1, FS_Interval DEF FeatureNodes
<1>2. IsFiniteSet(P)
  BY <1>1, FS_Product
<1>3. one = [p \in P |-> one[p]] /\ two = [p \in P |-> two[p]] /\ three = [p \in P |-> three[p]]
  OBVIOUS
<1>4. ASSUME NEW x \in C, NEW y \in C, NEW z \in C
      PROVE  \E p \in P : FeaturesOf(<<x, y, z>>) = {one[p], two[p], three[p]}
  <2>1. PICK p : p = <<x, <<y, z>>>>
    OBVIOUS
  <2>2. p \in P /\ p[1] = x /\ p[2][1] = y /\ p[2][2] = z
    BY <2>1
  <2>3. one[p] = <<Value(z)>> /\ two[p] = <<Value(y), Value(z)>> /\ three[p] = <<Value(x), Value(y), Value(z)>>
    BY <2>2
  <2>4. FeaturesOf(<<x, y, z>>) = {<<Value(z)>>, <<Value(y), Value(z)>>, <<Value(x), Value(y), Value(z)>>}
    BY DEF FeaturesOf
  <2>. HIDE DEF one, two, three
  <2>5. QED
    BY <2>2, <2>3, <2>4
<1>. HIDE DEF one, two, three, P
<1>5. IsFiniteSet({one[p] : p \in P}) /\ IsFiniteSet({two[p] : p \in P}) /\ IsFiniteSet({three[p] : p \in P})
  BY <1>2, <1>3, ImageIsFinite
<1>6. PICK A, B, D : A = {one[p] : p \in P} /\ B = {two[p] : p \in P} /\ D = {three[p] : p \in P}
  OBVIOUS
<1>7. IsFiniteSet(A \cup B \cup D)
  BY <1>5, <1>6, FS_Union
<1>8. AllFeaturesOf(T) \subseteq A \cup B \cup D
  <2>1. SUFFICES ASSUME NEW t \in T PROVE FeaturesOf(t) \subseteq A \cup B \cup D
    BY DEF AllFeaturesOf
  <2>2. PICK p \in P : FeaturesOf(t) = {one[p], two[p], three[p]}
    BY <1>4
  <2>3. QED
    BY <1>6, <2>2
<1>9. QED
  BY <1>7, <1>8, FS_Subset

\* What is visited before, as far as features are made of it
VisitedOK(after) ==
  after # <<>> => /\ Last(after).node \in FeatureNodes
                  /\ ~(Len(after) < 2) => after[Len(after) - 1].node \in FeatureNodes

LEMMA FollowingNodes ==
  ASSUME NEW node \in FeatureNodes, NEW left \in FeatureNodes, NEW after, VisitedOK(after)
  PROVE  \A t \in Following(node, left, after) : \E x, y, z \in FeatureNodes : t = <<x, y, z>>
<1>1. CASE after = <<>> \/ ~Matches(Last(after).node)
  <2>1. Following(node, left, after) = {}
    BY <1>1 DEF Following
  <2>2. QED
    BY <2>1
<1>2. CASE ~(after = <<>> \/ ~Matches(Last(after).node))
  <2>1. PICK x, y : x = Last(after).node /\ y = after[Len(after) - 1].node
    OBVIOUS
  <2>2. x \in FeatureNodes /\ (~(Len(after) < 2) => y \in FeatureNodes)
    BY <1>2, <2>1 DEF VisitedOK
  <2>3. \A t \in Following(node, left, after) :
           t = <<left, node, x>> \/ (~(Len(after) < 2) /\ t = <<node, x, y>>)
    BY <1>2, <2>1 DEF Following
  <2>4. QED
    BY <2>2, <2>3
<1>3. QED
  BY <1>1, <1>2

\* The context of a candidate is made of nodes of the lattice.
LEMMA ContextNodes ==
  ASSUME InputOK, NEW r \in 1 .. Eos, NEW l \in Left(Start(r)),
         NEW k, k \in (IF l = Bos THEN {-1} ELSE Left(Start(l)))
  PROVE  {r, l, k} \subseteq FeatureNodes
<1>1. Eos \in Nat /\ Start(r) \in 0 .. lat.n
  BY NodesOfLattice
<1>2. l \in Nat /\ l < Eos /\ (l # Bos => Start(l) \in 0 .. lat.n)
  BY <1>1, NodesOfLattice
<1>3. k = -1 \/ (k \in Nat /\ k < Eos)
  BY <1>2, NodesOfLattice
<1>4. \A x \in Nat : x <= Eos => x \in FeatureNodes
  BY <1>1 DEF FeatureNodes
<1>5. -1 \in FeatureNodes
  BY <1>1 DEF FeatureNodes
<1>6. QED
  BY <1>1, <1>2, <1>3, <1>4, <1>5

\* addFeatures: what is lost is handed out to what gains.
LEMMA ScoresOfCorrection ==
  ASSUME NEW good, NEW bad, IsFiniteSet(good), IsFiniteSet(bad), NEW S,
         S = [f \in (bad \ good) \cup (good \ bad) |-> IF f \in bad THEN -Unit ELSE GoodWeight(good, bad)]
  PROVE  Updating(S)
<1>1. PICK L, G, p, q : /\ L = bad \ good /\ G = good \ bad
                        /\ p = Cardinality(L) /\ q = Cardinality(G)
  OBVIOUS
<1>2. IsFiniteSet(L) /\ IsFiniteSet(G)
  BY <1>1, FS_Subset
<1>3. p \in Nat /\ q \in Nat /\ (q = 0 => G = {})
  BY <1>1, <1>2, FS_CardinalityType, FS_EmptySet
<1>4. DOMAIN S = L \cup G /\ \A f \in L \cup G : S[f] = IF f \in bad THEN -Unit ELSE GoodWeight(good, bad)
  BY <1>1
<1>5. Unit \in Nat \ {0}
  BY PartialConstants
<1>6. G # {} => GoodWeight(good, bad) = (Unit * p) \div q
  <2>1. G # {} => ~(good \subseteq bad)
    BY <1>1
  <2>2. QED
    BY <1>1, <2>1 DEF GoodWeight
<1>7. \A f \in L : S[f] = -Unit /\ S[f] < 0
  <2>1. \A f \in L : S[f] = -Unit
    BY <1>1, <1>4
  <2>2. -Unit < 0
    BY <1>5
  <2>3. QED
    BY <2>1, <2>2
<1>8. \A f \in G : S[f] = (Unit * p) \div q /\ ~(S[f] < 0)
  <2>1. TAKE f \in G
  <2>2. S[f] = (Unit * p) \div q
    BY <1>1, <1>4, <1>6
  <2>3. PICK u : u = Unit * p
    OBVIOUS
  <2>4. u \in Nat /\ q \in Nat \ {0}
    BY <1>3, <1>5, <2>3
  <2>5. u \div q \in Nat
    BY <2>4
  <2>6. ~(u \div q < 0)
    BY <2>5
  <2>7. QED
    BY <2>2, <2>3, <2>6
<1>9. Lost(S) = L /\ Gained(S) = G
  BY <1>1, <1>4, <1>7, <1>8 DEF Lost, Gained
<1>10. IsFiniteSet(DOMAIN S)
  BY <1>2, <1>4, FS_Union
<1>11. QED
  BY <1>1, <1>7, <1>8, <1>9, <1>10 DEF Updating

LEMMA AddedFeatures ==
  ASSUME InputOK, TypesOK, BeamsOK,
         NEW place, place.node \in 1 .. Eos, place.beam \in DOMAIN beams[place.node],
         NEW found, \A c \in found : InContext(c), NEW first \in found,
         NEW after, VisitedOK(after)
  PROVE  Updating(AddFeatures(found, first, place, after))
<1>1. PICK bad, r : bad = ElementAt(place) /\ r = place.node
  OBVIOUS
<1>2. PICK badContext, extraGood, extraBad :
        /\ badContext = <<T2(bad), bad.left, r>>
        /\ extraGood = IF Fits(first, after) THEN Following(first.node, first.left, after) ELSE {}
        /\ extraBad = IF Fits(first, after) THEN Following(r, bad.left, after) ELSE {}
  OBVIOUS
<1>3. PICK goodFeatures, badFeatures :
        /\ goodFeatures = AllFeaturesOf({Context(c) : c \in found} \cup extraGood)
        /\ badFeatures = AllFeaturesOf({badContext} \cup extraBad)
  OBVIOUS
<1>4. PICK S : S = [f \in (badFeatures \ goodFeatures) \cup (goodFeatures \ badFeatures) |->
                      IF f \in badFeatures THEN -Unit ELSE GoodWeight(goodFeatures, badFeatures)]
  OBVIOUS
<1>5. AddFeatures(found, first, place, after) = S
  BY <1>1, <1>2, <1>3, <1>4 DEF AddFeatures
<1>6. \A c \in found : {c.node, c.left, T2(c)} \subseteq FeatureNodes
  BY ContextNodes DEF InContext
<1>7. {r, bad.left, T2(bad)} \subseteq FeatureNodes
  <2>1. Points(bad, Start(r))
    BY <1>1, TraceOfElement DEF ElementAt
  <2>2. IF bad.left = Bos THEN T2(bad) = -1 ELSE T2(bad) \in Left(Start(bad.left))
    BY <1>1, <2>1, PointersHaveScores
  <2>3. QED
    BY <1>1, <2>1, <2>2, ContextNodes DEF Points
<1>8. \A t \in {Context(c) : c \in found} \cup extraGood : \E x, y, z \in FeatureNodes : t = <<x, y, z>>
  <2>1. \A t \in extraGood : \E x, y, z \in FeatureNodes : t = <<x, y, z>>
    BY <1>2, <1>6, FollowingNodes
  <2>2. \A c \in found : Context(c) = <<T2(c), c.left, c.node>>
    BY DEF Context
  <2>3. QED
    BY <1>6, <2>1, <2>2
<1>9. \A t \in {badContext} \cup extraBad : \E x, y, z \in FeatureNodes : t = <<x, y, z>>
  <2>1. \A t \in extraBad : \E x, y, z \in FeatureNodes : t = <<x, y, z>>
    BY <1>2, <1>7, FollowingNodes
  <2>2. QED
    BY <1>2, <1>7, <2>1
<1>10. Eos \in Nat
  BY NodesOfLattice
<1>11. IsFiniteSet(goodFeatures)
  BY <1>3, <1>8, <1>10, FeaturesAreFinite
<1>12. IsFiniteSet(badFeatures)
  BY <1>3, <1>9, <1>10, FeaturesAreFinite
<1>13. Updating(S)
  BY <1>4, <1>11, <1>12, ScoresOfCorrection
<1>14. QED
  BY <1>5, <1>13

\* Features have been added once for every correction, with its scores.
UpdatesOK(fs, cs) ==
  /\ fs \in Seq(ToSet(fs))
  /\ Len(fs) = Len(cs)
  /\ \A i \in DOMAIN fs : Updating(fs[i]) /\ cs[i].scores = fs[i]

\* One correction more, or none
LEMMA ReplaceUpdates ==
  ASSUME InputOK, TypesOK, BeamsOK, UpdatesOK(features, corrected), CorrectionsOK(corrected),
         NEW place, place.node \in 1 .. Eos, place.beam \in DOMAIN beams[place.node],
         NEW v, NEW found, \A c \in found : InContext(c),
         NEW after, VisitedOK(after), Replace(v, found, place, after)
  PROVE  UpdatesOK(features', corrected')
<1>1. CASE found = {}
  BY <1>1 DEF Replace
<1>2. CASE found # {}
  <2>d. PICK first \in found :
          /\ features' = Append(features, AddFeatures(found, first, place, after))
          /\ corrected' = Append(corrected,
                                 Correction(v, place, found, AddFeatures(found, first, place, after)))
    BY <1>2 DEF Replace
  <2>0. PICK S :
          /\ S = AddFeatures(found, first, place, after)
          /\ features' = Append(features, S)
          /\ corrected' = Append(corrected, Correction(v, place, found, S))
    BY <2>d
  <2>1. PICK fs, cs, new : fs = features /\ cs = corrected /\ new = Correction(v, place, found, S)
    OBVIOUS
  <2>2. new.scores = S
    BY <2>1 DEF Correction
  <2>3. corrected' = Append(cs, new)
    BY <2>0, <2>1
  <2>4. Updating(S) /\ features' = Append(fs, S)
    BY <2>0, <2>1, AddedFeatures
  <2>5. PICK t : t = Append(fs, S)
    OBVIOUS
  <2>6. cs \in Seq(ToSet(cs))
    BY <2>1 DEF CorrectionsOK
  <2>7. PICK d : d = Append(cs, new)
    OBVIOUS
  <2>a. Len(d) = Len(cs) + 1 /\ (\A i \in 1 .. Len(cs) : d[i] = cs[i]) /\ d[Len(cs) + 1] = new
    <3>1. PICK A, B : A = ToSet(cs) /\ B = A \cup {new}
      OBVIOUS
    <3>2. cs \in Seq(B) /\ new \in B
      BY <2>6, <3>1
    <3>3. QED
      BY <2>7, <3>2
  <2>8. /\ fs \in Seq(ToSet(fs)) /\ Len(fs) = Len(cs)
        /\ \A i \in DOMAIN fs : Updating(fs[i]) /\ cs[i].scores = fs[i]
    BY <2>1 DEF UpdatesOK
  <2>9. /\ Len(t) = Len(fs) + 1 /\ Len(fs) \in Nat /\ DOMAIN t = 1 .. Len(t)
        /\ DOMAIN fs = 1 .. Len(fs) /\ t = [i \in 1 .. Len(t) |-> t[i]]
        /\ \A i \in 1 .. Len(fs) : t[i] = fs[i]
        /\ t[Len(fs) + 1] = S
    <3>1. PICK A, B : A = ToSet(fs) /\ B = A \cup {S}
      OBVIOUS
    <3>2. fs \in Seq(B) /\ S \in B
      BY <2>8, <3>1
    <3>3. t \in Seq(B) /\ Len(t) = Len(fs) + 1 /\ Len(fs) \in Nat /\ DOMAIN fs = 1 .. Len(fs)
      BY <2>5, <3>2
    <3>4. (\A i \in 1 .. Len(fs) : t[i] = fs[i]) /\ t[Len(fs) + 1] = S
      BY <2>5, <3>2
    <3>5. DOMAIN t = 1 .. Len(t) /\ t = [i \in 1 .. Len(t) |-> t[i]]
      BY <3>3
    <3>6. QED
      BY <3>3, <3>4, <3>5
  <2>10. t \in Seq(ToSet(t))
    <3>1. \A i \in 1 .. Len(t) : t[i] \in ToSet(t)
      BY <2>9 DEF ToSet
    <3>2. Len(t) \in Nat
      BY <2>9
    <3>3. QED
      BY <2>9, <3>1, <3>2
  <2>11. \A i \in DOMAIN t : Updating(t[i]) /\ d[i].scores = t[i]
    <3>1. TAKE i \in DOMAIN t
    <3>2. i \in 1 .. Len(fs) \/ i = Len(fs) + 1
      BY <2>9
    <3>3. CASE i \in 1 .. Len(fs)
      <4>1. t[i] = fs[i] /\ d[i] = cs[i] /\ i \in DOMAIN fs
        BY <2>a, <2>8, <2>9, <3>3
      <4>2. QED
        BY <2>8, <4>1
    <3>4. CASE i = Len(fs) + 1
      <4>1. t[i] = S /\ d[i] = new
        BY <2>a, <2>8, <2>9, <3>4
      <4>2. QED
        BY <2>2, <2>4, <4>1
    <3>5. QED
      BY <3>2, <3>3, <3>4
  <2>b. Len(t) = Len(d)
    BY <2>a, <2>8, <2>9
  <2>c. UpdatesOK(t, d)
    BY <2>b, <2>10, <2>11 DEF UpdatesOK
  <2>12. QED
    BY <2>3, <2>4, <2>5, <2>7, <2>c
<1>3. QED
  BY <1>1, <1>2

\* If one of the last two words of the best path violates the annotation, a word
\* of the path does: EOS points to them.
LEMMA LastTwoWords ==
  ASSUME IInv, pc = "done",
         ~(Matches(beams[Eos][1].left) /\ Matches(T2(beams[Eos][1])))
  PROVE  \E i \in DOMAIN path : ~Matches(path[i])
<1>1. /\ InputOK /\ TypesOK /\ BeamsOK /\ Eos \in 1 .. Eos /\ 1 \in DOMAIN beams[Eos]
      /\ path = Trace(Eos, 1) /\ path \in Seq(Nat)
  <2>1. InputOK /\ TypesOK /\ BeamsOK
    BY DEF IInv
  <2>2. 1 \in DOMAIN beams[Eos] /\ path = Trace(Eos, 1)
    BY <2>1, ResultOfEos DEF IInv, ResultOK
  <2>3. QED
    BY <2>1, <2>2, WalkBegins, NodesOfLattice
<1>2. PICK top, l, x : top = beams[Eos][1] /\ l = top.left /\ x = T2(top)
  OBVIOUS
<1>3. path = WayOf(top) /\ Points(top, Start(Eos))
  BY <1>1, <1>2, TraceOfElement
<1>4. IF l = Bos THEN x = -1 ELSE x \in Left(Start(l))
  BY <1>1, <1>2, <1>3, PointersHaveScores
<1>5. Matches(-1) /\ Matches(Bos)
  BY DEF Matches, Bos
<1>6. l # Bos
  BY <1>2, <1>4, <1>5
<1>7. l \in 1 .. Eos /\ top.beam \in DOMAIN beams[l]
  BY <1>1, <1>2, <1>3, <1>6, NodesOfLattice DEF Points
<1>8. PICK g : g = Trace(l, top.beam)
  OBVIOUS
<1>9. path = <<l>> \o g
  BY <1>2, <1>3, <1>6, <1>8 DEF WayOf
<1>10. ASSUME NEW r \in 1 .. Eos, NEW k \in DOMAIN beams[r]
       PROVE  Trace(r, k) = WayOf(beams[r][k]) /\ Points(beams[r][k], Start(r)) /\ Trace(r, k) \in Seq(Nat)
  <2>1. Trace(r, k) = WayOf(beams[r][k]) /\ Points(beams[r][k], Start(r))
    BY <1>1, TraceOfElement
  <2>2. Trace(r, k) \in Histories[r]
    BY <1>1, <2>1, WaysArePaths
  <2>3. QED
    BY <1>1, <2>1, <2>2, PathsOfLattice
<1>11. g \in Seq(Nat) /\ l \in Nat
  BY <1>1, <1>7, <1>8, <1>10
<1>12. Len(path) = Len(g) + 1 /\ path[1] = l /\ \A i \in 1 .. Len(g) : path[i + 1] = g[i]
  BY <1>9, <1>11, OneMoreInFront DEF InFront
<1>13. Len(g) \in Nat /\ DOMAIN path = 1 .. Len(g) + 1
  BY <1>1, <1>11, <1>12
<1>14. CASE ~Matches(l)
  <2>1. 1 \in DOMAIN path
    BY <1>13
  <2>2. QED
    BY <1>12, <1>14, <2>1
<1>15. CASE Matches(l)
  <2>1. ~Matches(x) /\ x # Bos
    BY <1>2, <1>5, <1>15
  <2>2. PICK el : el = beams[l][top.beam]
    OBVIOUS
  <2>3. x = el.left
    BY <1>2, <2>2 DEF T2
  <2>4. g = WayOf(el) /\ Points(el, Start(l))
    BY <1>7, <1>8, <1>10, <2>2
  <2>5. g = <<x>> \o Trace(x, el.beam)
    BY <2>1, <2>3, <2>4 DEF WayOf
  <2>6. x \in 1 .. Eos /\ x \in Nat /\ el.beam \in DOMAIN beams[x]
    BY <1>1, <1>7, <2>1, <2>3, <2>4, NodesOfLattice DEF Points
  <2>7. Trace(x, el.beam) \in Seq(Nat)
    BY <1>10, <2>6
  <2>8. g[1] = x /\ Len(g) >= 1
    <3>1. PICK f : f = Trace(x, el.beam)
      OBVIOUS
    <3>2. f \in Seq(Nat) /\ g = <<x>> \o f
      BY <2>5, <2>7, <3>1
    <3>3. Len(g) = Len(f) + 1 /\ g[1] = x
      BY <2>6, <3>2, OneMoreInFront DEF InFront
    <3>4. Len(f) \in Nat
      BY <3>2
    <3>5. QED
      BY <3>3, <3>4
  <2>9. 1 \in 1 .. Len(g) /\ 2 \in DOMAIN path /\ 1 + 1 = 2
    BY <1>13, <2>8
  <2>10. path[2] = x
    BY <1>12, <2>8, <2>9
  <2>11. QED
    BY <2>1, <2>9, <2>10
<1>16. QED
  BY <1>14, <1>15

\* What the corrections add up to, each of them by itself
Imbalances(corrections) == [i \in DOMAIN corrections |-> Imbalance(corrections[i].scores)]

\* What UpdateMatchesLoss says of the corrections at the end
UpdateDone ==
  /\ partialLoss = 0 => EntriesIn(corrected) <= 1
  /\ partialLoss > 0 => DOMAIN features[1] # {}
  /\ SumFunction(features[1]) = SumTo(Imbalances(corrected), Len(corrected))

\* The inductive invariant of the update: features have been added once for every
\* correction, with what is lost handed out, and only for a path with a word that
\* violates the annotation.
UpdateInv ==
  /\ stage # "finished" => UpdatesOK(features, corrected)
  /\ corrected # <<>> => \E i \in DOMAIN path : ~Matches(path[i])
  /\ stage = "finished" => UpdateDone

LEMMA InitUpdateInv == ScoringInit => UpdateInv
<1>1. UpdatesOK(<<>>, <<>>)
  BY DEF UpdatesOK
<1>2. QED
  BY <1>1 DEF ScoringInit, PartialInit, UpdateInv

\* What is asked of the words of the best path, said again after a step that
\* does not change the analysis
LEMMA PathStays ==
  ASSUME vars' = vars
  PROVE  (\E i \in DOMAIN path : ~Matches(path[i]))' <=> \E i \in DOMAIN path : ~Matches(path[i])
<1>1. lat' = lat /\ path' = path
  BY DEF vars
<1>2. \A r : Matches(r)' <=> Matches(r)
  BY <1>1 DEF Matches, ViolationAt, Bos
<1>3. QED
  BY <1>1, <1>2

\* The places visited are nodes.
LEMMA VisitedNodes ==
  ASSUME InputOK, WalkOK(walk)
  PROVE  VisitedOK(Front(walk)) /\ VisitedOK(<<>>)
<1>1. PICK w, m : w = walk /\ m = Len(w)
  OBVIOUS
<1>2. w \in Seq(WalkPlaces) /\ m >= 2 /\ \A i \in 1 .. m : OnPath(w[i], i)
  BY <1>1 DEF WalkOK
<1>3. Eos \in Nat
  BY NodesOfLattice
<1>4. m \in Nat
  <2>. HIDE DEF WalkPlaces
  <2>1. QED
    BY <1>1, <1>2
<1>5. ASSUME NEW i \in 1 .. m
      PROVE  w[i].node \in FeatureNodes
  <2>1. OnPath(w[i], i)
    BY <1>2
  <2>2. CASE i <= Len(path) + 1
    <3>1. w[i].node \in 1 .. Eos
      BY <2>1, <2>2 DEF OnPath
    <3>2. QED
      BY <1>3, <3>1 DEF FeatureNodes
  <2>3. CASE ~(i <= Len(path) + 1)
    <3>1. w[i].node = Eos \/ w[i].node = Bos
      BY <2>1, <2>3 DEF OnPath, NodeOfWalk
    <3>2. QED
      BY <1>3, <3>1 DEF FeatureNodes, Bos
  <2>4. QED
    BY <2>2, <2>3
<1>6. PICK f : f = Front(w)
  OBVIOUS
<1>7. Len(f) = m - 1 /\ \A i \in 1 .. m - 1 : f[i] = w[i]
  <2>. HIDE DEF WalkPlaces
  <2>1. f = SubSeq(w, 1, m - 1)
    BY <1>1, <1>6 DEF Front
  <2>2. QED
    BY <1>1, <1>2, <1>4, <2>1
<1>8. Last(f) = w[m - 1]
  BY <1>2, <1>4, <1>7 DEF Last
<1>9. VisitedOK(f)
  <2>1. m - 1 \in 1 .. m
    BY <1>2, <1>4
  <2>2. ~(Len(f) < 2) => Len(f) - 1 \in 1 .. m - 1 /\ Len(f) - 1 \in 1 .. m
    BY <1>2, <1>4, <1>7
  <2>3. QED
    BY <1>5, <1>7, <1>8, <2>1, <2>2 DEF VisitedOK
<1>10. QED
  BY <1>1, <1>6, <1>9 DEF VisitedOK

\* Every step of the correction keeps the update as the corrections ask for.
LEMMA CorrectUpdates ==
  ASSUME IInv, CorrectInv, UpdateInv, Correct
  PROVE  UpdateInv'
<1>1. PartialStep /\ vars' = vars
  BY DEF Correct
<1>2. InputOK /\ TypesOK /\ BeamsOK /\ AnnotationRead /\ CorrectionsOK(corrected)
  BY DEF CorrectInv, IInv
<1>3. ASSUME walk # <<>>
      PROVE  /\ pc = "done" /\ WalkOK(walk) /\ VisitedOK(Front(walk)) /\ VisitedOK(<<>>)
             /\ path \in Seq(Nat)
  <2>1. pc = "done" /\ WalkOK(walk)
    BY <1>3 DEF CorrectInv
  <2>2. QED
    BY <1>2, <2>1, VisitedNodes, WalkBegins
<1>4. (\E i \in DOMAIN path : ~Matches(path[i]))' <=> \E i \in DOMAIN path : ~Matches(path[i])
  BY <1>1, PathStays
<1>5. CASE UNCHANGED <<features, corrected>> /\ stage # "finished" /\ stage' # "finished"
  BY <1>4, <1>5 DEF UpdateInv
<1>6. CASE BeginWalk \/ WordMatches \/ EndWalk
  <2>1. UNCHANGED <<features, corrected>> /\ stage # "finished" /\ stage' # "finished"
    BY <1>6 DEF BeginWalk, WordMatches, EndWalk, AtWord
  <2>2. QED
    BY <1>5, <2>1
<1>7. CASE WordViolates
  <2>1. AtWord /\ ~Matches(Last(walk).node) /\ stage' = "walk" /\ stage = "walk" /\ walk # <<>>
        /\ Last(walk).node # Bos
    BY <1>7 DEF WordViolates, AtWord
  <2>2. PICK place, v : place = Last(walk) /\ v = ViolationAt(place.node)
    OBVIOUS
  <2>3. PICK found \in Found(v, WordAt(lat, place.node)) : Replace(v, found, place, Front(walk))
    BY <1>7, <2>2 DEF WordViolates
  <2>4. /\ Len(walk) \in Nat /\ Len(walk) >= 2 /\ Len(walk) <= Len(path) + 1
        /\ place.node = path[Len(walk) - 1] /\ place.node \in 1 .. Eos
    BY <1>3, <2>1, <2>2, WalkGrows
  <2>5. OnPath(place, Len(walk))
    <3>1. Len(walk) \in 1 .. Len(walk)
      BY <2>4
    <3>2. QED
      BY <1>3, <2>1, <2>2, <3>1 DEF WalkOK, Last
  <2>6. place.beam \in DOMAIN beams[place.node]
    BY <2>4, <2>5 DEF OnPath
  <2>7. \A c \in found : InContext(c)
    BY <1>2, <2>1, <2>2, <2>3, <2>4, FoundIsGood DEF GoodFor
  <2>8. UpdatesOK(features, corrected)
    BY <2>1 DEF UpdateInv
  <2>9. UpdatesOK(features', corrected')
    BY <1>2, <1>3, <2>1, <2>3, <2>4, <2>6, <2>7, <2>8, ReplaceUpdates
  <2>10. \E i \in DOMAIN path : ~Matches(path[i])
    <3>1. Len(walk) - 1 \in DOMAIN path
      BY <1>3, <2>1, <2>4
    <3>2. QED
      BY <2>1, <2>2, <2>4, <3>1
  <2>11. QED
    BY <1>4, <2>1, <2>9, <2>10 DEF UpdateInv
<1>8. CASE HandleEos
  <2>1. stage = "eos" /\ stage' = "finalize"
    BY <1>8 DEF HandleEos
  <2>2. walk # <<>>
    BY <2>1 DEF CorrectInv
  <2>. DEFINE top == beams[Eos][1]
  <2>3. CASE Matches(top.left) /\ Matches(T2(top))
    <3>1. UNCHANGED <<features, corrected>>
      BY <1>8, <2>3 DEF HandleEos
    <3>2. QED
      BY <1>5, <2>1, <3>1
  <2>4. CASE ~(Matches(top.left) /\ Matches(T2(top)))
    <3>1. Replace(Violation("Eos", 0), EosCandidates, Place(Eos, 1), <<>>)
      BY <1>8, <2>4 DEF HandleEos
    <3>2. Eos \in 1 .. Eos /\ 1 \in DOMAIN beams[Eos]
      BY <1>2, <1>3, <2>2, ResultOfEos, NodesOfLattice DEF IInv, ResultOK
    <3>3. PICK place, after : place = Place(Eos, 1) /\ after = <<>>
      OBVIOUS
    <3>4. place.node \in 1 .. Eos /\ place.beam \in DOMAIN beams[place.node]
      BY <3>2, <3>3 DEF Place
    <3>5. \A c \in EosCandidates : InContext(c)
      <4>1. TAKE c \in EosCandidates
      <4>2. PICK k \in DOMAIN beams[Eos] : c = Candidate(Eos, beams[Eos][k].left, beams[Eos][k].beam, beams[Eos][k].total)
        BY DEF EosCandidates
      <4>3. c \in BeamOf(Eos)
        BY <1>2, <4>2 DEF BeamOf, ToSet
      <4>4. c.node = Eos /\ c.left \in Left(Start(c.node))
            /\ T2(c) \in (IF c.left = Bos THEN {-1} ELSE Left(Start(c.left)))
        BY <1>2, <3>2, <4>3, BeamsHoldContexts
      <4>5. Matches(c.left) /\ Matches(T2(c))
        BY DEF EosCandidates
      <4>6. QED
        BY <3>2, <4>4, <4>5 DEF InContext
    <3>6. UpdatesOK(features, corrected)
      BY <2>1 DEF UpdateInv
    <3>7. UpdatesOK(features', corrected')
      <4>1. VisitedOK(after) /\ Replace(Violation("Eos", 0), EosCandidates, place, after)
        BY <1>3, <2>2, <3>1, <3>3
      <4>2. QED
        BY <1>2, <3>4, <3>5, <3>6, <4>1, ReplaceUpdates
    <3>8. \E i \in DOMAIN path : ~Matches(path[i])
      BY <1>3, <2>2, <2>4, LastTwoWords
    <3>9. QED
      BY <1>4, <2>1, <3>7, <3>8 DEF UpdateInv
  <2>5. QED
    BY <2>3, <2>4
<1>9. CASE Finalize
  <2>1. /\ stage = "finalize" /\ stage' = "finished" /\ corrected' = corrected
        /\ partialLoss' = IF Entries <= 1 THEN 0 ELSE violations
        /\ features' = <<[x \in UNION {DOMAIN features[i] : i \in DOMAIN features} |-> Total(x)]>>
    BY <1>9 DEF Finalize
  <2>2. walk # <<>>
    BY <2>1 DEF CorrectInv
  <2>3. PICK m : m = Len(features)
    OBVIOUS
  <2>4. /\ m \in Nat /\ DOMAIN features = 1 .. m /\ Len(corrected) = m /\ DOMAIN corrected = 1 .. m
        /\ \A i \in 1 .. m : Updating(features[i]) /\ corrected[i].scores = features[i]
    <3>1. UpdatesOK(features, corrected)
      BY <2>1 DEF UpdateInv
    <3>2. features \in Seq(ToSet(features)) /\ corrected \in Seq(ToSet(corrected))
      BY <1>2, <3>1 DEF UpdatesOK, CorrectionsOK
    <3>3. m \in Nat /\ DOMAIN features = 1 .. m
      BY <2>3, <3>2
    <3>4. Len(corrected) = m /\ DOMAIN corrected = 1 .. m
      <4>1. Len(corrected) = m
        BY <2>3, <3>1 DEF UpdatesOK
      <4>2. QED
        BY <3>2, <4>1
    <3>5. QED
      BY <3>1, <3>3, <3>4 DEF UpdatesOK
  <2>5. PICK s, r : /\ s = [x \in UNION {DOMAIN features[i] : i \in DOMAIN features} |-> Total(x)]
                    /\ r = [i \in 1 .. m |-> Imbalance(features[i])]
    OBVIOUS
  <2>6. features'[1] = s
    <3>1. features' = <<s>>
      BY <2>1, <2>5
    <3>2. QED
      BY <3>1
  <2>7. SumFunction(features[1])' = SumTo(Imbalances(corrected), Len(corrected))'
    <3>1. SumFunction(s) = SumTo(r, m)
      BY <2>3, <2>4, <2>5, CorrectionsBalance
    <3>2. Imbalances(corrected) = r
      BY <2>4, <2>5 DEF Imbalances
    <3>3. SumTo(Imbalances(corrected), Len(corrected))' = SumTo(Imbalances(corrected), Len(corrected))
      BY <2>1 DEF Imbalances, Imbalance, Lost, Gained
    <3>4. SumFunction(features[1])' = SumFunction(s)
      BY <2>6
    <3>5. QED
      BY <2>4, <3>1, <3>2, <3>3, <3>4
  <2>8. /\ Entries \in Nat /\ EntriesIn(corrected) = Entries
        /\ ~(Entries <= 1) => \E i \in 1 .. m : DOMAIN features[i] # {}
    <3>1. /\ Entries \in Nat
          /\ ~(Entries <= 1) => \E i \in 1 .. m : DOMAIN features[i] # {}
      BY <2>3, <2>4, EntriesHaveFeatures
    <3>2. [i \in DOMAIN corrected |-> Cardinality(DOMAIN corrected[i].scores)]
            = [i \in DOMAIN features |-> Cardinality(DOMAIN features[i])]
      BY <2>4
    <3>3. EntriesIn(corrected) = Entries
      BY <2>3, <2>4, <3>2 DEF EntriesIn, Entries
    <3>4. QED
      BY <3>1, <3>3
  <2>a. ASSUME partialLoss' = 0
        PROVE  Entries <= 1
    <3>. SUFFICES ASSUME ~(Entries <= 1) PROVE FALSE
      OBVIOUS
    <3>1. PICK k \in 1 .. m : DOMAIN features[k] # {}
      BY <2>8
    <3>2. violations = 0 /\ corrected # <<>>
      <4>1. violations = 0
        BY <2>1, <2>a
      <4>2. Len(<<>>) = 0 /\ m # 0
        BY <2>4
      <4>3. QED
        BY <2>4, <4>1, <4>2
    <3>3. PICK i \in DOMAIN path : ~Matches(path[i])
      BY <3>2 DEF UpdateInv
    <3>4. Len(walk) = Len(path) + 2 /\ violations = Cardinality(Violating(Len(walk) - 2))
      BY <2>1, <2>2 DEF CorrectInv
    <3>5. path \in Seq(Nat) /\ Len(path) \in Nat /\ Len(walk) - 2 = Len(path)
      BY <1>3, <2>2, <3>4
    <3>6. i \in Violating(Len(path))
      BY <3>3, <3>5 DEF Violating
    <3>7. IsFiniteSet(Violating(Len(path)))
      <4>1. IsFiniteSet(1 .. Len(path)) /\ Violating(Len(path)) \subseteq 1 .. Len(path)
        BY <3>5, FS_Interval DEF Violating
      <4>2. QED
        BY <4>1, FS_Subset
    <3>8. Cardinality(Violating(Len(path))) = 0
      BY <3>2, <3>4, <3>5
    <3>9. QED
      BY <3>6, <3>7, <3>8, FS_EmptySet
  <2>b. ASSUME partialLoss' > 0
        PROVE  DOMAIN s # {}
    <3>1. ~(Entries <= 1)
      BY <2>1, <2>b
    <3>2. PICK k \in 1 .. m : DOMAIN features[k] # {}
      BY <2>8, <3>1
    <3>3. DOMAIN features[k] \subseteq DOMAIN s
      BY <2>4, <2>5
    <3>4. QED
      BY <3>2, <3>3
  <2>c. UpdateDone'
    <3>1. EntriesIn(corrected)' = EntriesIn(corrected)
      BY <2>1 DEF EntriesIn
    <3>2. (DOMAIN features[1])' = DOMAIN s
      BY <2>6
    <3>3. QED
      BY <2>7, <2>8, <2>a, <2>b, <3>1, <3>2 DEF UpdateDone
  <2>9. corrected' # <<>> => (\E i \in DOMAIN path : ~Matches(path[i]))'
    BY <1>4, <2>1 DEF UpdateInv
  <2>10. QED
    BY <2>1, <2>9, <2>c DEF UpdateInv
<1>10. QED
  BY <1>1, <1>6, <1>7, <1>8, <1>9 DEF PartialStep

\* The other steps add no features: none have been before the analysis is done,
\* and what follows it for other users is not the partial trainer's.
LEMMA OthersUpdateNothing ==
  ASSUME CorrectInv, UpdateInv, Analyse \/ Compare \/ Finished \/ UNCHANGED allVars
  PROVE  UpdateInv'
<1>1. UNCHANGED partialVars
  BY DEF Analyse, Compare, Finished, allVars
<1>2. UNCHANGED <<stage, features, partialLoss, corrected>>
  BY <1>1 DEF partialVars
<1>3. UpdateDone' <=> UpdateDone
  BY <1>2 DEF UpdateDone, Imbalances, Imbalance, Lost, Gained, EntriesIn
<1>4. CASE Analyse
  <2>1. pc # "done"
    BY <1>4 DEF Analyse, ScoreFull, ScoreGlobal, SkipBoundary, AdjustBoundary, RemakeEosBeam, FillIn
  <2>2. corrected = <<>>
    BY <2>1 DEF CorrectInv
  <2>3. QED
    BY <1>2, <1>3, <2>2 DEF UpdateInv
<1>5. CASE Compare \/ Finished \/ UNCHANGED allVars
  <2>1. vars' = vars
    BY <1>5 DEF Compare, Finished, allVars
  <2>2. QED
    BY <1>2, <1>3, <2>1, PathStays DEF UpdateInv
<1>6. QED
  BY <1>4, <1>5

\* The update of the partial trainer is what its corrections add up to, whatever
\* the lattice, the annotation and the beams.
THEOREM UpdateInvAlways == ScoringSpec => []UpdateInv
<1>1. ScoringInit => UpdateInv
  BY InitUpdateInv
<1>2. ScoringInv /\ CorrectInv /\ UpdateInv /\ [ScoringNext]_allVars => UpdateInv'
  <2>. SUFFICES ASSUME IInv, CorrectInv, UpdateInv, [ScoringNext]_allVars
                PROVE  UpdateInv'
    BY DEF ScoringInv
  <2>1. CASE Correct
    BY <2>1, CorrectUpdates
  <2>2. CASE Analyse \/ Compare \/ Finished \/ UNCHANGED allVars
    BY <2>2, OthersUpdateNothing
  <2>3. QED
    BY <2>1, <2>2 DEF ScoringNext
<1>3. QED
  BY <1>1, <1>2, ScoringInvAlways, CorrectInvAlways, PTL DEF ScoringSpec

\* Without an annotation there is nothing to violate.
LEMMA NothingAnnotated ==
  ASSUME AnnotationRead, lat.lines = <<>>, NEW r
  PROVE  Matches(r)
<1>1. lat.example = ReadUpTo(<<>>, 0)
  BY LinesRead
<1>2. lat.example.noBreak = {} /\ lat.example.boundaries = {} /\ lat.example.words = {}
  BY <1>1 DEF ReadUpTo, NoBreaksUpTo, BoundariesUpTo, WordsUpTo
<1>3. CheckViolation(lat.example, WordAt(lat, r)) = NoViolation
  BY <1>2 DEF CheckViolation, Inside, WrongLength, WrongTags
<1>4. QED
  BY <1>3 DEF Matches, ViolationAt

\* The partial trainer (compute) has a loss that counts the violations of the best
\* path unless there is nothing to learn from, has features wherever it has a
\* loss, changes nothing for a path that agrees with the annotation, and takes
\* from the features what it gives to others but for corrections in which none
\* gains, as long as no line is empty.
THEOREM UpdatesMatchLosses == ScoringSpec => [](Tidy(lat.lines) => UpdateMatchesLoss)
<1>1. ScoringInv /\ CorrectInv /\ UpdateInv
        /\ (stage = "finished" => partialLoss \in {0, Cardinality({i \in DOMAIN path : ~Matches(path[i])})})
        => (Tidy(lat.lines) => UpdateMatchesLoss)
  <2>. SUFFICES ASSUME IInv, CorrectInv, UpdateInv, Tidy(lat.lines), stage = "finished"
                PROVE  /\ partialLoss = 0 => EntriesIn(corrected) <= 1
                       /\ partialLoss > 0 => DOMAIN features[1] # {}
                       /\ Allowed(path) => corrected = <<>>
                       /\ SumFunction(features[1]) =
                            SumTo([i \in DOMAIN corrected |-> Imbalance(corrected[i].scores)], Len(corrected))
    BY DEF ScoringInv, UpdateMatchesLoss
  <2>1. ASSUME Allowed(path)
        PROVE  \A i \in DOMAIN path : Matches(path[i])
    <3>1. InputOK /\ AnnotationRead /\ pc = "done"
      BY DEF IInv, CorrectInv
    <3>2. CASE lat.lines = <<>>
      BY <3>1, <3>2, NothingAnnotated
    <3>3. CASE lat.lines # <<>>
      <4>1. path \in Histories[Eos]
        BY <3>1, ResultOfEos DEF IInv, ResultOK
      <4>2. QED
        BY <2>1, <3>1, <3>3, <4>1, ObjectionsDecide
    <3>4. QED
      BY <3>2, <3>3
  <2>2. QED
    BY <2>1 DEF UpdateInv, UpdateDone, Imbalances
<1>2. QED
  BY <1>1, ScoringInvAlways, CorrectInvAlways, UpdateInvAlways, LossCountsViolations, PTL
===============================================================================
