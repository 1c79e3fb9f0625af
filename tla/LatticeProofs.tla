---------------------------- MODULE LatticeProofs ----------------------------
(***************************************************************************)
(* The lattice of a sentence and of a training example, for sentences of   *)
(* any length, any dictionary, any makers and any annotation.              *)
(*                                                                         *)
(* The inductive invariant, LatticeInv, says for every label what the      *)
(* seeds have become (SeedsHold), whether the descriptions of the          *)
(* boundaries fit them and how far the lattice has been built from both    *)
(* (LatticeHolds), and where the path of the annotation leads              *)
(* (ExampleHolds).  It speaks of the seeds by what the makers promise, not *)
(* by what they are.                                                       *)
(*                                                                         *)
(* Before it come lemmas about the operators of the model: induction and   *)
(* enumerations, sorting, the pass of checkConnectability against the      *)
(* boundaries a chain of seeds leads to, the makers, the descriptions of   *)
(* the boundaries, nodeSeedExists and ensureNodes, and the two phases of   *)
(* buildLattice.  A recursive function of a LET is defined by a CHOOSE     *)
(* that the provers only unfold once RecursionExists has shown that there  *)
(* is one.                                                                 *)
(***************************************************************************)
EXTENDS TrainerPrepare, FiniteSetTheorems, SequenceTheorems, TLAPS

-------------------------------------------------------------------------------
(* Induction                                                               *)

\* A set of natural numbers has a least element.
LEMMA LeastElement ==
  ASSUME NEW T \in SUBSET Nat, T # {}
  PROVE  \E x \in T : \A y \in T : x <= y
<1>. DEFINE R == {p \in Nat \X Nat : p[1] < p[2]}
<1>1. IsWellFoundedOn(R, Nat)
  BY NatLessThanWellFounded DEF OpToRel
<1>2. \A x, y \in Nat : y < x => <<y, x>> \in R
  OBVIOUS
<1>. HIDE DEF R
<1>3. PICK x \in T : \A y \in T : ~(<<y, x>> \in R)
  BY <1>1, WFMin
<1>4. \A y \in T : ~(y < x)
  BY <1>2, <1>3
<1>5. QED
  BY <1>4

\* A set that holds 0 and the successor of every number in it holds them all.
LEMMA SetInduction ==
  ASSUME NEW S, 0 \in S, \A n \in Nat : n \in S => n + 1 \in S
  PROVE  \A n \in Nat : n \in S
<1>1. SUFFICES ASSUME Nat \ S # {} PROVE FALSE
  OBVIOUS
<1>2. PICK x \in Nat \ S : \A y \in Nat \ S : x <= y
  BY <1>1, LeastElement
<1>3. x # 0 /\ x - 1 \in Nat /\ x - 1 \in S
  BY <1>2
<1>4. x \in S
  BY <1>3
<1>5. QED
  BY <1>2, <1>4

-------------------------------------------------------------------------------
(* Enumerations                                                            *)

\* below says of each member of a finite set which others come before it.
Ranking(I, below) ==
  /\ IsFiniteSet(I)
  /\ below \in [I -> SUBSET I]
  /\ \A i \in I : i \notin below[i]
  /\ \A i, j \in I : i \in below[j] => below[i] \subseteq below[j]
  /\ \A i, j \in I : i = j \/ i \in below[j] \/ j \in below[i]

\* The members of I one after the other
Enumerates(at, I, below) ==
  /\ Cardinality(I) \in Nat
  /\ at \in [1 .. Cardinality(I) -> I]
  /\ \A i \in I : \E k \in 1 .. Cardinality(I) : at[k] = i
  /\ \A k, l \in 1 .. Cardinality(I) : k < l => at[k] \in below[at[l]]

\* What InOrder and Sorted do to find them
ByRank(I, below, rank, at) ==
  /\ rank = [i \in I |-> Cardinality(below[i]) + 1]
  /\ at = [k \in 1 .. Cardinality(I) |-> CHOOSE i \in I : rank[i] = k]

\* The members of a finite set with an order can be found by their ranks.
LEMMA RanksEnumerate ==
  ASSUME NEW I, NEW below, Ranking(I, below),
         NEW rank, NEW at, ByRank(I, below, rank, at)
  PROVE  /\ Enumerates(at, I, below)
         /\ \A k \in 1 .. Cardinality(I) : rank[at[k]] = k
         /\ \A i \in I : rank[i] \in 1 .. Cardinality(I)
         /\ \A i, j \in I : rank[i] = rank[j] => i = j
<1>. DEFINE N == Cardinality(I)
<1>1. /\ rank = [i \in I |-> Cardinality(below[i]) + 1]
      /\ at = [k \in 1 .. N |-> CHOOSE i \in I : rank[i] = k]
  BY DEF ByRank
<1>2. N \in Nat
  BY FS_CardinalityType DEF Ranking
<1>3. ASSUME NEW i \in I
      PROVE  /\ IsFiniteSet(below[i]) /\ Cardinality(below[i]) \in Nat
             /\ Cardinality(below[i]) < N
  <2>1. below[i] \in SUBSET I /\ below[i] # I
    BY DEF Ranking
  <2>2. IsFiniteSet(I)
    BY DEF Ranking
  <2>3. QED
    BY <1>2, <2>1, <2>2, FS_Subset, FS_CardinalityType
<1>4. ASSUME NEW i \in I, NEW j \in I, i \in below[j]
      PROVE  rank[i] < rank[j]
  <2>1. below[i] \in SUBSET below[j] /\ below[i] # below[j]
    BY <1>4 DEF Ranking
  <2>2. Cardinality(below[i]) < Cardinality(below[j])
    BY <1>3, <2>1, FS_Subset
  <2>3. QED
    BY <1>1, <1>3, <2>2
<1>5. \A i \in I : rank[i] \in 1 .. N
  BY <1>1, <1>2, <1>3
<1>6. \A i, j \in I : rank[i] = rank[j] => i = j
  <2>1. SUFFICES ASSUME NEW i \in I, NEW j \in I, rank[i] = rank[j] PROVE i = j
    OBVIOUS
  <2>2. rank[i] \in Int /\ ~(rank[i] < rank[j]) /\ ~(rank[j] < rank[i])
    BY <1>5, <2>1
  <2>3. QED
    BY <1>4, <2>2 DEF Ranking
<1>7. \A k \in 1 .. N : \E i \in I : rank[i] = k
  <2>1. rank \in Injection(I, 1 .. N)
    BY <1>1, <1>5, <1>6 DEF Injection, IsInjective
  <2>2. IsFiniteSet(1 .. N) /\ Cardinality(1 .. N) = N
    BY <1>2, FS_Interval
  <2>3. rank \in Surjection(I, 1 .. N)
    BY <2>1, <2>2, FS_Injection
  <2>4. QED
    BY <2>3 DEF Surjection
<1>. HIDE DEF N
<1>8. \A k \in 1 .. N : at[k] \in I /\ rank[at[k]] = k
  <2>1. \A k \in 1 .. N : at[k] = CHOOSE i \in I : rank[i] = k
    BY <1>1
  <2>2. QED
    BY <1>7, <2>1
<1>9. \A i \in I : \E k \in 1 .. N : at[k] = i
  <2>1. TAKE i \in I
  <2>2. rank[i] \in 1 .. N
    BY <1>5
  <2>3. at[rank[i]] \in I /\ rank[at[rank[i]]] = rank[i]
    BY <1>8, <2>2
  <2>4. at[rank[i]] = i
    BY <1>6, <2>3
  <2>5. QED
    BY <2>2, <2>4
<1>10. \A k, l \in 1 .. N : k < l => at[k] \in below[at[l]]
  <2>1. SUFFICES ASSUME NEW k \in 1 .. N, NEW l \in 1 .. N, k < l PROVE at[k] \in below[at[l]]
    OBVIOUS
  <2>2. rank[at[k]] < rank[at[l]] /\ at[k] \in I /\ at[l] \in I
    BY <1>2, <1>8, <2>1
  <2>3. ~(at[l] \in below[at[k]]) /\ at[k] # at[l]
    <3>1. ~(rank[at[l]] < rank[at[k]])
      BY <1>2, <1>5, <2>2
    <3>2. rank[at[k]] # rank[at[l]]
      BY <1>2, <1>5, <2>2
    <3>3. QED
      BY <1>4, <2>2, <3>1, <3>2
  <2>4. QED
    BY <2>2, <2>3 DEF Ranking
<1>11. at \in [1 .. N -> I]
  BY <1>1, <1>8
<1>12. QED
  BY <1>2, <1>5, <1>6, <1>8, <1>9, <1>10, <1>11 DEF Enumerates, N

\* The numbers of a set below each of them
Lower(I) == [i \in I |-> {j \in I : j < i}]

\* Of some numbers the lower ones come first.
LEMMA LowerRanks ==
  ASSUME NEW I \in SUBSET Nat, IsFiniteSet(I)
  PROVE  Ranking(I, Lower(I))
<1>1. \A i \in I : Lower(I)[i] = {j \in I : j < i}
  BY DEF Lower
<1>2. Lower(I) \in [I -> SUBSET I]
  BY DEF Lower
<1>3. \A i, j \in I : i \in Lower(I)[j] <=> i < j
  BY <1>1
<1>4. \A i, j \in I : i \in Lower(I)[j] => Lower(I)[i] \subseteq Lower(I)[j]
  <2>1. SUFFICES ASSUME NEW i \in I, NEW j \in I, i < j, NEW h \in I, h < i PROVE h < j
    BY <1>1, <1>3
  <2>2. QED
    BY <2>1
<1>5. QED
  BY <1>2, <1>3, <1>4 DEF Ranking

\* Increasing functions from the first numbers onto a set
Increasing(at, m, I) ==
  /\ m \in Nat
  /\ at \in [1 .. m -> I]
  /\ \A i \in I : \E k \in 1 .. m : at[k] = i
  /\ \A k, l \in 1 .. m : k < l => at[k] < at[l]

\* InOrder is one of them ...
LEMMA InOrderIncreases ==
  ASSUME NEW I \in SUBSET Nat, IsFiniteSet(I)
  PROVE  /\ Increasing(InOrder(I), Cardinality(I), I)
         /\ \A k \in 1 .. Cardinality(I) : Cardinality({j \in I : j < InOrder(I)[k]}) = k - 1
         /\ \A i, j \in I : Cardinality({h \in I : h < i}) = Cardinality({h \in I : h < j}) => i = j
<1>. DEFINE rank == [i \in I |-> Cardinality({j \in I : j < i}) + 1]
<1>1. rank = [i \in I |-> Cardinality(Lower(I)[i]) + 1]
  BY DEF Lower
<1>2. InOrder(I) = [k \in 1 .. Cardinality(I) |-> CHOOSE i \in I : rank[i] = k]
  BY DEF InOrder
<1>. HIDE DEF rank
<1>3. /\ Enumerates(InOrder(I), I, Lower(I))
      /\ \A k \in 1 .. Cardinality(I) : rank[InOrder(I)[k]] = k
      /\ \A i \in I : rank[i] \in 1 .. Cardinality(I)
      /\ \A i, j \in I : rank[i] = rank[j] => i = j
  <2>1. ByRank(I, Lower(I), rank, InOrder(I))
    BY <1>1, <1>2 DEF ByRank
  <2>2. QED
    BY <2>1, LowerRanks, RanksEnumerate
<1>4. \A i \in I : IsFiniteSet({h \in I : h < i}) /\ Cardinality({h \in I : h < i}) \in Nat
  <2>1. \A i \in I : {h \in I : h < i} \in SUBSET I
    OBVIOUS
  <2>2. QED
    BY <2>1, FS_Subset, FS_CardinalityType
<1>5. \A i \in I : rank[i] = Cardinality({h \in I : h < i}) + 1
  BY DEF rank
<1>6. Increasing(InOrder(I), Cardinality(I), I)
  <2>1. \A i \in I : \A j \in Lower(I)[i] : j < i
    BY DEF Lower
  <2>2. QED
    BY <1>3, <2>1 DEF Increasing, Enumerates
<1>7. \A k \in 1 .. Cardinality(I) : Cardinality({j \in I : j < InOrder(I)[k]}) = k - 1
  <2>1. TAKE k \in 1 .. Cardinality(I)
  <2>2. PICK i \in I : i = InOrder(I)[k]
    BY <1>3 DEF Enumerates
  <2>3. rank[i] = k /\ rank[i] = Cardinality({h \in I : h < i}) + 1
    BY <1>3, <1>5, <2>2
  <2>4. Cardinality({h \in I : h < i}) = k - 1
    BY <1>4, <2>3
  <2>5. QED
    BY <2>2, <2>4
<1>8. \A i, j \in I : Cardinality({h \in I : h < i}) = Cardinality({h \in I : h < j}) => i = j
  BY <1>3, <1>5
<1>9. QED
  BY <1>6, <1>7, <1>8

\* ... and the only one.
LEMMA IncreasingIsInOrder ==
  ASSUME NEW I \in SUBSET Nat, NEW m, NEW at, Increasing(at, m, I)
  PROVE  IsFiniteSet(I) /\ Cardinality(I) = m /\ InOrder(I) = at
<1>1. m \in Nat /\ at \in [1 .. m -> I]
  BY DEF Increasing
<1>2. \A k \in 1 .. m : at[k] \in I /\ at[k] \in Nat
  BY <1>1
<1>3. \A k, l \in 1 .. m : at[k] = at[l] => k = l
  <2>1. SUFFICES ASSUME NEW k \in 1 .. m, NEW l \in 1 .. m, at[k] = at[l] PROVE k = l
    OBVIOUS
  <2>2. ~(at[k] < at[l]) /\ ~(at[l] < at[k])
    BY <1>2, <2>1
  <2>3. QED
    BY <1>1, <2>2 DEF Increasing
<1>4. at \in Bijection(1 .. m, I)
  BY <1>1, <1>3 DEF Increasing, Bijection, Injection, Surjection, IsInjective
<1>5. IsFiniteSet(1 .. m) /\ Cardinality(1 .. m) = m
  BY <1>1, FS_Interval
<1>6. IsFiniteSet(I) /\ Cardinality(I) = m
  BY <1>4, <1>5, FS_Bijection DEF ExistsBijection
<1>7. ASSUME NEW k \in 1 .. m
      PROVE  Cardinality({j \in I : j < at[k]}) = k - 1
  <2>. DEFINE f == [l \in 1 .. k - 1 |-> at[l]]
  <2>1. \A l \in 1 .. k - 1 : l \in 1 .. m /\ l < k
    BY <1>1
  <2>2. f \in [1 .. k - 1 -> {j \in I : j < at[k]}]
    BY <1>1, <2>1 DEF Increasing
  <2>3. \A j \in {h \in I : h < at[k]} : \E l \in 1 .. k - 1 : f[l] = j
    <3>1. TAKE j \in {h \in I : h < at[k]}
    <3>2. PICK l \in 1 .. m : at[l] = j
      BY DEF Increasing
    <3>3. l < k
      <4>1. ~(at[k] < at[l]) /\ at[k] # at[l]
        BY <1>2, <3>2
      <4>2. QED
        BY <1>1, <4>1 DEF Increasing
    <3>4. l \in 1 .. k - 1
      BY <1>1, <3>3
    <3>5. QED
      BY <3>2, <3>4
  <2>4. \A l, h \in 1 .. k - 1 : f[l] = f[h] => l = h
    BY <1>3, <2>1
  <2>5. f \in Bijection(1 .. k - 1, {j \in I : j < at[k]})
    BY <2>2, <2>3, <2>4 DEF Bijection, Injection, Surjection, IsInjective
  <2>6. IsFiniteSet(1 .. k - 1) /\ Cardinality(1 .. k - 1) = k - 1
    BY <1>1, FS_Interval
  <2>. HIDE DEF f
  <2>7. QED
    BY <2>5, <2>6, FS_Bijection DEF ExistsBijection
<1>8. Increasing(InOrder(I), m, I)
  BY <1>6, InOrderIncreases
<1>9. \A k \in 1 .. m : InOrder(I)[k] = at[k]
  <2>1. TAKE k \in 1 .. m
  <2>2. Cardinality({j \in I : j < InOrder(I)[k]}) = Cardinality({j \in I : j < at[k]})
    BY <1>6, <1>7, InOrderIncreases
  <2>3. InOrder(I)[k] \in I /\ at[k] \in I
    BY <1>1, <1>8 DEF Increasing
  <2>4. PICK i \in I, j \in I : i = InOrder(I)[k] /\ j = at[k]
    BY <2>3
  <2>5. i = j
    BY <1>6, <2>2, <2>4, InOrderIncreases
  <2>6. QED
    BY <2>4, <2>5
<1>10. DOMAIN InOrder(I) = 1 .. m
  BY <1>8 DEF Increasing
<1>11. InOrder(I) = [k \in 1 .. m |-> InOrder(I)[k]]
  BY <1>8 DEF Increasing
<1>12. at = [k \in 1 .. m |-> at[k]]
  BY <1>1
<1>13. QED
  BY <1>6, <1>9, <1>11, <1>12

-------------------------------------------------------------------------------
(* Recursive definitions                                                   *)

\* What a function has that is defined by recursion on the numbers up to n
Recursion(rec, n, base, step) ==
  /\ rec[0] = base
  /\ \A k \in 1 .. n : rec[k] = step[<<rec[k - 1], k>>]

\* There is such a function, by induction on n.
LEMMA RecursionExists ==
  ASSUME NEW n \in Nat, NEW Q, NEW base \in Q, NEW step \in [Q \X (1 .. n) -> Q]
  PROVE  \E rec \in [0 .. n -> Q] : Recursion(rec, n, base, step)
<1>. DEFINE S == {m \in Nat : m <= n => \E rec \in [0 .. m -> Q] : Recursion(rec, m, base, step)}
<1>1. 0 \in S
  <2>. DEFINE rec == [i \in 0 .. 0 |-> base]
  <2>1. rec \in [0 .. 0 -> Q] /\ Recursion(rec, 0, base, step)
    BY DEF Recursion
  <2>2. QED
    BY <2>1
<1>2. ASSUME NEW m \in Nat, m \in S
      PROVE  m + 1 \in S
  <2>1. SUFFICES ASSUME m + 1 <= n
                 PROVE  \E rec \in [0 .. m + 1 -> Q] : Recursion(rec, m + 1, base, step)
    OBVIOUS
  <2>2. PICK g \in [0 .. m -> Q] : Recursion(g, m, base, step)
    BY <1>2, <2>1
  <2>3. PICK q \in Q : q = step[<<g[m], m + 1>>]
    <3>1. m \in 0 .. m /\ m + 1 \in 1 .. n
      BY <2>1
    <3>2. <<g[m], m + 1>> \in Q \X (1 .. n)
      BY <3>1
    <3>3. QED
      BY <3>2
  <2>. DEFINE h == [i \in 0 .. m + 1 |-> IF i = m + 1 THEN q ELSE g[i]]
  <2>4. \A i \in 0 .. m + 1 : i = m + 1 \/ i \in 0 .. m
    OBVIOUS
  <2>5. h \in [0 .. m + 1 -> Q]
    BY <2>4
  <2>6. h[0] = base
    <3>1. 0 \in 0 .. m + 1 /\ 0 # m + 1
      OBVIOUS
    <3>2. QED
      BY <2>2, <3>1 DEF Recursion
  <2>7. ASSUME NEW k \in 1 .. m + 1
        PROVE  h[k] = step[<<h[k - 1], k>>]
    <3>1. k \in 0 .. m + 1 /\ k - 1 \in 0 .. m + 1 /\ k - 1 # m + 1
      OBVIOUS
    <3>2. CASE k = m + 1
      <4>1. k - 1 = m
        BY <3>2
      <4>2. h[k] = q /\ h[k - 1] = g[m]
        BY <3>1, <3>2, <4>1
      <4>3. QED
        BY <2>3, <3>2, <4>2
    <3>3. CASE k # m + 1
      <4>1. k \in 1 .. m
        BY <3>3
      <4>2. h[k] = g[k] /\ h[k - 1] = g[k - 1]
        BY <3>1, <3>3
      <4>3. QED
        BY <2>2, <4>1, <4>2 DEF Recursion
    <3>4. QED
      BY <3>2, <3>3
  <2>8. Recursion(h, m + 1, base, step)
    BY <2>6, <2>7 DEF Recursion
  <2>9. QED
    BY <2>5, <2>8
<1>. HIDE DEF S
<1>3. n \in S
  BY <1>1, <1>2, SetInduction
<1>4. QED
  BY <1>3 DEF S

\* The places of the elements of a sequence of sequences
Cells(ss, n) == {c \in (1 .. n) \X Nat : c[2] \in DOMAIN ss[c[1]]}

\* src tells of each element of t which one of ss it is, and all of them are there.
Flat(t, ss, n, src) ==
  /\ DOMAIN src = DOMAIN t
  /\ \A i \in DOMAIN t : src[i] \in Cells(ss, n) /\ t[i] = ss[src[i][1]][src[i][2]]
  /\ \A i, j \in DOMAIN t : src[i] = src[j] => i = j
  /\ \A c \in Cells(ss, n) : \E i \in DOMAIN t : src[i] = c

\* One more sequence behind
LEMMA FlatAppend ==
  ASSUME NEW m \in Nat, NEW E, NEW ss, NEW t \in Seq(E), NEW src, Flat(t, ss, m, src),
         ss[m + 1] \in Seq(E)
  PROVE  \E new : Flat(t \o ss[m + 1], ss, m + 1, new)
<1>1. PICK u \in Seq(E) : u = ss[m + 1]
  OBVIOUS
<1>. DEFINE L == Len(t)
            T == t \o u
            new == [i \in 1 .. L + Len(u) |-> IF i <= L THEN src[i] ELSE <<m + 1, i - L>>]
<1>2. /\ L \in Nat /\ Len(u) \in Nat /\ DOMAIN t = 1 .. L /\ DOMAIN u = 1 .. Len(u)
      /\ DOMAIN T = 1 .. L + Len(u)
      /\ \A i \in 1 .. L + Len(u) : T[i] = IF i <= L THEN t[i] ELSE u[i - L]
  BY <1>1
<1>3. \A i \in 1 .. L + Len(u) : new[i] = IF i <= L THEN src[i] ELSE <<m + 1, i - L>>
  OBVIOUS
<1>4. DOMAIN new = DOMAIN T
  BY <1>2
<1>. HIDE DEF T, new, L
<1>5. \A c \in Cells(ss, m) : c \in Cells(ss, m + 1) /\ c[1] # m + 1
  BY DEF Cells
<1>6. \A j \in 1 .. Len(u) : <<m + 1, j>> \in Cells(ss, m + 1)
  BY <1>1, <1>2 DEF Cells
<1>7. ASSUME NEW c \in Cells(ss, m + 1)
      PROVE  c \in Cells(ss, m) \/ \E j \in 1 .. Len(u) : c = <<m + 1, j>>
  <2>1. c = <<c[1], c[2]>> /\ c[1] \in 1 .. m + 1 /\ c[2] \in Nat /\ c[2] \in DOMAIN ss[c[1]]
    BY DEF Cells
  <2>2. CASE c[1] = m + 1
    BY <1>1, <1>2, <2>1, <2>2
  <2>3. CASE c[1] # m + 1
    <3>1. c[1] \in 1 .. m
      BY <2>1, <2>3
    <3>2. QED
      BY <2>1, <3>1 DEF Cells
  <2>4. QED
    BY <2>2, <2>3
<1>8. ASSUME NEW i \in DOMAIN T
      PROVE  new[i] \in Cells(ss, m + 1) /\ T[i] = ss[new[i][1]][new[i][2]]
  <2>1. CASE i <= L
    <3>1. i \in DOMAIN t
      BY <1>2, <2>1
    <3>2. new[i] = src[i] /\ T[i] = t[i]
      BY <1>2, <1>3, <2>1
    <3>3. QED
      BY <1>5, <3>1, <3>2 DEF Flat
  <2>2. CASE ~(i <= L)
    <3>1. i - L \in 1 .. Len(u)
      BY <1>2, <2>2
    <3>2. new[i] = <<m + 1, i - L>> /\ T[i] = u[i - L]
      BY <1>2, <1>3, <2>2
    <3>3. QED
      BY <1>1, <1>6, <3>1, <3>2
  <2>3. QED
    BY <2>1, <2>2
<1>9. ASSUME NEW i \in DOMAIN T, NEW j \in DOMAIN T, new[i] = new[j]
      PROVE  i = j
  <2>1. \A k \in DOMAIN T : k <= L => new[k] = src[k] /\ new[k][1] # m + 1
    <3>1. SUFFICES ASSUME NEW k \in DOMAIN T, k <= L PROVE new[k] = src[k] /\ new[k][1] # m + 1
      OBVIOUS
    <3>2. new[k] = src[k]
      BY <1>2, <1>3, <3>1
    <3>3. k \in DOMAIN t
      BY <1>2, <3>1
    <3>4. QED
      BY <1>5, <3>2, <3>3 DEF Flat
  <2>2. \A k \in DOMAIN T : ~(k <= L) => new[k][1] = m + 1 /\ new[k][2] = k - L
    <3>1. SUFFICES ASSUME NEW k \in DOMAIN T, ~(k <= L)
                   PROVE  new[k][1] = m + 1 /\ new[k][2] = k - L
      OBVIOUS
    <3>2. new[k] = <<m + 1, k - L>>
      BY <1>2, <1>3, <3>1
    <3>3. QED
      BY <3>2
  <2>3. CASE i <= L
    <3>1. j <= L
      BY <1>9, <2>1, <2>2, <2>3
    <3>2. i \in DOMAIN t /\ j \in DOMAIN t /\ src[i] = src[j]
      BY <1>2, <1>9, <2>1, <2>3, <3>1
    <3>3. QED
      BY <3>2 DEF Flat
  <2>4. CASE ~(i <= L)
    <3>1. ~(j <= L)
      BY <1>9, <2>1, <2>2, <2>4
    <3>2. i - L = j - L
      BY <1>9, <2>2, <2>4, <3>1
    <3>3. QED
      BY <1>2, <3>2
  <2>5. QED
    BY <2>3, <2>4
<1>10. ASSUME NEW c \in Cells(ss, m + 1)
       PROVE  \E i \in DOMAIN T : new[i] = c
  <2>1. CASE c \in Cells(ss, m)
    <3>1. PICK i \in DOMAIN t : src[i] = c
      BY <2>1 DEF Flat
    <3>2. i \in DOMAIN T /\ i <= L
      BY <1>2
    <3>3. QED
      BY <1>2, <1>3, <3>1, <3>2
  <2>2. ASSUME NEW j \in 1 .. Len(u), c = <<m + 1, j>>
        PROVE  \E i \in DOMAIN T : new[i] = c
    <3>1. PICK i \in 1 .. L + Len(u) : i = L + j
      BY <1>2
    <3>2. ~(i <= L) /\ i - L = j
      BY <1>2, <3>1
    <3>3. QED
      BY <1>2, <1>3, <2>2, <3>2
  <2>3. QED
    BY <1>7, <2>1, <2>2
<1>11. Flat(T, ss, m + 1, new)
  BY <1>4, <1>8, <1>9, <1>10 DEF Flat
<1>12. QED
  BY <1>1, <1>11 DEF T

\* FlattenSeq joins its sequences and loses nothing.
LEMMA FlattenIsFlat ==
  ASSUME NEW n \in Nat, NEW E, NEW ss \in [1 .. n -> Seq(E)]
  PROVE  FlattenSeq(ss) \in Seq(E) /\ \E src : Flat(FlattenSeq(ss), ss, n, src)
<1>1. Len(ss) = n
  OBVIOUS
<1>2. CASE n = 0
  <2>1. FlattenSeq(ss) = ss /\ ss = <<>>
    BY <1>1, <1>2 DEF FlattenSeq
  <2>2. Cells(ss, n) = {}
    BY <1>2 DEF Cells
  <2>3. Flat(<<>>, ss, n, <<>>)
    BY <2>2 DEF Flat
  <2>4. QED
    BY <2>1, <2>3
<1>3. CASE n # 0
  <2>. DEFINE step == [x \in Seq(E) \X (1 .. n) |-> x[1] \o ss[x[2]]]
              F(w) == [i \in 1 .. n |-> IF i = 1 THEN ss[i] ELSE w[i - 1] \o ss[i]]
              flat == CHOOSE w : w = F(w)
  <2>1. step \in [Seq(E) \X (1 .. n) -> Seq(E)]
    OBVIOUS
  <2>2. PICK rec \in [0 .. n -> Seq(E)] : Recursion(rec, n, <<>>, step)
    <3>1. <<>> \in Seq(E)
      OBVIOUS
    <3>. HIDE DEF step
    <3>2. QED
      BY <2>1, <3>1, RecursionExists
  <2>3. ASSUME NEW i \in 1 .. n
        PROVE  rec[i] = IF i = 1 THEN ss[i] ELSE rec[i - 1] \o ss[i]
    <3>1. i - 1 \in 0 .. n /\ rec[i - 1] \in Seq(E)
      OBVIOUS
    <3>2. rec[i] = rec[i - 1] \o ss[i]
      <4>1. <<rec[i - 1], i>> \in Seq(E) \X (1 .. n)
        BY <3>1
      <4>2. step[<<rec[i - 1], i>>] = rec[i - 1] \o ss[i]
        BY <4>1
      <4>3. QED
        BY <2>2, <4>2 DEF Recursion
    <3>3. CASE i = 1
      <4>1. rec[i - 1] = <<>> /\ ss[i] \in Seq(E)
        BY <2>2, <3>3 DEF Recursion
      <4>2. QED
        BY <3>2, <3>3, <4>1
    <3>4. QED
      BY <3>2, <3>3
  <2>. DEFINE w1 == [i \in 1 .. n |-> rec[i]]
  <2>4. w1 = F(w1)
    <3>1. \A i \in 1 .. n : i # 1 => i - 1 \in 1 .. n
      OBVIOUS
    <3>2. \A i \in 1 .. n : w1[i] = IF i = 1 THEN ss[i] ELSE w1[i - 1] \o ss[i]
      BY <2>3, <3>1
    <3>. HIDE DEF w1
    <3>3. w1 = [i \in 1 .. n |-> w1[i]]
      BY DEF w1
    <3>4. QED
      BY <3>2, <3>3
  <2>. HIDE DEF F
  <2>5. flat = F(flat)
    BY <2>4
  <2>6. FlattenSeq(ss) = flat[n]
    BY <1>1, <1>3 DEF FlattenSeq, F
  <2>. HIDE DEF flat
  <2>7. \A i \in 1 .. n : flat[i] = IF i = 1 THEN ss[i] ELSE flat[i - 1] \o ss[i]
    BY <2>5 DEF F
  <2>. DEFINE Good(m) == flat[m] \in Seq(E) /\ \E src : Flat(flat[m], ss, m, src)
              S == {m \in Nat : m + 1 <= n => Good(m + 1)}
  <2>8. 0 \in S
    <3>1. 1 \in 1 .. n /\ flat[1] = ss[1]
      BY <1>3, <2>7
    <3>2. PICK u \in Seq(E) : u = ss[1]
      BY <3>1
    <3>3. Cells(ss, 0) = {}
      BY DEF Cells
    <3>4. Flat(<<>>, ss, 0, <<>>)
      BY <3>3 DEF Flat
    <3>5. <<>> \in Seq(E) /\ 0 + 1 = 1
      OBVIOUS
    <3>6. \E new : Flat(<<>> \o ss[0 + 1], ss, 0 + 1, new)
      BY <3>2, <3>4, <3>5, FlatAppend
    <3>7. <<>> \o ss[1] = ss[1]
      BY <3>2
    <3>8. QED
      BY <3>1, <3>2, <3>5, <3>6, <3>7
  <2>9. ASSUME NEW m \in Nat, m \in S
        PROVE  m + 1 \in S
    <3>1. SUFFICES ASSUME m + 1 + 1 <= n PROVE Good(m + 1 + 1)
      OBVIOUS
    <3>2. PICK t \in Seq(E) : t = flat[m + 1] /\ \E src : Flat(t, ss, m + 1, src)
      BY <2>9, <3>1
    <3>3. PICK src : Flat(t, ss, m + 1, src)
      BY <3>2
    <3>4. m + 1 \in Nat /\ m + 1 + 1 \in 1 .. n /\ m + 1 + 1 # 1 /\ m + 1 + 1 - 1 = m + 1
      BY <3>1
    <3>5. flat[m + 1 + 1] = t \o ss[m + 1 + 1]
      <4>1. PICK j \in 1 .. n : j = m + 1 + 1
        BY <3>4
      <4>2. flat[j] = flat[j - 1] \o ss[j]
        BY <2>7, <3>4, <4>1
      <4>3. j - 1 = m + 1
        BY <4>1
      <4>4. QED
        BY <3>2, <4>1, <4>2, <4>3
    <3>6. ss[m + 1 + 1] \in Seq(E)
      BY <3>4
    <3>7. t \o ss[m + 1 + 1] \in Seq(E)
      BY <3>6
    <3>8. \E new : Flat(t \o ss[m + 1 + 1], ss, m + 1 + 1, new)
      BY <3>3, <3>4, <3>6, FlatAppend
    <3>9. QED
      BY <3>5, <3>7, <3>8
  <2>. HIDE DEF S
  <2>10. n - 1 \in Nat /\ n - 1 + 1 = n
    BY <1>3
  <2>11. n - 1 \in S
    BY <2>8, <2>9, <2>10, SetInduction
  <2>12. Good(n)
    BY <2>10, <2>11 DEF S
  <2>13. QED
    BY <2>6, <2>12
<1>4. QED
  BY <1>2, <1>3

-------------------------------------------------------------------------------
(* Seeds in order                                                          *)

Entries == [kind : {"dic", "unk", "gold"}, id : Nat \cup Makers]

\* The seeds of a sentence of n characters; none is empty
SeedsOn(n) == {x \in [entry : Entries, start : 0 .. n, end : 0 .. n] : x.start < x.end}

\* Where the seeds that start at a boundary are
Places(s, b) == {i \in DOMAIN s : s[i].start = b}

Ordered(s) == \A i, j \in DOMAIN s : i < j => s[i].start <= s[j].start

\* Sorting puts the seeds at other places, those before others before them.
Permutes(p, s) ==
  /\ p \in [1 .. Len(s) -> 1 .. Len(s)]
  /\ \A i \in 1 .. Len(s) : \E k \in 1 .. Len(s) : p[k] = i
  /\ \A k, l \in 1 .. Len(s) : k < l => Before(s, p[k], p[l])

\* The places of a sequence of seeds, and the fields of a seed
LEMMA SeedProperties ==
  ASSUME NEW n \in Nat, NEW s \in Seq(SeedsOn(n))
  PROVE  /\ Len(s) \in Nat /\ DOMAIN s = 1 .. Len(s) /\ IsFiniteSet(DOMAIN s)
         /\ \A i \in DOMAIN s : /\ s[i] \in SeedsOn(n)
                                /\ s[i].start \in 0 .. n /\ s[i].end \in 0 .. n
                                /\ s[i].start < s[i].end
         /\ \A b : /\ Places(s, b) \in SUBSET Nat /\ IsFiniteSet(Places(s, b))
                   /\ Cardinality(Places(s, b)) \in Nat
<1>1. Len(s) \in Nat /\ DOMAIN s = 1 .. Len(s) /\ \A i \in DOMAIN s : s[i] \in SeedsOn(n)
  OBVIOUS
<1>2. \A x \in SeedsOn(n) : x.start \in 0 .. n /\ x.end \in 0 .. n /\ x.start < x.end
  BY DEF SeedsOn
<1>3. IsFiniteSet(DOMAIN s)
  BY <1>1, FS_Interval
<1>4. \A b : Places(s, b) \in SUBSET DOMAIN s
  BY DEF Places
<1>5. \A b : IsFiniteSet(Places(s, b)) /\ Cardinality(Places(s, b)) \in Nat
  BY <1>3, <1>4, FS_Subset, FS_CardinalityType
<1>6. \A b : Places(s, b) \in SUBSET Nat
  BY <1>1, <1>4
<1>7. QED
  BY <1>1, <1>2, <1>3, <1>5, <1>6

\* sortSeeds permutes the seeds, earlier ones first.
LEMMA SortedPermutes ==
  ASSUME NEW n \in Nat, NEW s \in Seq(SeedsOn(n))
  PROVE  \E p : Permutes(p, s) /\ Sorted(s) = [k \in 1 .. Len(s) |-> s[p[k]]]
<1>1. /\ Len(s) \in Nat /\ DOMAIN s = 1 .. Len(s) /\ IsFiniteSet(DOMAIN s)
      /\ \A i \in DOMAIN s : s[i].start \in Int
  BY SeedProperties
<1>. DEFINE I == DOMAIN s
            below == [j \in I |-> {i \in I : Before(s, i, j)}]
            rank == [j \in I |-> Cardinality({i \in I : Before(s, i, j)}) + 1]
            p == [k \in 1 .. Cardinality(I) |-> CHOOSE j \in I : rank[j] = k]
<1>2. Cardinality(I) = Len(s)
  <2>1. PICK N \in Nat : N = Len(s)
    BY <1>1
  <2>2. Cardinality(1 .. N) = N
    BY FS_Interval
  <2>3. QED
    BY <1>1, <2>1, <2>2
<1>3. \A i, j \in I : i \in below[j] <=> Before(s, i, j)
  OBVIOUS
<1>4. Ranking(I, below)
  <2>1. below \in [I -> SUBSET I]
    OBVIOUS
  <2>2. \A i \in I : ~Before(s, i, i)
    BY <1>1 DEF Before
  <2>3. \A i, j \in I : i = j \/ Before(s, i, j) \/ Before(s, j, i)
    BY <1>1 DEF Before
  <2>4. \A h, i, j \in I : Before(s, h, i) /\ Before(s, i, j) => Before(s, h, j)
    BY <1>1 DEF Before
  <2>5. \A i, j \in I : i \in below[j] => below[i] \subseteq below[j]
    <3>1. \A h, i, j \in I : h \in below[i] /\ i \in below[j] => h \in below[j]
      BY <1>3, <2>4
    <3>. HIDE DEF below
    <3>2. QED
      BY <2>1, <3>1
  <2>. HIDE DEF below
  <2>6. QED
    BY <1>1, <1>3, <2>1, <2>2, <2>3, <2>5 DEF Ranking
<1>5. ByRank(I, below, rank, p)
  BY DEF ByRank
<1>6. Sorted(s) = [k \in 1 .. Len(s) |-> s[p[k]]]
  BY <1>1, <1>2 DEF Sorted
<1>. HIDE DEF I, below, rank, p
<1>7. Enumerates(p, I, below)
  BY <1>4, <1>5, RanksEnumerate
<1>8. Permutes(p, s)
  <2>1. I = 1 .. Len(s)
    BY <1>1 DEF I
  <2>2. QED
    BY <1>2, <1>3, <1>7, <2>1 DEF Enumerates, Permutes
<1>9. QED
  BY <1>6, <1>8

\* What sortSeeds does and what it leaves
SortOf(t, s) ==
  /\ Len(t) = Len(s)
  /\ Ordered(t)
  /\ ToSet(t) = ToSet(s)
  /\ \A b : StartingAt(t, b) = StartingAt(s, b)
  /\ \A b : Cardinality(Places(t, b)) = Cardinality(Places(s, b))

\* What sortSeeds returns: the same seeds, ordered by start, those of one start in their old order
LEMMA SortedFacts ==
  ASSUME NEW n \in Nat, NEW s \in Seq(SeedsOn(n))
  PROVE  Sorted(s) \in Seq(SeedsOn(n)) /\ SortOf(Sorted(s), s)
<1>1. PICK p : Permutes(p, s) /\ Sorted(s) = [k \in 1 .. Len(s) |-> s[p[k]]]
  BY SortedPermutes
<1>. DEFINE N == Len(s)
<1>2. PICK t : t = Sorted(s)
  OBVIOUS
<1>3. /\ N \in Nat /\ DOMAIN s = 1 .. N
      /\ \A i \in 1 .. N : s[i] \in SeedsOn(n) /\ s[i].start \in Int
  BY SeedProperties
<1>4. /\ p \in [1 .. N -> 1 .. N]
      /\ \A i \in 1 .. N : \E k \in 1 .. N : p[k] = i
      /\ \A k, l \in 1 .. N : k < l => Before(s, p[k], p[l])
  BY <1>1 DEF Permutes
<1>. HIDE DEF N
<1>5. t = [k \in 1 .. N |-> s[p[k]]]
  BY <1>1, <1>2 DEF N
<1>6. t \in [1 .. N -> SeedsOn(n)] /\ \A k \in 1 .. N : t[k] = s[p[k]]
  BY <1>3, <1>4, <1>5
<1>7. t \in Seq(SeedsOn(n)) /\ Len(t) = N /\ DOMAIN t = 1 .. N
  BY <1>3, <1>6
<1>8. Ordered(t)
  <2>1. SUFFICES ASSUME NEW k \in 1 .. N, NEW l \in 1 .. N, k < l PROVE t[k].start <= t[l].start
    BY <1>7 DEF Ordered
  <2>2. Before(s, p[k], p[l]) /\ p[k] \in 1 .. N /\ p[l] \in 1 .. N
    BY <1>4, <2>1
  <2>3. s[p[k]].start <= s[p[l]].start
    BY <1>3, <2>2 DEF Before
  <2>4. QED
    BY <1>6, <2>3
<1>9. ToSet(t) = ToSet(s)
  <2>1. \A k \in 1 .. N : \E i \in 1 .. N : t[k] = s[i]
    BY <1>4, <1>6
  <2>2. \A i \in 1 .. N : \E k \in 1 .. N : t[k] = s[i]
    <3>1. TAKE i \in 1 .. N
    <3>2. PICK k \in 1 .. N : p[k] = i
      BY <1>4
    <3>3. QED
      BY <1>6, <3>2
  <2>3. QED
    <3>1. \A x : x \in ToSet(t) <=> \E k \in 1 .. N : x = t[k]
      BY <1>7 DEF ToSet
    <3>2. \A x : x \in ToSet(s) <=> \E i \in 1 .. N : x = s[i]
      BY <1>3 DEF ToSet
    <3>3. \A x : x \in ToSet(t) <=> x \in ToSet(s)
      <4>1. TAKE x
      <4>2. x \in ToSet(t) => x \in ToSet(s)
        BY <2>1, <3>1, <3>2
      <4>3. x \in ToSet(s) => x \in ToSet(t)
        BY <2>2, <3>1, <3>2
      <4>4. QED
        BY <4>2, <4>3
    <3>4. QED
      BY <3>3
<1>10. ASSUME NEW b
       PROVE  /\ StartingAt(t, b) = StartingAt(s, b)
              /\ Cardinality(Places(t, b)) = Cardinality(Places(s, b))
  <2>. DEFINE m == Cardinality(Places(t, b))
              q == InOrder(Places(t, b))
              at == [k \in 1 .. m |-> p[q[k]]]
  <2>1. /\ Places(t, b) \in SUBSET Nat /\ IsFiniteSet(Places(t, b))
        /\ Places(s, b) \in SUBSET Nat
    BY <1>7, SeedProperties
  <2>2. Increasing(q, m, Places(t, b))
    BY <2>1, InOrderIncreases
  <2>3. m \in Nat /\ q \in [1 .. m -> Places(t, b)]
    BY <2>2 DEF Increasing
  <2>. HIDE DEF m, q
  <2>4. \A k \in 1 .. m : q[k] \in 1 .. N /\ t[q[k]].start = b
    BY <1>7, <2>3 DEF Places
  <2>5. \A k \in 1 .. m : at[k] = p[q[k]] /\ at[k] \in 1 .. N /\ s[at[k]] = t[q[k]]
    BY <1>4, <1>6, <2>4
  <2>6. at \in [1 .. m -> Places(s, b)]
    <3>1. \A k \in 1 .. m : at[k] \in Places(s, b)
      BY <1>3, <2>4, <2>5 DEF Places
    <3>2. QED
      BY <3>1
  <2>7. \A i \in Places(s, b) : \E k \in 1 .. m : at[k] = i
    <3>1. TAKE i \in Places(s, b)
    <3>2. i \in 1 .. N /\ s[i].start = b
      BY <1>3 DEF Places
    <3>3. PICK l \in 1 .. N : p[l] = i
      BY <1>4, <3>2
    <3>4. l \in Places(t, b)
      BY <1>6, <1>7, <3>2, <3>3 DEF Places
    <3>5. PICK k \in 1 .. m : q[k] = l
      BY <2>2, <3>4 DEF Increasing
    <3>6. QED
      BY <2>5, <3>3, <3>5
  <2>. HIDE DEF at
  <2>8. \A k, l \in 1 .. m : k < l => at[k] < at[l]
    <3>1. SUFFICES ASSUME NEW k \in 1 .. m, NEW l \in 1 .. m, k < l PROVE at[k] < at[l]
      OBVIOUS
    <3>2. q[k] < q[l] /\ q[k] \in 1 .. N /\ q[l] \in 1 .. N
      BY <2>2, <2>4, <3>1 DEF Increasing
    <3>3. Before(s, at[k], at[l])
      BY <1>4, <2>5, <3>2
    <3>4. s[at[k]].start = b /\ s[at[l]].start = b /\ s[at[k]].start \in Int
      BY <1>3, <2>4, <2>5
    <3>5. QED
      BY <3>3, <3>4 DEF Before
  <2>9. Increasing(at, m, Places(s, b))
    BY <2>3, <2>6, <2>7, <2>8 DEF Increasing
  <2>10. Cardinality(Places(s, b)) = m /\ InOrder(Places(s, b)) = at
    BY <2>1, <2>9, IncreasingIsInOrder
  <2>11. StartingAt(s, b) = [k \in 1 .. m |-> s[at[k]]]
    BY <2>6, <2>10 DEF StartingAt, Where, Keep, Places
  <2>12. StartingAt(t, b) = [k \in 1 .. m |-> t[q[k]]]
    BY <2>3 DEF StartingAt, Where, Keep, Places, q
  <2>13. QED
    BY <2>5, <2>10, <2>11, <2>12 DEF m
<1>11. QED
  BY <1>2, <1>7, <1>8, <1>9, <1>10 DEF SortOf, N

\* No seed that Keys tells apart is doubled by sorting.
LEMMA SortedOnce ==
  ASSUME NEW n \in Nat, NEW s \in Seq(SeedsOn(n)), NEW X,
         \A i, j \in DOMAIN s : s[i] \in X /\ s[i] = s[j] => i = j
  PROVE  \A i, j \in DOMAIN Sorted(s) : Sorted(s)[i] \in X /\ Sorted(s)[i] = Sorted(s)[j] => i = j
<1>1. PICK p : Permutes(p, s) /\ Sorted(s) = [k \in 1 .. Len(s) |-> s[p[k]]]
  BY SortedPermutes
<1>2. /\ Len(s) \in Nat /\ DOMAIN s = 1 .. Len(s)
      /\ \A i \in 1 .. Len(s) : s[i].start \in Int
  BY SeedProperties
<1>3. \A k, l \in 1 .. Len(s) : p[k] = p[l] => k = l
  <2>1. SUFFICES ASSUME NEW k \in 1 .. Len(s), NEW l \in 1 .. Len(s), k < l PROVE p[k] # p[l]
    BY <1>2
  <2>2. Before(s, p[k], p[l]) /\ p[k] \in 1 .. Len(s)
    BY <1>1, <2>1 DEF Permutes
  <2>3. QED
    BY <1>2, <2>2 DEF Before
<1>4. \A k \in 1 .. Len(s) : p[k] \in DOMAIN s /\ Sorted(s)[k] = s[p[k]]
  BY <1>1, <1>2 DEF Permutes
<1>5. DOMAIN Sorted(s) = 1 .. Len(s)
  BY <1>1
<1>6. QED
  BY <1>3, <1>4, <1>5

-------------------------------------------------------------------------------
(* Connectability                                                          *)

\* A set of boundaries that no seed leads out of
Closed(S, C) == 0 \in C /\ \A x \in S : x.start \in C => x.end \in C

\* A chain of seeds leads from 0 to n: it is not possible to keep n out.
Covered(S, n) == \A C \in SUBSET (0 .. n) : Closed(S, C) => n \in C

\* More seeds cover no less.
LEMMA MoreCover ==
  ASSUME NEW n, NEW S, NEW T, S \subseteq T, Covered(S, n)
  PROVE  Covered(T, n)
BY DEF Covered, Closed

\* The marks after some of the seeds
MarksTo(marks, k, t, n) ==
  /\ marks[0]
  /\ \A C \in SUBSET (0 .. n) : Closed(ToSet(t), C) => \A b \in 0 .. n : marks[b] => b \in C
  /\ \A i \in 1 .. k : marks[t[i].start] => marks[t[i].end]

\* A seed does not change what was decided about those before it.
LEMMA MarkOne ==
  ASSUME NEW n \in Nat, NEW t \in Seq(SeedsOn(n)), Ordered(t),
         NEW k \in Nat, k + 1 \in DOMAIN t,
         NEW marks \in [0 .. n -> BOOLEAN], MarksTo(marks, k, t, n),
         NEW new, new = Mark(marks, t[k + 1])
  PROVE  MarksTo(new, k + 1, t, n)
<1>1. PICK x \in SeedsOn(n) : x = t[k + 1]
  BY SeedProperties
<1>2. x.start \in 0 .. n /\ x.end \in 0 .. n /\ x.start < x.end
  BY DEF SeedsOn
<1>3. \A i \in 1 .. k + 1 : i \in DOMAIN t /\ t[i].start \in 0 .. n /\ t[i].end \in 0 .. n
  BY SeedProperties
<1>4. \A i \in 1 .. k : t[i].start <= x.start
  BY <1>1, <1>3 DEF Ordered
<1>5. \A i \in 1 .. k + 1 : i \in 1 .. k \/ i = k + 1
  OBVIOUS
<1>6. CASE marks[x.start]
  <2>1. new = [marks EXCEPT ![x.end] = TRUE]
    BY <1>1, <1>6 DEF Mark
  <2>2. new[x.end] /\ \A b \in 0 .. n : b # x.end => new[b] = marks[b]
    BY <1>2, <2>1
  <2>3. new[0]
    BY <1>2, <2>2 DEF MarksTo
  <2>4. ASSUME NEW C \in SUBSET (0 .. n), Closed(ToSet(t), C), NEW b \in 0 .. n, new[b]
        PROVE  b \in C
    <3>1. x \in ToSet(t)
      BY <1>1 DEF ToSet
    <3>2. x.start \in C
      BY <1>2, <1>6, <2>4 DEF MarksTo
    <3>3. x.end \in C
      BY <2>4, <3>1, <3>2 DEF Closed
    <3>4. QED
      BY <2>2, <2>4, <3>3 DEF MarksTo
  <2>5. ASSUME NEW i \in 1 .. k + 1, new[t[i].start]
        PROVE  new[t[i].end]
    <3>1. CASE i = k + 1
      BY <1>1, <2>2, <3>1
    <3>2. CASE i \in 1 .. k
      <4>1. t[i].start # x.end
        BY <1>2, <1>3, <1>4, <3>2
      <4>2. marks[t[i].start]
        BY <1>3, <2>2, <2>5, <4>1
      <4>3. marks[t[i].end]
        BY <3>2, <4>2 DEF MarksTo
      <4>4. QED
        BY <1>3, <2>2, <4>3
    <3>3. QED
      BY <1>5, <3>1, <3>2
  <2>6. QED
    BY <2>3, <2>4, <2>5 DEF MarksTo
<1>7. CASE ~marks[x.start]
  <2>1. new = marks
    BY <1>1, <1>7 DEF Mark
  <2>2. \A i \in 1 .. k + 1 : marks[t[i].start] => marks[t[i].end]
    BY <1>1, <1>5, <1>7 DEF MarksTo
  <2>3. QED
    BY <2>1, <2>2 DEF MarksTo
<1>8. QED
  BY <1>6, <1>7

\* The single pass of checkConnectability decides whether the seeds, sorted, cover
\* the sentence.
LEMMA MarksCover ==
  ASSUME NEW n \in Nat, maxBoundaries = n + 1, NEW t \in Seq(SeedsOn(n)), Ordered(t)
  PROVE  Marked(t) \in [0 .. n -> BOOLEAN] /\ (Marked(t)[n] <=> Covered(ToSet(t), n))
<1>. DEFINE Q == [0 .. n -> BOOLEAN]
            base == [b \in 0 .. n |-> b = 0]
            step == [x \in Q \X (1 .. Len(t)) |-> Mark(x[1], t[x[2]])]
            F(w) == [k \in 0 .. Len(t) |-> IF k = 0 THEN base ELSE Mark(w[k - 1], t[k])]
            after == CHOOSE w : w = F(w)
<1>1. /\ Len(t) \in Nat /\ DOMAIN t = 1 .. Len(t)
      /\ \A k \in 1 .. Len(t) : t[k] \in SeedsOn(n) /\ t[k].start \in 0 .. n /\ t[k].end \in 0 .. n
  BY SeedProperties
<1>2. base \in Q
  OBVIOUS
<1>3. \A q \in Q : \A k \in 1 .. Len(t) : Mark(q, t[k]) \in Q
  BY <1>1 DEF Mark
<1>4. Marked(t) = after[Len(t)]
  <2>1. maxBoundaries - 1 = n
    OBVIOUS
  <2>2. QED
    BY <2>1 DEF Marked
<1>5. step \in [Q \X (1 .. Len(t)) -> Q] /\ \A q \in Q : \A k \in 1 .. Len(t) : step[<<q, k>>] = Mark(q, t[k])
  BY <1>3
<1>. HIDE DEF Q, base, step
<1>6. PICK rec \in [0 .. Len(t) -> Q] : Recursion(rec, Len(t), base, step)
  BY <1>1, <1>2, <1>5, RecursionExists
<1>7. rec = F(rec)
  <2>1. \A k \in 0 .. Len(t) : rec[k] = IF k = 0 THEN base ELSE Mark(rec[k - 1], t[k])
    <3>1. SUFFICES ASSUME NEW k \in 0 .. Len(t)
                   PROVE  rec[k] = IF k = 0 THEN base ELSE Mark(rec[k - 1], t[k])
      OBVIOUS
    <3>2. CASE k = 0
      BY <1>6, <3>2 DEF Recursion
    <3>3. CASE k # 0
      <4>1. k \in 1 .. Len(t) /\ k - 1 \in 0 .. Len(t)
        BY <1>1, <3>3
      <4>2. rec[k - 1] \in Q
        BY <4>1
      <4>3. QED
        BY <1>5, <1>6, <3>3, <4>1, <4>2 DEF Recursion
    <3>4. QED
      BY <3>2, <3>3
  <2>2. QED
    BY <2>1
<1>. HIDE DEF F
<1>8. after = F(after)
  BY <1>7
<1>. HIDE DEF after
<1>9. after[0] = base /\ \A k \in 1 .. Len(t) : after[k] = Mark(after[k - 1], t[k])
  <2>1. \A k \in 0 .. Len(t) : after[k] = IF k = 0 THEN base ELSE Mark(after[k - 1], t[k])
    BY <1>8 DEF F
  <2>2. 0 \in 0 .. Len(t) /\ \A k \in 1 .. Len(t) : k \in 0 .. Len(t) /\ k # 0
    BY <1>1
  <2>3. QED
    BY <2>1, <2>2
<1>. DEFINE Good(k) == after[k] \in Q /\ MarksTo(after[k], k, t, n)
            S == {k \in Nat : k <= Len(t) => Good(k)}
<1>10. 0 \in S
  <2>1. base[0] /\ \A b \in 0 .. n : base[b] => b = 0
    BY DEF base
  <2>2. MarksTo(base, 0, t, n)
    BY <2>1 DEF MarksTo, Closed
  <2>3. QED
    BY <1>2, <1>9, <2>2
<1>11. ASSUME NEW k \in Nat, k \in S
       PROVE  k + 1 \in S
  <2>1. SUFFICES ASSUME k + 1 <= Len(t) PROVE Good(k + 1)
    OBVIOUS
  <2>2. Good(k) /\ k + 1 \in 1 .. Len(t) /\ k + 1 - 1 = k
    BY <1>1, <1>11, <2>1
  <2>3. after[k + 1] = Mark(after[k], t[k + 1])
    BY <1>9, <2>2
  <2>4. after[k] \in Q /\ after[k + 1] \in Q
    BY <1>3, <2>2, <2>3
  <2>5. PICK marks \in [0 .. n -> BOOLEAN] : marks = after[k]
    BY <2>4 DEF Q
  <2>6. MarksTo(after[k + 1], k + 1, t, n)
    BY <1>1, <2>2, <2>3, <2>5, MarkOne
  <2>7. QED
    BY <2>4, <2>6
<1>. HIDE DEF S
<1>12. Len(t) \in S
  BY <1>1, <1>10, <1>11, SetInduction
<1>13. PICK marks \in [0 .. n -> BOOLEAN] : marks = Marked(t) /\ MarksTo(marks, Len(t), t, n)
  BY <1>1, <1>4, <1>12 DEF S, Q
<1>14. ASSUME marks[n], NEW C \in SUBSET (0 .. n), Closed(ToSet(t), C)
       PROVE  n \in C
  BY <1>13, <1>14 DEF MarksTo
<1>15. ASSUME Covered(ToSet(t), n)
       PROVE  marks[n]
  <2>. DEFINE C == {b \in 0 .. n : marks[b]}
  <2>1. ASSUME NEW x \in ToSet(t), x.start \in C
        PROVE  x.end \in C
    <3>1. PICK i \in 1 .. Len(t) : x = t[i]
      BY <1>1 DEF ToSet
    <3>2. QED
      BY <1>1, <1>13, <2>1, <3>1 DEF MarksTo
  <2>2. 0 \in C
    BY <1>13 DEF MarksTo
  <2>3. Closed(ToSet(t), C)
    BY <2>1, <2>2 DEF Closed
  <2>4. QED
    BY <1>15, <2>3 DEF Covered
<1>16. QED
  BY <1>13, <1>14, <1>15 DEF Covered

\* What the property calls reached covers the sentence, too.
LEMMA ReachedCovers ==
  ASSUME NEW n \in Nat, input.n = n, NEW s \in Seq(SeedsOn(n)), seeds = s
  PROVE  n \in Reached <=> Covered(ToSet(seeds), n)
<1>. DEFINE Q == SUBSET (0 .. n)
            T == ToSet(s)
            ends(B) == {x.end : x \in {y \in T : y.start \in B}}
            step == [x \in Q \X (1 .. n) |-> x[1] \cup ends(x[1])]
            F(w) == [k \in 0 .. n |-> IF k = 0 THEN {0} ELSE w[k - 1] \cup ends(w[k - 1])]
            from == CHOOSE w : w = F(w)
<1>1. \A x \in T : x.start \in 0 .. n /\ x.end \in 0 .. n /\ x.start < x.end
  BY SeedProperties DEF ToSet
<1>2. \A B \in Q : B \cup ends(B) \in Q
  BY <1>1
<1>3. Reached = from[n]
  BY DEF Reached
<1>4. /\ step \in [Q \X (1 .. n) -> Q]
      /\ \A B \in Q : \A k \in 1 .. n : step[<<B, k>>] = B \cup ends(B)
  BY <1>2
<1>5. {0} \in Q
  OBVIOUS
<1>. HIDE DEF Q, step, T
<1>6. PICK rec \in [0 .. n -> Q] : Recursion(rec, n, {0}, step)
  BY <1>4, <1>5, RecursionExists
<1>7. rec = F(rec)
  <2>1. \A k \in 0 .. n : rec[k] = IF k = 0 THEN {0} ELSE rec[k - 1] \cup ends(rec[k - 1])
    <3>1. SUFFICES ASSUME NEW k \in 0 .. n
                   PROVE  rec[k] = IF k = 0 THEN {0} ELSE rec[k - 1] \cup ends(rec[k - 1])
      OBVIOUS
    <3>2. CASE k = 0
      BY <1>6, <3>2 DEF Recursion
    <3>3. CASE k # 0
      <4>1. k \in 1 .. n /\ k - 1 \in 0 .. n
        BY <3>3
      <4>2. rec[k - 1] \in Q
        BY <4>1
      <4>3. rec[k] = step[<<rec[k - 1], k>>]
        BY <1>6, <4>1 DEF Recursion
      <4>4. QED
        BY <1>4, <3>3, <4>1, <4>2, <4>3
    <3>4. QED
      BY <3>2, <3>3
  <2>2. QED
    BY <2>1
<1>. HIDE DEF F
<1>8. from = F(from)
  BY <1>7
<1>. HIDE DEF from
<1>9. from[0] = {0} /\ \A k \in 1 .. n : from[k] = from[k - 1] \cup ends(from[k - 1])
  <2>1. \A k \in 0 .. n : from[k] = IF k = 0 THEN {0} ELSE from[k - 1] \cup ends(from[k - 1])
    BY <1>8 DEF F
  <2>. HIDE DEF ends
  <2>2. 0 \in 0 .. n /\ \A k \in 1 .. n : k \in 0 .. n /\ k # 0
    OBVIOUS
  <2>3. QED
    BY <2>1, <2>2
<1>10. ASSUME NEW C \in SUBSET (0 .. n), Closed(T, C)
       PROVE  from[n] \subseteq C
  <2>. DEFINE S == {k \in Nat : k <= n => from[k] \subseteq C}
  <2>1. 0 \in S
    BY <1>9, <1>10 DEF Closed
  <2>2. ASSUME NEW k \in Nat, k \in S
        PROVE  k + 1 \in S
    <3>1. SUFFICES ASSUME k + 1 <= n PROVE from[k + 1] \subseteq C
      OBVIOUS
    <3>2. from[k] \subseteq C /\ k + 1 \in 1 .. n /\ k + 1 - 1 = k
      BY <2>2, <3>1
    <3>3. from[k + 1] = from[k] \cup ends(from[k])
      BY <1>9, <3>2
    <3>4. ends(from[k]) \subseteq C
      BY <1>10, <3>2 DEF Closed
    <3>5. QED
      BY <3>2, <3>3, <3>4
  <2>. HIDE DEF S
  <2>3. n \in S
    BY <2>1, <2>2, SetInduction
  <2>4. QED
    BY <2>3 DEF S
<1>11. ASSUME NEW k \in 0 .. n, NEW b \in from[k]
       PROVE  \A l \in k .. n : b \in from[l]
  <2>. DEFINE S == {l \in Nat : k <= l /\ l <= n => b \in from[l]}
  <2>1. 0 \in S
    <3>1. k <= 0 => k = 0
      OBVIOUS
    <3>2. QED
      BY <1>11, <3>1
  <2>2. ASSUME NEW l \in Nat, l \in S
        PROVE  l + 1 \in S
    <3>1. SUFFICES ASSUME k <= l + 1, l + 1 <= n PROVE b \in from[l + 1]
      OBVIOUS
    <3>2. CASE k = l + 1
      BY <1>11, <3>2
    <3>3. CASE k # l + 1
      <4>1. l \in 0 .. n /\ l + 1 \in 1 .. n /\ l + 1 - 1 = l /\ k <= l
        BY <3>1, <3>3
      <4>2. from[l + 1] = from[l] \cup ends(from[l])
        BY <1>9, <4>1
      <4>3. QED
        BY <2>2, <4>1, <4>2
    <3>4. QED
      BY <3>2, <3>3
  <2>. HIDE DEF S
  <2>3. \A l \in Nat : l \in S
    BY <2>1, <2>2, SetInduction
  <2>4. QED
    BY <2>3 DEF S
<1>12. ASSUME Covered(T, n)
       PROVE  n \in from[n]
  <2>. DEFINE C == {b \in 0 .. n : b \in from[b]}
  <2>1. ASSUME NEW x \in T, x.start \in C
        PROVE  x.end \in C
    <3>1. x.start \in 0 .. n /\ x.start \in from[x.start] /\ x.end \in 0 .. n /\ x.start < x.end
      BY <1>1, <2>1
    <3>2. PICK k \in Nat : k = x.start
      BY <3>1
    <3>3. k + 1 \in 1 .. n /\ k + 1 - 1 = k /\ k + 1 <= x.end
      BY <3>1, <3>2
    <3>4. from[k + 1] = from[k] \cup ends(from[k])
      BY <1>9, <3>3
    <3>5. x.end \in from[k + 1]
      BY <3>1, <3>2, <3>4
    <3>6. QED
      BY <1>11, <3>1, <3>3, <3>5
  <2>2. 0 \in C
    BY <1>9
  <2>3. Closed(T, C)
    BY <2>1, <2>2 DEF Closed
  <2>4. n \in C
    BY <1>12, <2>3 DEF Covered
  <2>5. QED
    BY <2>4
<1>13. ASSUME n \in from[n]
       PROVE  Covered(T, n)
  BY <1>10, <1>13 DEF Covered
<1>14. QED
  BY <1>3, <1>12, <1>13 DEF T

-------------------------------------------------------------------------------
(* What the makers make                                                    *)

InputOK == input \in Inputs \cup Followers

\* Every sentence has a length, an answer of the dictionary for every span, and
\* characters of every class.
LEMMA InputProperties ==
  ASSUME InputOK
  PROVE  /\ input.n \in Nat
         /\ \A i, j \in 0 .. input.n : i < j => Status(i, j) \in {"Ok", "NoLeaf", "NoNode"}
         /\ \A i, j \in 0 .. input.n : i < j /\ j < input.n /\ Status(i, j) = "NoNode" =>
              Status(i, j + 1) = "NoNode"
         /\ DOMAIN input.trie = {s \in (0 .. input.n) \X (0 .. input.n) : s[1] < s[2]}
<1>1. input.n \in Nat /\ IsTrie(input.n, input.trie)
  BY AnalysisConstants DEF InputOK
<1>. DEFINE D == {s \in (0 .. input.n) \X (0 .. input.n) : s[1] < s[2]}
<1>2. input.trie \in [D -> {"Ok", "NoLeaf", "NoNode"}]
  BY <1>1 DEF IsTrie
<1>3. \A i, j \in 0 .. input.n : i < j => <<i, j>> \in D
  OBVIOUS
<1>4. \A s \in D : input.trie[s] = "NoNode" /\ s[2] < input.n => input.trie[<<s[1], s[2] + 1>>] = "NoNode"
  BY <1>1, <1>2 DEF IsTrie
<1>. HIDE DEF D
<1>5. \A i, j \in 0 .. input.n : i < j => Status(i, j) \in {"Ok", "NoLeaf", "NoNode"}
  BY <1>2, <1>3 DEF Status
<1>6. ASSUME NEW i \in 0 .. input.n, NEW j \in 0 .. input.n, i < j, j < input.n, Status(i, j) = "NoNode"
      PROVE  Status(i, j + 1) = "NoNode"
  BY <1>3, <1>4, <1>6 DEF Status
<1>7. QED
  BY <1>1, <1>2, <1>5, <1>6 DEF D

\* A word is found: the traversal cannot have left the trie before its end.
LEMMA WordsAreFound ==
  ASSUME InputOK, NEW s \in (0 .. input.n) \X (0 .. input.n), s[1] < s[2]
  PROVE  WordFound(s) <=> Status(s[1], s[2]) = "Ok"
<1>1. PICK n \in Nat : n = input.n
  BY InputProperties
<1>2. PICK a \in 0 .. n, z \in 0 .. n : s = <<a, z>> /\ a < z
  BY <1>1
<1>3. SUFFICES ASSUME Status(a, z) = "Ok", NEW j \in a + 1 .. z - 1, Status(a, j) = "NoNode"
               PROVE  FALSE
  BY <1>2 DEF WordFound, Traversed
<1>. DEFINE S == {k \in Nat : j + k <= z => Status(a, j + k) = "NoNode"}
<1>4. 0 \in S
  <2>1. j + 0 = j
    OBVIOUS
  <2>2. QED
    BY <1>3, <2>1
<1>5. ASSUME NEW k \in Nat, k \in S
      PROVE  k + 1 \in S
  <2>1. SUFFICES ASSUME j + (k + 1) <= z PROVE Status(a, j + (k + 1)) = "NoNode"
    OBVIOUS
  <2>2. PICK l \in 0 .. n : l = j + k /\ a < l /\ l < n /\ l + 1 = j + (k + 1)
    BY <1>2, <2>1
  <2>3. Status(a, l) = "NoNode"
    BY <1>5, <2>1, <2>2
  <2>4. Status(a, l + 1) = "NoNode"
    BY <1>1, <1>2, <2>2, <2>3, InputProperties
  <2>5. QED
    BY <2>2, <2>4
<1>. HIDE DEF S
<1>6. z - j \in Nat /\ j + (z - j) = z
  BY <1>2, <1>3
<1>7. z - j \in S
  BY <1>4, <1>5, <1>6, SetInduction
<1>8. QED
  BY <1>3, <1>6, <1>7 DEF S

Spans(n) == {s \in (0 .. n) \X (0 .. n) : s[1] < s[2]}

\* Lists without repetition
Listing(t, T) ==
  /\ t \in Seq(T)
  /\ \A i, j \in DOMAIN t : t[i] = t[j] => i = j
  /\ \A x \in T : \E i \in DOMAIN t : t[i] = x

\* AllSpans lists every span of the sentence once.
LEMMA SpansListed ==
  ASSUME NEW n \in Nat, input.n = n
  PROVE  Listing(AllSpans, Spans(n))
<1>. DEFINE row(i) == [k \in 1 .. n - i + 1 |-> <<i - 1, i - 1 + k>>]
            ss == [i \in 1 .. n |-> row(i)]
<1>1. AllSpans = FlattenSeq(ss)
  BY DEF AllSpans
<1>2. ASSUME NEW i \in 1 .. n
      PROVE  row(i) \in Seq(Spans(n)) /\ DOMAIN row(i) = 1 .. n - i + 1
  <2>1. \A k \in 1 .. n - i + 1 : <<i - 1, i - 1 + k>> \in Spans(n)
    BY DEF Spans
  <2>2. n - i + 1 \in Nat
    OBVIOUS
  <2>3. row(i) \in [1 .. n - i + 1 -> Spans(n)]
    BY <2>1
  <2>. HIDE DEF row
  <2>4. QED
    BY <2>2, <2>3
<1>3. \A i \in 1 .. n : \A k \in 1 .. n - i + 1 : row(i)[k] = <<i - 1, i - 1 + k>>
  OBVIOUS
<1>. HIDE DEF row
<1>4. ss \in [1 .. n -> Seq(Spans(n))] /\ \A i \in 1 .. n : ss[i] = row(i)
  BY <1>2
<1>. HIDE DEF ss
<1>5. PICK src : Flat(FlattenSeq(ss), ss, n, src)
  BY <1>4, FlattenIsFlat
<1>6. PICK t \in Seq(Spans(n)) : t = FlattenSeq(ss)
  BY <1>4, FlattenIsFlat
<1>7. ASSUME NEW c \in Cells(ss, n)
      PROVE  /\ c[1] \in 1 .. n /\ c[2] \in 1 .. n - c[1] + 1
             /\ c = <<c[1], c[2]>>
             /\ ss[c[1]][c[2]] = <<c[1] - 1, c[1] - 1 + c[2]>>
  <2>1. c = <<c[1], c[2]>> /\ c[1] \in 1 .. n /\ c[2] \in DOMAIN ss[c[1]]
    BY DEF Cells
  <2>2. ss[c[1]] = row(c[1]) /\ c[2] \in 1 .. n - c[1] + 1
    BY <1>2, <1>4, <2>1
  <2>3. QED
    BY <1>3, <2>1, <2>2
<1>8. ASSUME NEW i \in DOMAIN t, NEW j \in DOMAIN t, t[i] = t[j]
      PROVE  i = j
  <2>1. PICK c \in Cells(ss, n), d \in Cells(ss, n) : c = src[i] /\ d = src[j]
    BY <1>5, <1>6 DEF Flat
  <2>2. <<c[1] - 1, c[1] - 1 + c[2]>> = <<d[1] - 1, d[1] - 1 + d[2]>>
    <3>1. t[i] = ss[c[1]][c[2]] /\ t[j] = ss[d[1]][d[2]]
      BY <1>5, <1>6, <2>1 DEF Flat
    <3>2. ss[c[1]][c[2]] = <<c[1] - 1, c[1] - 1 + c[2]>>
      BY <1>7
    <3>3. ss[d[1]][d[2]] = <<d[1] - 1, d[1] - 1 + d[2]>>
      BY <1>7
    <3>4. QED
      BY <1>8, <3>1, <3>2, <3>3
  <2>3. c[1] = d[1] /\ c[2] = d[2]
    <3>1. c[1] \in Int /\ c[2] \in Int /\ d[1] \in Int /\ d[2] \in Int
      BY <1>7
    <3>2. c[1] - 1 = d[1] - 1 /\ c[1] - 1 + c[2] = d[1] - 1 + d[2]
      BY <2>2
    <3>3. PICK x \in Int, y \in Int, z \in Int, w \in Int : x = c[1] /\ y = d[1] /\ z = c[2] /\ w = d[2]
      BY <3>1
    <3>4. x - 1 = y - 1 /\ x - 1 + z = y - 1 + w
      BY <3>2, <3>3
    <3>5. x = y /\ z = w
      BY <3>4
    <3>6. QED
      BY <3>3, <3>5
  <2>4. c = d
    BY <1>7, <2>3
  <2>5. QED
    BY <1>5, <1>6, <2>1, <2>4 DEF Flat
<1>9. ASSUME NEW x \in Spans(n)
      PROVE  \E i \in DOMAIN t : t[i] = x
  <2>1. PICK a \in 0 .. n, z \in 0 .. n : x = <<a, z>> /\ a < z
    BY DEF Spans
  <2>2. PICK i \in 1 .. n : i = a + 1
    BY <2>1
  <2>3. PICK k \in 1 .. n - i + 1 : k = z - a
    BY <2>1, <2>2
  <2>4. <<i, k>> \in Cells(ss, n)
    BY <1>2, <1>4, <2>2, <2>3 DEF Cells
  <2>5. ss[i][k] = x
    <3>1. i - 1 = a /\ i - 1 + k = z
      BY <2>1, <2>2, <2>3
    <3>2. QED
      BY <1>3, <1>4, <2>1, <2>2, <2>3, <3>1
  <2>6. PICK l \in DOMAIN t : src[l] = <<i, k>>
    BY <1>5, <1>6, <2>4 DEF Flat
  <2>7. QED
    BY <1>5, <1>6, <2>5, <2>6 DEF Flat
<1>10. QED
  BY <1>1, <1>6, <1>8, <1>9 DEF Listing

\* Keep takes the elements at the places it is given, and no other.
LEMMA KeepFacts ==
  ASSUME NEW E, NEW s \in Seq(E), NEW I \in SUBSET DOMAIN s
  PROVE  /\ Keep(s, I) \in Seq(E)
         /\ \E at : /\ Increasing(at, Cardinality(I), I)
                    /\ Keep(s, I) = [k \in 1 .. Cardinality(I) |-> s[at[k]]]
<1>1. Len(s) \in Nat /\ DOMAIN s = 1 .. Len(s) /\ \A i \in DOMAIN s : s[i] \in E
  OBVIOUS
<1>2. I \in SUBSET Nat /\ IsFiniteSet(I)
  <2>1. IsFiniteSet(1 .. Len(s))
    BY <1>1, FS_Interval
  <2>2. QED
    BY <1>1, <2>1, FS_Subset
<1>3. PICK at, m : at = InOrder(I) /\ m = Cardinality(I)
  OBVIOUS
<1>4. Increasing(at, m, I)
  BY <1>2, <1>3, InOrderIncreases
<1>5. m \in Nat /\ at \in [1 .. m -> I]
  BY <1>4 DEF Increasing
<1>6. Keep(s, I) = [k \in 1 .. m |-> s[at[k]]]
  BY <1>3, <1>5 DEF Keep
<1>7. Keep(s, I) \in [1 .. m -> E]
  BY <1>1, <1>5, <1>6
<1>8. \E f : Increasing(f, m, I) /\ Keep(s, I) = [k \in 1 .. m |-> s[f[k]]]
  BY <1>4, <1>6
<1>9. Keep(s, I) \in Seq(E)
  BY <1>5, <1>7
<1>10. QED
  BY <1>3, <1>8, <1>9

\* The seeds of a maker: of its own kind, never a word, none twice, and one for
\* every character of its class that is no word itself.
MakerMakes(u, m, n) ==
  /\ u \in Seq(SeedsOn(n))
  /\ \A i \in DOMAIN u : u[i].entry = Unk(m) /\ Status(u[i].start, u[i].end) # "Ok"
  /\ \A i, j \in DOMAIN u : u[i] = u[j] => i = j
  /\ \A b \in 0 .. n - 1 : b \in input.class[m] /\ Status(b, b + 1) # "Ok" =>
       \E i \in DOMAIN u : u[i].start = b /\ u[i].end = b + 1

\* Making seeds of some of the spans
LEMMA UnkSeedsMake ==
  ASSUME NEW n \in Nat, InputOK, input.n = n, NEW m \in Makers,
         NEW I \in SUBSET DOMAIN AllSpans,
         \A k \in I : Status(AllSpans[k][1], AllSpans[k][2]) # "Ok",
         \A k \in DOMAIN AllSpans :
           /\ AllSpans[k][2] = AllSpans[k][1] + 1
           /\ AllSpans[k][1] \in input.class[m]
           /\ Status(AllSpans[k][1], AllSpans[k][2]) # "Ok"
           => k \in I
  PROVE  MakerMakes(UnkSeeds(m, Keep(AllSpans, I)), m, n)
<1>1. PICK t \in Seq(Spans(n)) : t = AllSpans /\ Listing(t, Spans(n))
  BY SpansListed DEF Listing
<1>2. PICK at, c : /\ c = Cardinality(I) /\ Increasing(at, c, I)
                   /\ Keep(t, I) = [k \in 1 .. c |-> t[at[k]]]
  BY <1>1, KeepFacts
<1>3. /\ c \in Nat /\ at \in [1 .. c -> I]
      /\ \A i \in I : \E k \in 1 .. c : at[k] = i
      /\ \A k, l \in 1 .. c : k < l => at[k] < at[l]
  BY <1>2 DEF Increasing
<1>4. /\ DOMAIN t = 1 .. Len(t) /\ Len(t) \in Nat
      /\ \A k \in DOMAIN t : t[k] \in Spans(n)
  BY <1>1
<1>5. \A x \in Spans(n) : x = <<x[1], x[2]>> /\ x[1] \in 0 .. n /\ x[2] \in 0 .. n /\ x[1] < x[2]
  BY DEF Spans
<1>. DEFINE u == UnkSeeds(m, Keep(AllSpans, I))
<1>6. u = [k \in 1 .. c |-> Seed(Unk(m), t[at[k]][1], t[at[k]][2])]
  BY <1>1, <1>2 DEF UnkSeeds
<1>7. \A k \in 1 .. c : at[k] \in I /\ at[k] \in DOMAIN t /\ at[k] \in Nat /\ t[at[k]] \in Spans(n)
  BY <1>1, <1>3, <1>4
<1>. HIDE DEF u
<1>8. ASSUME NEW k \in 1 .. c
      PROVE  /\ u[k].entry = Unk(m) /\ u[k].start = t[at[k]][1] /\ u[k].end = t[at[k]][2]
             /\ u[k] \in SeedsOn(n)
  <2>1. u[k] = Seed(Unk(m), t[at[k]][1], t[at[k]][2])
    BY <1>6
  <2>2. u[k].entry = Unk(m) /\ u[k].start = t[at[k]][1] /\ u[k].end = t[at[k]][2]
    BY <2>1 DEF Seed
  <2>3. Unk(m) \in Entries
    BY DEF Unk, Entries
  <2>4. u[k] \in SeedsOn(n)
    BY <1>5, <1>7, <2>1, <2>3 DEF Seed, SeedsOn
  <2>5. QED
    BY <2>2, <2>4
<1>9. u \in Seq(SeedsOn(n)) /\ DOMAIN u = 1 .. c
  <2>1. u \in [1 .. c -> SeedsOn(n)]
    BY <1>6, <1>8
  <2>2. QED
    BY <1>3, <2>1
<1>10. \A i \in 1 .. c : Status(u[i].start, u[i].end) # "Ok"
  BY <1>1, <1>7, <1>8
<1>11. ASSUME NEW i \in 1 .. c, NEW j \in 1 .. c, u[i] = u[j]
       PROVE  i = j
  <2>1. t[at[i]] = t[at[j]]
    <3>1. PICK x \in Spans(n), y \in Spans(n) : x = t[at[i]] /\ y = t[at[j]]
      BY <1>7
    <3>2. x[1] = y[1] /\ x[2] = y[2]
      BY <1>8, <1>11, <3>1
    <3>3. x = <<x[1], x[2]>> /\ y = <<y[1], y[2]>>
      BY <1>5
    <3>4. QED
      BY <3>1, <3>2, <3>3
  <2>2. at[i] = at[j]
    BY <1>1, <1>7, <2>1 DEF Listing
  <2>3. ~(i < j) /\ ~(j < i)
    BY <1>3, <1>7, <2>2
  <2>4. QED
    BY <1>3, <2>3
<1>12. ASSUME NEW b \in 0 .. n - 1, b \in input.class[m], Status(b, b + 1) # "Ok"
       PROVE  \E i \in 1 .. c : u[i].start = b /\ u[i].end = b + 1
  <2>1. <<b, b + 1>> \in Spans(n)
    BY DEF Spans
  <2>2. PICK k \in DOMAIN t : t[k] = <<b, b + 1>>
    BY <1>1, <2>1 DEF Listing
  <2>3. k \in I
    BY <1>1, <1>12, <2>2
  <2>4. PICK i \in 1 .. c : at[i] = k
    BY <1>3, <2>3
  <2>5. QED
    BY <1>8, <2>2, <2>4
<1>13. MakerMakes(u, m, n)
  BY <1>8, <1>9, <1>10, <1>11, <1>12 DEF MakerMakes
<1>14. QED
  BY <1>13 DEF u

\* Both kinds of makers make seeds of this kind.
LEMMA MakersMake ==
  ASSUME NEW n \in Nat, InputOK, input.n = n, NEW m \in Makers
  PROVE  MakerMakes(MakerSeeds(m), m, n)
<1>1. PICK t \in Seq(Spans(n)) : t = AllSpans /\ Listing(t, Spans(n))
  BY SpansListed DEF Listing
<1>2. \A k \in DOMAIN t : /\ t[k] \in (0 .. input.n) \X (0 .. input.n) /\ t[k][1] < t[k][2]
                          /\ t[k][1] \in Int /\ t[k][2] \in Int
  BY <1>1 DEF Spans
<1>3. \A k \in DOMAIN t : WordFound(t[k]) <=> Status(t[k][1], t[k][2]) = "Ok"
  BY <1>2, WordsAreFound
<1>4. CASE m \in Chunking
  <2>1. PICK I : I = {k \in DOMAIN AllSpans : InClass(m, AllSpans[k]) /\ ~WordFound(AllSpans[k])}
    OBVIOUS
  <2>2. \A k \in I : k \in DOMAIN t /\ Status(t[k][1], t[k][2]) # "Ok"
    BY <1>1, <1>3, <2>1
  <2>3. ASSUME NEW k \in DOMAIN t, t[k][2] = t[k][1] + 1, t[k][1] \in input.class[m],
               Status(t[k][1], t[k][2]) # "Ok"
        PROVE  k \in I
    <3>1. \A b \in t[k][1] .. t[k][2] - 1 : b = t[k][1]
      BY <1>2, <2>3
    <3>2. InClass(m, t[k])
      BY <2>3, <3>1 DEF InClass
    <3>3. QED
      BY <1>1, <1>3, <2>1, <2>3, <3>2
  <2>4. MakerMakes(UnkSeeds(m, Keep(AllSpans, I)), m, n)
    BY <1>1, <2>2, <2>3, UnkSeedsMake
  <2>5. MakerSeeds(m) = UnkSeeds(m, Keep(AllSpans, I))
    BY <1>4, <2>1 DEF MakerSeeds, ChunkSeeds, Where
  <2>6. QED
    BY <2>4, <2>5
<1>5. CASE m \notin Chunking
  <2>1. PICK I : I = {k \in DOMAIN AllSpans : /\ AllSpans[k][2] = AllSpans[k][1] + 1
                                              /\ InClass(m, AllSpans[k])
                                              /\ Status(AllSpans[k][1], AllSpans[k][2]) # "Ok"}
    OBVIOUS
  <2>2. \A k \in I : k \in DOMAIN t /\ Status(t[k][1], t[k][2]) # "Ok"
    BY <1>1, <2>1
  <2>3. ASSUME NEW k \in DOMAIN t, t[k][2] = t[k][1] + 1, t[k][1] \in input.class[m],
               Status(t[k][1], t[k][2]) # "Ok"
        PROVE  k \in I
    <3>1. \A b \in t[k][1] .. t[k][2] - 1 : b = t[k][1]
      BY <1>2, <2>3
    <3>2. InClass(m, t[k])
      BY <2>3, <3>1 DEF InClass
    <3>3. QED
      BY <1>1, <2>1, <2>3, <3>2
  <2>4. MakerMakes(UnkSeeds(m, Keep(AllSpans, I)), m, n)
    BY <1>1, <2>2, <2>3, UnkSeedsMake
  <2>5. MakerSeeds(m) = UnkSeeds(m, Keep(AllSpans, I))
    BY <1>5, <2>1 DEF MakerSeeds, SingleSeeds, Where
  <2>6. QED
    BY <2>4, <2>5
<1>6. QED
  BY <1>4, <1>5

\* The seeds of a stage: the same of all its makers
StageMakes(u, stage, n) ==
  /\ u \in Seq(SeedsOn(n))
  /\ \A i \in DOMAIN u : /\ \E m \in ToSet(stage) : u[i].entry = Unk(m)
                         /\ Status(u[i].start, u[i].end) # "Ok"
  /\ \A i, j \in DOMAIN u : u[i] = u[j] => i = j
  /\ \A b \in 0 .. n - 1 : \A k \in DOMAIN stage :
       b \in input.class[stage[k]] /\ Status(b, b + 1) # "Ok" =>
         \E i \in DOMAIN u : u[i].start = b /\ u[i].end = b + 1

\* A stage makes what its makers make, nothing twice.
LEMMA StagesMake ==
  ASSUME NEW n \in Nat, InputOK, input.n = n, NEW stage \in Seq(Makers), IsInjective(stage)
  PROVE  StageMakes(StageSeeds(stage), stage, n)
<1>. DEFINE ss == [k \in DOMAIN stage |-> MakerSeeds(stage[k])]
<1>1. PICK M \in Nat : M = Len(stage) /\ DOMAIN stage = 1 .. M /\ \A k \in 1 .. M : stage[k] \in Makers
  OBVIOUS
<1>2. \A k \in 1 .. M : ss[k] = MakerSeeds(stage[k]) /\ MakerMakes(ss[k], stage[k], n)
  BY <1>1, MakersMake
<1>3. ss \in [1 .. M -> Seq(SeedsOn(n))] /\ StageSeeds(stage) = FlattenSeq(ss)
  <2>1. DOMAIN ss = 1 .. M /\ \A k \in 1 .. M : ss[k] \in Seq(SeedsOn(n))
    BY <1>1, <1>2 DEF MakerMakes
  <2>2. ss = [k \in 1 .. M |-> ss[k]]
    BY <1>1
  <2>3. QED
    BY <2>1, <2>2 DEF StageSeeds
<1>. HIDE DEF ss
<1>4. PICK rows \in [1 .. M -> Seq(SeedsOn(n))] : rows = ss
  BY <1>3
<1>5. PICK u \in Seq(SeedsOn(n)) : u = FlattenSeq(rows) /\ \E src : Flat(u, rows, M, src)
  BY FlattenIsFlat
<1>6. PICK src : Flat(u, rows, M, src)
  BY <1>5
<1>7. \A c \in Cells(rows, M) :
        /\ c[1] \in 1 .. M /\ c[2] \in DOMAIN rows[c[1]] /\ c = <<c[1], c[2]>>
        /\ rows[c[1]][c[2]].entry = Unk(stage[c[1]])
        /\ Status(rows[c[1]][c[2]].start, rows[c[1]][c[2]].end) # "Ok"
  <2>1. TAKE c \in Cells(rows, M)
  <2>2. c[1] \in 1 .. M /\ c[2] \in DOMAIN rows[c[1]] /\ c = <<c[1], c[2]>>
    BY DEF Cells
  <2>3. MakerMakes(rows[c[1]], stage[c[1]], n)
    BY <1>2, <1>4, <2>2
  <2>4. QED
    BY <2>2, <2>3 DEF MakerMakes
<1>8. \A i \in DOMAIN u : /\ \E m \in ToSet(stage) : u[i].entry = Unk(m)
                          /\ Status(u[i].start, u[i].end) # "Ok"
  <2>1. TAKE i \in DOMAIN u
  <2>2. PICK c \in Cells(rows, M) : u[i] = rows[c[1]][c[2]]
    BY <1>6 DEF Flat
  <2>3. stage[c[1]] \in ToSet(stage)
    BY <1>1, <1>7 DEF ToSet
  <2>4. QED
    BY <1>7, <2>2, <2>3
<1>9. ASSUME NEW i \in DOMAIN u, NEW j \in DOMAIN u, u[i] = u[j]
      PROVE  i = j
  <2>1. PICK c \in Cells(rows, M), d \in Cells(rows, M) : c = src[i] /\ d = src[j]
    BY <1>6 DEF Flat
  <2>2. u[i] = rows[c[1]][c[2]] /\ u[j] = rows[d[1]][d[2]]
    BY <1>6, <2>1 DEF Flat
  <2>3. Unk(stage[c[1]]) = Unk(stage[d[1]])
    BY <1>7, <1>9, <2>2
  <2>4. stage[c[1]] = stage[d[1]]
    BY <2>3 DEF Unk
  <2>5. c[1] = d[1]
    BY <1>1, <1>7, <2>4 DEF IsInjective
  <2>6. MakerMakes(rows[c[1]], stage[c[1]], n)
    BY <1>2, <1>4, <1>7
  <2>7. c[2] = d[2]
    <3>1. c[2] \in DOMAIN rows[c[1]] /\ d[2] \in DOMAIN rows[c[1]]
      BY <1>7, <2>5
    <3>2. rows[c[1]][c[2]] = rows[c[1]][d[2]]
      BY <1>9, <2>2, <2>5
    <3>3. QED
      BY <2>6, <3>1, <3>2 DEF MakerMakes
  <2>8. c = d
    BY <1>7, <2>5, <2>7
  <2>9. QED
    BY <1>6, <2>1, <2>8 DEF Flat
<1>10. ASSUME NEW b \in 0 .. n - 1, NEW k \in 1 .. M,
             b \in input.class[stage[k]], Status(b, b + 1) # "Ok"
      PROVE  \E i \in DOMAIN u : u[i].start = b /\ u[i].end = b + 1
  <2>1. MakerMakes(rows[k], stage[k], n) /\ rows[k] \in Seq(SeedsOn(n))
    BY <1>2, <1>4
  <2>2. PICK j \in DOMAIN rows[k] : rows[k][j].start = b /\ rows[k][j].end = b + 1
    BY <1>10, <2>1 DEF MakerMakes
  <2>3. j \in Nat
    BY <2>1, <2>2
  <2>4. <<k, j>> \in Cells(rows, M)
    BY <2>2, <2>3 DEF Cells
  <2>5. PICK i \in DOMAIN u : src[i] = <<k, j>>
    BY <1>6, <2>4 DEF Flat
  <2>6. u[i] = rows[k][j]
    <3>1. <<k, j>>[1] = k /\ <<k, j>>[2] = j
      OBVIOUS
    <3>2. PICK c : c = <<k, j>> /\ c[1] = k /\ c[2] = j
      BY Zenon, <3>1
    <3>3. src[i] = c
      BY <2>5, <3>2
    <3>4. u[i] = rows[c[1]][c[2]]
      BY <1>6, <3>3 DEF Flat
    <3>5. QED
      BY <3>2, <3>4
  <2>7. QED
    BY <2>2, <2>6
<1>11. StageMakes(u, stage, n)
  BY <1>1, <1>8, <1>9, <1>10 DEF StageMakes
<1>12. QED
  BY <1>3, <1>4, <1>5, <1>11

\* The seeds of the dictionary: of its own kind, and every entry of every word
DicMakes(u, n) ==
  /\ u \in Seq(SeedsOn(n))
  /\ \A i \in DOMAIN u : u[i].entry.kind = "dic"
  /\ \A a, z \in 0 .. n : a < z /\ Status(a, z) = "Ok" =>
       \A h \in 1 .. Homographs : Seed(Dic(h), a, z) \in ToSet(u)

\* DictionaryNodeCreator makes every entry of every word, and nothing else.
LEMMA DictionaryMakes ==
  ASSUME NEW n \in Nat, InputOK, input.n = n
  PROVE  DicMakes(DicSeeds, n)
<1>1. PICK t \in Seq(Spans(n)) : t = AllSpans /\ Listing(t, Spans(n))
  BY SpansListed DEF Listing
<1>2. PICK M \in Nat : M = Len(t) /\ DOMAIN t = 1 .. M /\ \A k \in 1 .. M : t[k] \in Spans(n)
  OBVIOUS
<1>3. \A x \in Spans(n) : /\ x = <<x[1], x[2]>> /\ x[1] \in 0 .. n /\ x[2] \in 0 .. n /\ x[1] < x[2]
                          /\ x \in (0 .. input.n) \X (0 .. input.n)
  BY DEF Spans
<1>4. \A k \in 1 .. M : WordFound(t[k]) <=> Status(t[k][1], t[k][2]) = "Ok"
  BY <1>2, <1>3, WordsAreFound
<1>. DEFINE row(k) == [h \in 1 .. Homographs |-> Seed(Dic(h), t[k][1], t[k][2])]
            ss == [k \in 1 .. M |-> IF WordFound(t[k]) THEN row(k) ELSE <<>>]
<1>5. DicSeeds = FlattenSeq(ss)
  BY <1>1, <1>2 DEF DicSeeds
<1>6. Homographs \in Nat
  BY AnalysisConstants
<1>7. ASSUME NEW k \in 1 .. M, NEW h \in 1 .. Homographs
      PROVE  Seed(Dic(h), t[k][1], t[k][2]) \in SeedsOn(n)
  <2>1. Dic(h) \in Entries
    BY <1>6 DEF Dic, Entries
  <2>2. t[k][1] \in 0 .. n /\ t[k][2] \in 0 .. n /\ t[k][1] < t[k][2]
    BY <1>2, <1>3
  <2>3. QED
    BY <2>1, <2>2 DEF Seed, SeedsOn
<1>8. \A k \in 1 .. M : row(k) \in Seq(SeedsOn(n)) /\ DOMAIN row(k) = 1 .. Homographs
  <2>1. TAKE k \in 1 .. M
  <2>2. row(k) \in [1 .. Homographs -> SeedsOn(n)]
    BY <1>7
  <2>. HIDE DEF row
  <2>3. QED
    BY <1>6, <2>2
<1>9. \A k \in 1 .. M : \A h \in 1 .. Homographs : row(k)[h] = Seed(Dic(h), t[k][1], t[k][2])
  OBVIOUS
<1>. HIDE DEF row
<1>10. /\ ss \in [1 .. M -> Seq(SeedsOn(n))]
       /\ \A k \in 1 .. M : ss[k] = IF WordFound(t[k]) THEN row(k) ELSE <<>>
  <2>1. <<>> \in Seq(SeedsOn(n))
    OBVIOUS
  <2>2. QED
    BY <1>8, <2>1
<1>. HIDE DEF ss
<1>11. PICK rows \in [1 .. M -> Seq(SeedsOn(n))] : rows = ss
  BY <1>10
<1>12. PICK u \in Seq(SeedsOn(n)) : u = FlattenSeq(rows) /\ \E src : Flat(u, rows, M, src)
  BY FlattenIsFlat
<1>13. PICK src : Flat(u, rows, M, src)
  BY <1>12
<1>14. \A i \in DOMAIN u : u[i].entry.kind = "dic"
  <2>1. TAKE i \in DOMAIN u
  <2>2. PICK c \in Cells(rows, M) : u[i] = rows[c[1]][c[2]]
    BY <1>13 DEF Flat
  <2>3. c[1] \in 1 .. M /\ c[2] \in DOMAIN rows[c[1]]
    BY DEF Cells
  <2>4. rows[c[1]] = row(c[1]) /\ c[2] \in 1 .. Homographs
    <3>1. rows[c[1]] # <<>>
      BY <2>3
    <3>2. QED
      BY <1>8, <1>10, <1>11, <2>3, <3>1
  <2>5. u[i] = Seed(Dic(c[2]), t[c[1]][1], t[c[1]][2])
    BY <1>9, <2>2, <2>3, <2>4
  <2>6. QED
    BY <2>5 DEF Seed, Dic
<1>15. ASSUME NEW a \in 0 .. n, NEW z \in 0 .. n, a < z, Status(a, z) = "Ok",
              NEW h \in 1 .. Homographs
       PROVE  Seed(Dic(h), a, z) \in ToSet(u)
  <2>1. <<a, z>> \in Spans(n)
    BY <1>15 DEF Spans
  <2>2. PICK k \in 1 .. M : t[k] = <<a, z>>
    BY <1>1, <1>2, <2>1 DEF Listing
  <2>3. rows[k] = row(k)
    BY <1>4, <1>10, <1>11, <1>15, <2>2
  <2>4. <<k, h>> \in Cells(rows, M)
    BY <1>6, <1>8, <2>3 DEF Cells
  <2>5. PICK i \in DOMAIN u : src[i] = <<k, h>>
    BY <1>13, <2>4 DEF Flat
  <2>6. u[i] = rows[k][h]
    <3>1. <<k, h>>[1] = k /\ <<k, h>>[2] = h
      OBVIOUS
    <3>2. PICK c : c = <<k, h>> /\ c[1] = k /\ c[2] = h
      BY Zenon, <3>1
    <3>3. src[i] = c
      BY <2>5, <3>2
    <3>4. u[i] = rows[c[1]][c[2]]
      BY <1>13, <3>3 DEF Flat
    <3>5. QED
      BY <3>2, <3>4
  <2>7. u[i] = Seed(Dic(h), a, z)
    BY <1>9, <2>2, <2>3, <2>6
  <2>8. QED
    BY <2>7 DEF ToSet
<1>16. DicMakes(u, n)
  BY <1>14, <1>15 DEF DicMakes
<1>17. QED
  BY <1>5, <1>11, <1>12, <1>16

-------------------------------------------------------------------------------
(* Boundaries                                                              *)

\* A set of the first numbers is known by its size.
LEMMA FirstNumbers ==
  ASSUME NEW m \in Nat, NEW T \in SUBSET (1 .. m),
         \A i \in T : \A j \in 1 .. m : j < i => j \in T
  PROVE  Cardinality(T) \in 0 .. m /\ T = 1 .. Cardinality(T)
<1>1. m + 1 \notin T /\ m \in {k \in Nat : k + 1 \notin T}
  OBVIOUS
<1>2. PICK x \in Nat : x + 1 \notin T /\ \A y \in Nat : y + 1 \notin T => x <= y
  <2>. DEFINE G == {k \in Nat : k + 1 \notin T}
  <2>1. G \in SUBSET Nat /\ G # {}
    BY <1>1
  <2>2. PICK x \in G : \A y \in G : x <= y
    BY <2>1, LeastElement
  <2>3. QED
    BY <2>2
<1>3. x <= m
  BY <1>1, <1>2
<1>4. 1 .. x \subseteq T
  <2>1. SUFFICES ASSUME NEW i \in 1 .. x, i \notin T PROVE FALSE
    OBVIOUS
  <2>2. i - 1 \in Nat /\ i - 1 + 1 = i /\ ~(x <= i - 1)
    BY <2>1
  <2>3. QED
    BY <1>2, <2>1, <2>2
<1>5. T \subseteq 1 .. x
  <2>1. SUFFICES ASSUME NEW i \in T, i \notin 1 .. x PROVE FALSE
    OBVIOUS
  <2>2. i \in 1 .. m /\ x + 1 <= i /\ x + 1 \in 1 .. m
    BY <1>3, <2>1
  <2>3. x + 1 \in T
    BY <2>1, <2>2
  <2>4. QED
    BY <1>2, <2>3
<1>6. T = 1 .. x
  BY <1>4, <1>5
<1>7. Cardinality(T) = x
  BY <1>6, FS_Interval
<1>8. QED
  BY <1>3, <1>6, <1>7

\* How many seeds start before a boundary
Behind(s, b) == Cardinality({i \in DOMAIN s : s[i].start < b})

\* In sorted seeds those of a boundary stand together.
LEMMA OrderedBlocks ==
  ASSUME NEW n \in Nat, NEW s \in Seq(SeedsOn(n)), Ordered(s), NEW b \in Nat
  PROVE  /\ Behind(s, b) \in Nat
         /\ Behind(s, b + 1) = Behind(s, b) + Cardinality(Places(s, b))
         /\ Places(s, b) = Behind(s, b) + 1 .. Behind(s, b) + Cardinality(Places(s, b))
         /\ Behind(s, b) + Cardinality(Places(s, b)) <= Len(s)
<1>. DEFINE N == Len(s)
            T(a) == {i \in DOMAIN s : s[i].start < a}
<1>1. N \in Nat /\ DOMAIN s = 1 .. N /\ \A i \in DOMAIN s : s[i].start \in 0 .. n /\ s[i].start \in Int
  BY SeedProperties
<1>2. ASSUME NEW a \in Nat
      PROVE  Cardinality(T(a)) \in 0 .. N /\ T(a) = 1 .. Cardinality(T(a))
  <2>1. T(a) \in SUBSET (1 .. N)
    BY <1>1
  <2>2. \A i \in T(a) : \A j \in 1 .. N : j < i => j \in T(a)
    <3>1. SUFFICES ASSUME NEW i \in T(a), NEW j \in 1 .. N, j < i PROVE s[j].start < a
      BY <1>1
    <3>2. s[j].start <= s[i].start /\ s[i].start < a
      BY <1>1, <3>1 DEF Ordered
    <3>3. QED
      BY <1>1, <3>1, <3>2
  <2>. HIDE DEF T, N
  <2>3. QED
    BY <1>1, <2>1, <2>2, FirstNumbers
<1>3. PICK c \in Nat : c <= N /\ c = Cardinality(T(b)) /\ T(b) = 1 .. c
  <2>. HIDE DEF T
  <2>1. Cardinality(T(b)) \in 0 .. N /\ T(b) = 1 .. Cardinality(T(b))
    BY <1>2
  <2>2. QED
    BY <1>1, <2>1
<1>4. PICK d \in Nat : d <= N /\ d = Cardinality(T(b + 1)) /\ T(b + 1) = 1 .. d
  <2>. HIDE DEF T
  <2>1. b + 1 \in Nat
    OBVIOUS
  <2>2. Cardinality(T(b + 1)) \in 0 .. N /\ T(b + 1) = 1 .. Cardinality(T(b + 1))
    BY <1>2, <2>1
  <2>3. QED
    BY <1>1, <2>2
<1>5. c <= N /\ d <= N /\ T(b) = 1 .. c /\ T(b + 1) = 1 .. d
  BY <1>3, <1>4
<1>6. c <= d
  <2>1. \A i \in T(b) : i \in T(b + 1)
    BY <1>1
  <2>2. CASE c = 0
    BY <2>2
  <2>3. CASE c # 0
    <3>. HIDE DEF T, N
    <3>1. c \in 1 .. c
      BY <2>3
    <3>2. c \in 1 .. d
      BY <1>5, <2>1, <3>1
    <3>3. QED
      BY <3>2
  <2>4. QED
    BY <2>2, <2>3
<1>7. Places(s, b) = c + 1 .. d
  <2>1. \A i : i \in Places(s, b) <=> i \in T(b + 1) /\ i \notin T(b)
    BY <1>1 DEF Places
  <2>. HIDE DEF T
  <2>2. \A i : i \in Places(s, b) <=> i \in 1 .. d /\ i \notin 1 .. c
    BY <1>5, <2>1
  <2>3. \A i : i \in Places(s, b) => i \in Nat
    BY SeedProperties
  <2>4. \A i \in Nat : i \in Places(s, b) <=> i \in c + 1 .. d
    BY <1>6, <2>2
  <2>5. \A i \in c + 1 .. d : i \in Nat
    OBVIOUS
  <2>6. QED
    BY <2>3, <2>4, <2>5
<1>8. Cardinality(Places(s, b)) = d - c
  <2>1. Cardinality(c + 1 .. d) = IF c + 1 > d THEN 0 ELSE d - (c + 1) + 1
    BY <1>1, FS_Interval
  <2>2. QED
    BY <1>1, <1>6, <1>7, <2>1
<1>9. Behind(s, b) = c /\ Behind(s, b + 1) = d
  BY <1>3, <1>4 DEF Behind
<1>. HIDE DEF N, T
<1>10. d - c \in Nat /\ d = c + (d - c)
  BY <1>6
<1>11. Places(s, b) = c + 1 .. c + (d - c)
  BY <1>7, <1>10
<1>12. QED
  BY <1>5, <1>8, <1>9, <1>10, <1>11 DEF N

\* A slice of the sorted seeds is what starts at the boundary.
LEMMA SliceIsStart ==
  ASSUME NEW n \in Nat, NEW s \in Seq(SeedsOn(n)), Ordered(s), NEW b \in Nat,
         NEW info, info.firstNodeOffset = Behind(s, b),
         info.startCount = Cardinality(Places(s, b))
  PROVE  /\ Slice(s, info) = StartingAt(s, b)
         /\ \A i \in Places(s, b) : /\ i - Behind(s, b) \in DOMAIN StartingAt(s, b)
                                    /\ StartingAt(s, b)[i - Behind(s, b)] = s[i]
         /\ StartingAt(s, b) \in Seq(SeedsOn(n))
         /\ Len(StartingAt(s, b)) = Cardinality(Places(s, b))
         /\ \A k \in DOMAIN StartingAt(s, b) : StartingAt(s, b)[k].start = b
<1>1. PICK c \in Nat, m \in Nat, N \in Nat :
        /\ c = Behind(s, b) /\ m = Cardinality(Places(s, b)) /\ N = Len(s)
        /\ Places(s, b) = c + 1 .. c + m /\ c + m <= N
  BY OrderedBlocks, SeedProperties
<1>. DEFINE at == [k \in 1 .. m |-> c + k]
<1>2. at \in [1 .. m -> Places(s, b)] /\ \A k \in 1 .. m : at[k] = c + k
  <2>1. \A k \in 1 .. m : c + k \in c + 1 .. c + m
    OBVIOUS
  <2>2. QED
    BY <1>1, <2>1
<1>. HIDE DEF at
<1>3. Increasing(at, m, Places(s, b))
  <2>1. \A i \in Places(s, b) : i - c \in 1 .. m /\ at[i - c] = i
    <3>1. \A i \in c + 1 .. c + m : i - c \in 1 .. m /\ c + (i - c) = i
      OBVIOUS
    <3>2. QED
      BY <1>1, <1>2, <3>1
  <2>2. \A k, l \in 1 .. m : k < l => at[k] < at[l]
    BY <1>2
  <2>3. QED
    BY <1>2, <2>1, <2>2 DEF Increasing
<1>4. InOrder(Places(s, b)) = at
  BY <1>3, SeedProperties, IncreasingIsInOrder
<1>5. StartingAt(s, b) = [k \in 1 .. m |-> s[at[k]]]
  BY <1>2, <1>4 DEF StartingAt, Where, Keep, Places
<1>6. StartingAt(s, b) = [k \in 1 .. m |-> s[c + k]]
  BY <1>2, <1>5
<1>7. Slice(s, info) = SubSeq(s, c + 1, c + m)
  BY <1>1 DEF Slice
<1>8. \A k \in 1 .. m : c + k \in Places(s, b) /\ c + k \in DOMAIN s /\ s[c + k] \in SeedsOn(n)
  <2>1. \A k \in 1 .. m : c + k \in c + 1 .. c + m
    OBVIOUS
  <2>2. \A i \in Places(s, b) : i \in DOMAIN s
    BY DEF Places
  <2>3. QED
    BY <1>1, <2>1, <2>2, SeedProperties
<1>9. SubSeq(s, c + 1, c + m) = [k \in 1 .. m |-> s[c + k]]
  <2>1. PICK u : u = SubSeq(s, c + 1, c + m)
    OBVIOUS
  <2>2. \A i \in c + 1 .. c + m : s[i] \in SeedsOn(n)
    BY <1>1, SeedProperties DEF Places
  <2>3. PICK i \in Int, j \in Int : i = c + 1 /\ j = c + m
    OBVIOUS
  <2>4. /\ u \in Seq(SeedsOn(n))
        /\ Len(u) = IF i <= j THEN j - i + 1 ELSE 0
        /\ \A k \in 1 .. j - i + 1 : u[k] = s[i + k - 1]
    BY <2>1, <2>2, <2>3, SubSeqProperties
  <2>5. j - i + 1 = m /\ (~(i <= j) => m = 0) /\ \A k \in 1 .. m : i + k - 1 = c + k
    BY <2>3
  <2>6. Len(u) = m
    BY <2>4, <2>5
  <2>7. \A k \in 1 .. m : u[k] = s[c + k]
    BY <2>4, <2>5
  <2>8. u = [k \in 1 .. m |-> u[k]]
    BY <2>4, <2>6
  <2>9. QED
    BY <2>1, <2>7, <2>8
<1>10. StartingAt(s, b) \in [1 .. m -> SeedsOn(n)]
  BY <1>6, <1>8
<1>11. /\ StartingAt(s, b) \in Seq(SeedsOn(n)) /\ Len(StartingAt(s, b)) = m
       /\ DOMAIN StartingAt(s, b) = 1 .. m
  BY <1>10
<1>12. \A i \in Places(s, b) : i - c \in 1 .. m /\ c + (i - c) = i
  <2>1. \A i \in c + 1 .. c + m : i - c \in 1 .. m /\ c + (i - c) = i
    OBVIOUS
  <2>2. QED
    BY <1>1, <2>1
<1>13. \A k \in 1 .. m : StartingAt(s, b)[k] = s[c + k] /\ s[c + k].start = b
  BY <1>6, <1>8 DEF Places
<1>14. QED
  BY <1>1, <1>6, <1>7, <1>9, <1>11, <1>12, <1>13

-------------------------------------------------------------------------------
(* The seeds, step by step                                                 *)

Unknown(s) ==
  \A i \in DOMAIN s : s[i].entry.kind = "unk" =>
    /\ Status(s[i].start, s[i].end) # "Ok"
    /\ \A j \in DOMAIN s : s[j] = s[i] => j = i

Words(s, n) ==
  \A a, z \in 0 .. n : a < z /\ Status(a, z) = "Ok" =>
    \A h \in 1 .. Homographs : Seed(Dic(h), a, z) \in ToSet(s)

OnlyWords(s) == \A i \in DOMAIN s : s[i].entry.kind = "dic"
NoGold(s) == \A i \in DOMAIN s : s[i].entry.kind # "gold"
FromMakers(s, T) == \A i \in DOMAIN s : s[i].entry.kind = "unk" => s[i].entry.id \in T

\* How far the seeds are known to lead, by the function that runs next
Covering == {"prepare", "prepared", "recheck", "reprepare", "build", "boundaries", "ends", "built"}
Lacking == {"unk2", "discontinuous", "discPrepared"}
InSequence == {"prepare", "prepared", "discPrepared", "reprepare", "build", "boundaries", "ends",
               "built"}
Searching == {"dic", "unk1", "check1", "unk2", "check2", "prepare", "prepared", "discontinuous",
              "discPrepared"}

SeedsAt(p, s, n) ==
  /\ s \in Seq(SeedsOn(n))
  /\ Unknown(s)
  /\ p = "dic" => s = <<>>
  /\ p # "dic" => Words(s, n)
  /\ p = "unk1" => OnlyWords(s)
  /\ p \in {"check1", "unk2"} => FromMakers(s, ToSet(Stage1))
  /\ p \in Searching => NoGold(s)
  /\ p = "check2" /\ FallbackApplies => Covered(ToSet(s), n)
  /\ p \in Covering => Covered(ToSet(s), n)
  /\ p \in Lacking => ~Covered(ToSet(s), n)
  /\ p \in {"discontinuous", "discPrepared"} => ~FallbackApplies
  /\ p \in InSequence => Ordered(s)

\* Seeds behind others
LEMMA Joined ==
  ASSUME NEW n \in Nat, NEW s \in Seq(SeedsOn(n)), NEW u \in Seq(SeedsOn(n))
  PROVE  /\ s \o u \in Seq(SeedsOn(n))
         /\ Len(s \o u) = Len(s) + Len(u) /\ DOMAIN (s \o u) = 1 .. Len(s) + Len(u)
         /\ \A i \in 1 .. Len(s) + Len(u) :
              \/ i \in DOMAIN s /\ (s \o u)[i] = s[i]
              \/ i - Len(s) \in DOMAIN u /\ i \notin DOMAIN s /\ (s \o u)[i] = u[i - Len(s)]
         /\ \A i \in DOMAIN s : i \in DOMAIN (s \o u) /\ (s \o u)[i] = s[i]
         /\ \A i \in DOMAIN u : /\ Len(s) + i \in DOMAIN (s \o u)
                                /\ (s \o u)[Len(s) + i] = u[i]
         /\ ToSet(s \o u) = ToSet(s) \cup ToSet(u)
<1>. DEFINE L == Len(s)
            M == Len(u)
            t == s \o u
<1>1. /\ L \in Nat /\ M \in Nat /\ DOMAIN s = 1 .. L /\ DOMAIN u = 1 .. M
      /\ t \in Seq(SeedsOn(n)) /\ Len(t) = L + M /\ DOMAIN t = 1 .. L + M
      /\ \A i \in 1 .. L + M : t[i] = IF i <= L THEN s[i] ELSE u[i - L]
  OBVIOUS
<1>. HIDE DEF t, L, M
<1>2. ASSUME NEW i \in 1 .. L + M
      PROVE  \/ i \in DOMAIN s /\ t[i] = s[i]
             \/ i - L \in DOMAIN u /\ i \notin DOMAIN s /\ t[i] = u[i - L]
  <2>1. CASE i <= L
    <3>1. i \in 1 .. L
      BY <1>1, <2>1
    <3>2. QED
      BY <1>1, <2>1, <3>1
  <2>2. CASE ~(i <= L)
    <3>1. i - L \in 1 .. M /\ i \notin 1 .. L
      BY <1>1, <2>2
    <3>2. QED
      BY <1>1, <2>2, <3>1
  <2>3. QED
    BY <2>1, <2>2
<1>3. \A i \in DOMAIN s : i \in DOMAIN t /\ t[i] = s[i]
  <2>1. \A i \in 1 .. L : i \in 1 .. L + M /\ i <= L
    BY <1>1
  <2>2. QED
    BY <1>1, <2>1
<1>4. \A i \in DOMAIN u : L + i \in DOMAIN t /\ t[L + i] = u[i]
  <2>1. TAKE i \in DOMAIN u
  <2>2. PICK j \in 1 .. L + M : j = L + i /\ ~(j <= L) /\ j - L = i
    <3>1. i \in 1 .. M
      BY <1>1
    <3>2. L + i \in 1 .. L + M /\ ~(L + i <= L) /\ (L + i) - L = i
      BY <1>1, <3>1
    <3>3. QED
      BY <3>2
  <2>3. t[j] = u[j - L]
    BY <1>1, <2>2
  <2>4. t[L + i] = u[i]
    BY <2>2, <2>3
  <2>5. QED
    BY <1>1, <2>2, <2>4
<1>5. ToSet(t) = ToSet(s) \cup ToSet(u)
  <2>1. \A x : x \in ToSet(t) <=> \E i \in 1 .. L + M : x = t[i]
    BY <1>1 DEF ToSet
  <2>2. \A x : x \in ToSet(s) <=> \E i \in DOMAIN s : x = s[i]
    BY DEF ToSet
  <2>3. \A x : x \in ToSet(u) <=> \E i \in DOMAIN u : x = u[i]
    BY DEF ToSet
  <2>4. \A x : x \in ToSet(t) <=> x \in ToSet(s) \/ x \in ToSet(u)
    <3>1. TAKE x
    <3>2. x \in ToSet(t) => x \in ToSet(s) \/ x \in ToSet(u)
      BY <1>2, <2>1, <2>2, <2>3
    <3>3. x \in ToSet(s) => x \in ToSet(t)
      BY <1>1, <1>3, <2>1, <2>2
    <3>4. x \in ToSet(u) => x \in ToSet(t)
      BY <1>1, <1>4, <2>1, <2>3
    <3>5. QED
      BY <3>2, <3>3, <3>4
  <2>5. QED
    BY <2>4
<1>6. QED
  BY <1>1, <1>2, <1>3, <1>4, <1>5 DEF t, L, M

\* Sorting keeps what is said of the seeds.
LEMMA SortedKeeps ==
  ASSUME NEW n \in Nat, NEW s \in Seq(SeedsOn(n)), NEW T
  PROVE  /\ Unknown(s) => Unknown(Sorted(s))
         /\ Words(s, n) => Words(Sorted(s), n)
         /\ NoGold(s) => NoGold(Sorted(s))
         /\ FromMakers(s, T) => FromMakers(Sorted(s), T)
<1>1. PICK t \in Seq(SeedsOn(n)) : t = Sorted(s) /\ ToSet(t) = ToSet(s)
  BY SortedFacts DEF SortOf
<1>2. \A i \in DOMAIN t : \E j \in DOMAIN s : t[i] = s[j]
  <2>1. \A i \in DOMAIN t : t[i] \in ToSet(t)
    BY DEF ToSet
  <2>2. QED
    BY <1>1, <2>1 DEF ToSet
<1>3. ASSUME Unknown(s)
      PROVE  Unknown(t)
  <2>. DEFINE X == {x \in SeedsOn(n) : x.entry.kind = "unk"}
  <2>1. \A i, j \in DOMAIN s : s[i] \in X /\ s[i] = s[j] => i = j
    BY <1>3 DEF Unknown
  <2>2. \A i, j \in DOMAIN t : t[i] \in X /\ t[i] = t[j] => i = j
    <3>. HIDE DEF X
    <3>1. QED
      BY <1>1, <2>1, SortedOnce
  <2>3. \A i \in DOMAIN t : t[i] \in SeedsOn(n)
    OBVIOUS
  <2>4. \A i \in DOMAIN t : t[i].entry.kind = "unk" => Status(t[i].start, t[i].end) # "Ok"
    BY <1>2, <1>3 DEF Unknown
  <2>5. QED
    BY <2>2, <2>3, <2>4 DEF Unknown
<1>4. QED
  BY <1>1, <1>2, <1>3 DEF Words, NoGold, FromMakers

\* The seeds of a stage are new.
LEMMA StageKeeps ==
  ASSUME NEW n \in Nat, NEW s \in Seq(SeedsOn(n)), Unknown(s), Words(s, n), NoGold(s),
         NEW stage \in Seq(Makers),
         \A i \in DOMAIN s : s[i].entry.kind = "unk" => s[i].entry.id \notin ToSet(stage),
         NEW u, StageMakes(u, stage, n)
  PROVE  /\ s \o u \in Seq(SeedsOn(n))
         /\ Unknown(s \o u)
         /\ Words(s \o u, n)
         /\ NoGold(s \o u)
         /\ OnlyWords(s) => FromMakers(s \o u, ToSet(stage))
<1>1. /\ u \in Seq(SeedsOn(n))
      /\ \A i \in DOMAIN u : /\ \E m \in ToSet(stage) : u[i].entry = Unk(m)
                             /\ Status(u[i].start, u[i].end) # "Ok"
      /\ \A i, j \in DOMAIN u : u[i] = u[j] => i = j
  BY DEF StageMakes
<1>2. PICK t : t = s \o u
  OBVIOUS
<1>3. /\ t \in Seq(SeedsOn(n)) /\ DOMAIN t = 1 .. Len(s) + Len(u) /\ ToSet(t) = ToSet(s) \cup ToSet(u)
      /\ \A i \in DOMAIN t : \/ i \in DOMAIN s /\ t[i] = s[i]
                             \/ i - Len(s) \in DOMAIN u /\ i \notin DOMAIN s /\ t[i] = u[i - Len(s)]
  BY <1>1, <1>2, Joined
<1>4. \A i \in DOMAIN u : u[i].entry.kind = "unk" /\ u[i].entry.id \in ToSet(stage)
  <2>1. \A m : Unk(m).kind = "unk" /\ Unk(m).id = m
    BY DEF Unk
  <2>2. QED
    BY <1>1, <2>1
<1>5. ASSUME NEW i \in DOMAIN t, t[i].entry.kind = "unk"
      PROVE  /\ Status(t[i].start, t[i].end) # "Ok"
             /\ \A j \in DOMAIN t : t[j] = t[i] => j = i
  <2>1. Status(t[i].start, t[i].end) # "Ok"
    <3>1. CASE i \in DOMAIN s /\ t[i] = s[i]
      BY <1>5, <3>1 DEF Unknown
    <3>2. CASE i - Len(s) \in DOMAIN u /\ t[i] = u[i - Len(s)]
      BY <1>1, <3>2
    <3>3. QED
      BY <1>3, <3>1, <3>2
  <2>2. ASSUME NEW j \in DOMAIN t, t[j] = t[i]
        PROVE  j = i
    <3>1. CASE i \in DOMAIN s
      <4>1. j \in DOMAIN s
        BY <1>3, <1>4, <1>5, <2>2, <3>1
      <4>2. QED
        BY <1>3, <1>5, <2>2, <3>1, <4>1 DEF Unknown
    <3>2. CASE i \notin DOMAIN s
      <4>1. j \notin DOMAIN s
        BY <1>3, <1>4, <1>5, <2>2, <3>2
      <4>2. i - Len(s) = j - Len(s)
        BY <1>1, <1>3, <2>2, <3>2, <4>1
      <4>3. i \in Int /\ j \in Int /\ Len(s) \in Int
        BY <1>3
      <4>4. QED
        BY <4>2, <4>3
    <3>3. QED
      BY <3>1, <3>2
  <2>3. QED
    BY <2>1, <2>2
<1>6. Unknown(t)
  BY <1>5 DEF Unknown
<1>7. Words(t, n)
  BY <1>3 DEF Words
<1>8. NoGold(t)
  BY <1>3, <1>4 DEF NoGold
<1>9. OnlyWords(s) => FromMakers(t, ToSet(stage))
  BY <1>3, <1>4 DEF OnlyWords, FromMakers
<1>10. QED
  BY <1>2, <1>3, <1>6, <1>7, <1>8, <1>9

\* A seed for every character covers the sentence.
LEMMA CharactersCover ==
  ASSUME NEW n \in Nat, NEW S, \A b \in 0 .. n - 1 : \E x \in S : x.start = b /\ x.end = b + 1
  PROVE  Covered(S, n)
<1>1. SUFFICES ASSUME NEW C \in SUBSET (0 .. n), Closed(S, C) PROVE n \in C
  BY DEF Covered
<1>. DEFINE T == {b \in Nat : b <= n => b \in C}
<1>2. 0 \in T
  BY <1>1 DEF Closed
<1>3. ASSUME NEW b \in Nat, b \in T
      PROVE  b + 1 \in T
  <2>1. SUFFICES ASSUME b + 1 <= n PROVE b + 1 \in C
    OBVIOUS
  <2>2. b \in 0 .. n - 1 /\ b \in C
    BY <1>3, <2>1
  <2>3. QED
    BY <1>1, <2>2 DEF Closed
<1>. HIDE DEF T
<1>4. n \in T
  BY <1>2, <1>3, SetInduction
<1>5. QED
  BY <1>4 DEF T

\* The steps of prepareNodeSeeds, each from what holds before it
LEMMA DicStep ==
  ASSUME NEW n \in Nat, InputOK, input.n = n, NEW s, SeedsAt("dic", s, n)
  PROVE  SeedsAt("unk1", s \o DicSeeds, n)
<1>1. PICK u \in Seq(SeedsOn(n)) : u = DicSeeds /\ DicMakes(u, n)
  BY DictionaryMakes DEF DicMakes
<1>2. s \o DicSeeds = u
  BY <1>1 DEF SeedsAt
<1>3. OnlyWords(u) /\ Words(u, n)
  BY <1>1 DEF DicMakes, OnlyWords, Words
<1>4. Unknown(u) /\ NoGold(u)
  BY <1>3 DEF OnlyWords, Unknown, NoGold
<1>5. QED
  BY <1>2, <1>3, <1>4 DEF SeedsAt, Covering, Lacking, InSequence

\* The stages are sequences of makers; no maker is in both, and none twice in one.
LEMMA StageFacts ==
  /\ Stage1 \in Seq(Makers) /\ IsInjective(Stage1)
  /\ Stage2 \in Seq(Makers) /\ IsInjective(Stage2)
  /\ \A m \in ToSet(Stage1) : m \notin ToSet(Stage2)
<1>1. PICK a \in Seq(Makers), z \in Seq(Makers) : a = Stage1 /\ z = Stage2 /\ IsInjective(a \o z)
  BY AnalysisConstants
<1>2. /\ Len(a) \in Nat /\ Len(z) \in Nat /\ DOMAIN a = 1 .. Len(a) /\ DOMAIN z = 1 .. Len(z)
      /\ DOMAIN (a \o z) = 1 .. Len(a) + Len(z)
      /\ \A i \in 1 .. Len(a) + Len(z) : (a \o z)[i] = IF i <= Len(a) THEN a[i] ELSE z[i - Len(a)]
  OBVIOUS
<1>3. \A i \in DOMAIN a : i \in DOMAIN (a \o z) /\ (a \o z)[i] = a[i]
  BY <1>2
<1>4. \A i \in DOMAIN z : Len(a) + i \in DOMAIN (a \o z) /\ (a \o z)[Len(a) + i] = z[i]
  <2>1. \A i \in 1 .. Len(z) : /\ Len(a) + i \in 1 .. Len(a) + Len(z)
                               /\ ~(Len(a) + i <= Len(a)) /\ Len(a) + i - Len(a) = i
    BY <1>2
  <2>2. QED
    BY <1>2, <2>1
<1>5. IsInjective(a)
  BY <1>1, <1>3 DEF IsInjective
<1>6. IsInjective(z)
  <2>1. SUFFICES ASSUME NEW i \in DOMAIN z, NEW j \in DOMAIN z, z[i] = z[j] PROVE i = j
    BY DEF IsInjective
  <2>2. Len(a) + i = Len(a) + j
    BY <1>1, <1>4, <2>1 DEF IsInjective
  <2>3. QED
    BY <1>2, <2>2
<1>7. ASSUME NEW i \in DOMAIN a, NEW j \in DOMAIN z, a[i] = z[j]
      PROVE  FALSE
  <2>1. i = Len(a) + j
    BY <1>1, <1>3, <1>4, <1>7 DEF IsInjective
  <2>2. QED
    BY <1>2, <2>1
<1>8. \A m \in ToSet(a) : m \notin ToSet(z)
  BY <1>7 DEF ToSet
<1>9. QED
  BY <1>1, <1>5, <1>6, <1>8

\* The unknown words of stage 1 behind those of the dictionary
LEMMA Unk1Step ==
  ASSUME NEW n \in Nat, InputOK, input.n = n, NEW s, SeedsAt("unk1", s, n)
  PROVE  SeedsAt("check1", s \o StageSeeds(Stage1), n)
<1>1. PICK u : u = StageSeeds(Stage1) /\ StageMakes(u, Stage1, n)
  BY StageFacts, StagesMake
<1>2. s \in Seq(SeedsOn(n)) /\ Unknown(s) /\ Words(s, n) /\ NoGold(s) /\ OnlyWords(s)
  BY DEF SeedsAt, Searching
<1>3. \A i \in DOMAIN s : s[i].entry.kind = "unk" => s[i].entry.id \notin ToSet(Stage1)
  BY <1>2 DEF OnlyWords
<1>4. PICK t : /\ t = s \o u /\ t \in Seq(SeedsOn(n)) /\ Unknown(t) /\ Words(t, n) /\ NoGold(t)
               /\ FromMakers(t, ToSet(Stage1))
  BY <1>1, <1>2, <1>3, StageFacts, StageKeeps
<1>5. QED
  BY <1>1, <1>4 DEF SeedsAt, Covering, Lacking, InSequence

\* The unknown words of stage 2, which close the gaps of characters of their classes
LEMMA Unk2Step ==
  ASSUME NEW n \in Nat, InputOK, input.n = n, NEW s, SeedsAt("unk2", s, n)
  PROVE  SeedsAt("check2", s \o StageSeeds(Stage2), n)
<1>1. PICK u : u = StageSeeds(Stage2) /\ StageMakes(u, Stage2, n)
  BY StageFacts, StagesMake
<1>2. /\ s \in Seq(SeedsOn(n)) /\ Unknown(s) /\ Words(s, n) /\ NoGold(s)
      /\ FromMakers(s, ToSet(Stage1))
  BY DEF SeedsAt, Searching
<1>3. \A i \in DOMAIN s : s[i].entry.kind = "unk" => s[i].entry.id \notin ToSet(Stage2)
  BY <1>2, StageFacts DEF FromMakers
<1>4. PICK t : t = s \o u /\ t \in Seq(SeedsOn(n)) /\ Unknown(t) /\ Words(t, n) /\ NoGold(t)
  BY <1>1, <1>2, <1>3, StageFacts, StageKeeps
<1>5. ASSUME FallbackApplies
      PROVE  Covered(ToSet(t), n)
  <2>1. u \in Seq(SeedsOn(n))
    BY <1>1 DEF StageMakes
  <2>2. ToSet(t) = ToSet(s) \cup ToSet(u)
    BY <1>2, <1>4, <2>1, Joined
  <2>3. ASSUME NEW b \in 0 .. n - 1
        PROVE  \E x \in ToSet(t) : x.start = b /\ x.end = b + 1
    <3>1. CASE Status(b, b + 1) = "Ok"
      <4>1. b \in 0 .. n /\ b + 1 \in 0 .. n /\ b < b + 1
        OBVIOUS
      <4>2. 1 \in 1 .. Homographs
        BY AnalysisConstants
      <4>3. Seed(Dic(1), b, b + 1) \in ToSet(t)
        BY <1>4, <3>1, <4>1, <4>2 DEF Words
      <4>4. Seed(Dic(1), b, b + 1).start = b /\ Seed(Dic(1), b, b + 1).end = b + 1
        BY DEF Seed
      <4>5. QED
        BY <4>3, <4>4
    <3>2. CASE Status(b, b + 1) # "Ok"
      <4>1. PICK k \in DOMAIN Stage2 : b \in input.class[Stage2[k]]
        BY <1>5 DEF FallbackApplies
      <4>2. PICK i \in DOMAIN u : u[i].start = b /\ u[i].end = b + 1
        BY <1>1, <3>2, <4>1 DEF StageMakes
      <4>3. u[i] \in ToSet(t)
        BY <2>2 DEF ToSet
      <4>4. QED
        BY <4>2, <4>3
    <3>3. QED
      BY <3>1, <3>2
  <2>4. QED
    BY <2>3, CharactersCover
<1>6. QED
  BY <1>1, <1>4, <1>5 DEF SeedsAt, Covering, Lacking, InSequence

\* Sorting and the check, with or without success
LEMMA CheckStep ==
  ASSUME NEW n \in Nat, maxBoundaries = n + 1, NEW p, NEW s, SeedsAt(p, s, n), p # "dic"
  PROVE  /\ p = "check1" /\ Connected(Marked(Sorted(s))) => SeedsAt("prepare", Sorted(s), n)
         /\ p = "check1" /\ ~Connected(Marked(Sorted(s))) => SeedsAt("unk2", Sorted(s), n)
         /\ p = "check2" /\ Connected(Marked(Sorted(s))) => SeedsAt("prepare", Sorted(s), n)
         /\ p = "check2" /\ ~Connected(Marked(Sorted(s))) => SeedsAt("discontinuous", Sorted(s), n)
         /\ p = "discontinuous" => SeedsAt("discPrepared", Sorted(s), n)
         /\ p = "recheck" => Connected(Marked(Sorted(s))) /\ SeedsAt("reprepare", Sorted(s), n)
<1>1. s \in Seq(SeedsOn(n)) /\ Unknown(s) /\ Words(s, n)
  BY DEF SeedsAt
<1>2. PICK t \in Seq(SeedsOn(n)) : t = Sorted(s) /\ ToSet(t) = ToSet(s) /\ Ordered(t)
  BY <1>1, SortedFacts DEF SortOf
<1>3. Connected(Marked(t)) <=> Covered(ToSet(s), n)
  <2>1. maxBoundaries - 1 = n
    OBVIOUS
  <2>2. QED
    BY <1>2, <2>1, MarksCover DEF Connected
<1>4. Unknown(t) /\ Words(t, n) /\ (NoGold(s) => NoGold(t))
  BY <1>1, <1>2, SortedKeeps
<1>5. p = "check1" => FromMakers(t, ToSet(Stage1))
  <2>1. p = "check1" => FromMakers(s, ToSet(Stage1))
    BY DEF SeedsAt
  <2>2. QED
    BY <1>1, <1>2, <2>1, SortedKeeps
<1>6. p \in Searching => NoGold(t)
  BY <1>4 DEF SeedsAt
<1>7. /\ p \in Covering => Covered(ToSet(t), n)
      /\ p \in Lacking => ~Covered(ToSet(t), n)
      /\ p = "check2" /\ FallbackApplies => Covered(ToSet(t), n)
      /\ p = "discontinuous" => ~FallbackApplies
  BY <1>2 DEF SeedsAt
<1>8. CASE p = "check1"
  BY <1>2, <1>3, <1>4, <1>5, <1>6, <1>8 DEF SeedsAt, Covering, Lacking, InSequence, Searching
<1>9. CASE p = "check2"
  BY <1>2, <1>3, <1>4, <1>6, <1>7, <1>9 DEF SeedsAt, Covering, Lacking, InSequence, Searching
<1>10. CASE p = "discontinuous"
  BY <1>2, <1>3, <1>4, <1>6, <1>7, <1>10 DEF SeedsAt, Covering, Lacking, InSequence, Searching
<1>11. CASE p = "recheck"
  BY <1>2, <1>3, <1>4, <1>7, <1>11 DEF SeedsAt, Covering, Lacking, InSequence, Searching
<1>12. QED
  BY <1>8, <1>9, <1>10, <1>11

\* Where the seeds that end at a boundary are
EndPlaces(s, b) == {i \in DOMAIN s : s[i].end = b}

\* What the descriptions of the boundaries say of the seeds
InfoOf(info, s, n) ==
  \A b \in 0 .. n :
    /\ info[b].startCount = Cardinality(Places(s, b)) + (IF b = n THEN 1 ELSE 0)
    /\ info[b].endCount = Cardinality(EndPlaces(s, b)) + (IF b = 0 THEN 1 ELSE 0)
    /\ info[b].firstNodeOffset = Behind(s, b)

\* prepare counts and places the nodes of every boundary.
LEMMA BoundaryInfoTells ==
  ASSUME NEW n \in Nat, maxBoundaries = n + 1, NEW s \in Seq(SeedsOn(n)), Ordered(s)
  PROVE  InfoOf(BoundaryInfo(s), s, n)
<1>. DEFINE starts == [b \in 0 .. n |-> Cardinality(Places(s, b)) + (IF b = n THEN 1 ELSE 0)]
            ends == [b \in 0 .. n |-> Cardinality(EndPlaces(s, b)) + (IF b = 0 THEN 1 ELSE 0)]
            F(w) == [b \in 0 .. n |-> IF b = 0 THEN 0 ELSE w[b - 1] + starts[b - 1]]
            first == CHOOSE w : w = F(w)
<1>1. BoundaryInfo(s) = [b \in 0 .. n |-> [startCount |-> starts[b], endCount |-> ends[b],
                                          firstNodeOffset |-> first[b]]]
  <2>1. maxBoundaries - 1 = n
    OBVIOUS
  <2>2. QED
    BY <2>1 DEF BoundaryInfo, Count, Places, EndPlaces
<1>2. \A b \in 0 .. n - 1 : b \in Nat /\ starts[b] = Cardinality(Places(s, b))
  <2>1. TAKE b \in 0 .. n - 1
  <2>2. b \in 0 .. n /\ b # n /\ b \in Nat
    OBVIOUS
  <2>3. Cardinality(Places(s, b)) \in Nat
    BY SeedProperties
  <2>4. QED
    BY <2>2, <2>3
<1>3. /\ \A b \in 0 .. n : starts[b] = Cardinality(Places(s, b)) + (IF b = n THEN 1 ELSE 0)
      /\ \A b \in 0 .. n : ends[b] = Cardinality(EndPlaces(s, b)) + (IF b = 0 THEN 1 ELSE 0)
  OBVIOUS
<1>. HIDE DEF starts, ends
<1>4. \A b \in 1 .. n : Behind(s, b) = Behind(s, b - 1) + starts[b - 1]
  <2>1. TAKE b \in 1 .. n
  <2>2. PICK a \in Nat : a = b - 1 /\ a \in 0 .. n - 1 /\ a + 1 = b
    <3>1. b - 1 \in Nat /\ b - 1 \in 0 .. n - 1 /\ (b - 1) + 1 = b
      OBVIOUS
    <3>2. QED
      BY <3>1
  <2>3. Behind(s, a + 1) = Behind(s, a) + Cardinality(Places(s, a))
    BY OrderedBlocks
  <2>4. QED
    BY <1>2, <2>2, <2>3
<1>5. Behind(s, 0) = 0
  <2>1. {i \in DOMAIN s : s[i].start < 0} = {}
    BY SeedProperties
  <2>2. QED
    BY <2>1, FS_EmptySet DEF Behind
<1>. DEFINE known == [b \in 0 .. n |-> Behind(s, b)]
<1>6. known = F(known)
  <2>1. \A b \in 0 .. n : known[b] = IF b = 0 THEN 0 ELSE known[b - 1] + starts[b - 1]
    <3>1. TAKE b \in 0 .. n
    <3>2. CASE b = 0
      BY <1>5, <3>2
    <3>3. CASE b # 0
      <4>1. b \in 1 .. n /\ b - 1 \in 0 .. n
        BY <3>3
      <4>2. known[b] = Behind(s, b) /\ known[b - 1] = Behind(s, b - 1)
        BY <4>1
      <4>3. QED
        BY <1>4, <3>3, <4>1, <4>2
    <3>4. QED
      BY <3>2, <3>3
  <2>. HIDE DEF known
  <2>2. known = [b \in 0 .. n |-> known[b]]
    BY DEF known
  <2>3. QED
    BY <2>1, <2>2
<1>. HIDE DEF F
<1>7. first = F(first)
  BY <1>6
<1>. HIDE DEF first
<1>8. first[0] = 0 /\ \A b \in 1 .. n : first[b] = first[b - 1] + starts[b - 1]
  <2>1. \A b \in 0 .. n : first[b] = IF b = 0 THEN 0 ELSE first[b - 1] + starts[b - 1]
    BY <1>7 DEF F
  <2>2. 0 \in 0 .. n /\ \A b \in 1 .. n : b \in 0 .. n /\ b # 0
    OBVIOUS
  <2>3. QED
    BY <2>1, <2>2
<1>. DEFINE S == {b \in Nat : b <= n => first[b] = Behind(s, b)}
<1>9. 0 \in S
  BY <1>5, <1>8
<1>10. ASSUME NEW b \in Nat, b \in S
       PROVE  b + 1 \in S
  <2>1. SUFFICES ASSUME b + 1 <= n PROVE first[b + 1] = Behind(s, b + 1)
    OBVIOUS
  <2>2. b + 1 \in 1 .. n /\ (b + 1) - 1 = b /\ first[b] = Behind(s, b)
    BY <1>10, <2>1
  <2>3. QED
    BY <1>4, <1>8, <2>2
<1>. HIDE DEF S
<1>11. \A b \in Nat : b \in S
  BY <1>9, <1>10, SetInduction
<1>12. \A b \in 0 .. n : first[b] = Behind(s, b)
  BY <1>11 DEF S
<1>13. QED
  BY <1>1, <1>3, <1>12 DEF InfoOf

\* The seeds of a boundary, by their distance from the first of them
Block(u, s, b, n) ==
  /\ u \in Seq(SeedsOn(n))
  /\ \A k \in DOMAIN u : u[k].start = b
  /\ \A i \in Places(s, b) : i - Behind(s, b) \in DOMAIN u /\ u[i - Behind(s, b)] = s[i]

\* Among ordered seeds those of one start are a block.
LEMMA StartsFacts ==
  ASSUME NEW n \in Nat, NEW s \in Seq(SeedsOn(n)), Ordered(s), NEW b \in Nat
  PROVE  Block(StartingAt(s, b), s, b, n)
<1>1. PICK d : d.firstNodeOffset = Behind(s, b) /\ d.startCount = Cardinality(Places(s, b))
  <2>1. /\ [firstNodeOffset |-> Behind(s, b),
            startCount |-> Cardinality(Places(s, b))].firstNodeOffset = Behind(s, b)
        /\ [firstNodeOffset |-> Behind(s, b),
            startCount |-> Cardinality(Places(s, b))].startCount = Cardinality(Places(s, b))
    OBVIOUS
  <2>2. QED
    BY <2>1
<1>2. QED
  BY <1>1, SliceIsStart DEF Block

\* At a boundary before the last, its description leads to its seeds.
LEMMA InfoLeads ==
  ASSUME NEW n \in Nat, NEW s \in Seq(SeedsOn(n)), Ordered(s), NEW info, InfoOf(info, s, n),
         NEW b \in 0 .. n - 1
  PROVE  /\ Slice(s, info[b]) = StartingAt(s, b)
         /\ info[b].startCount = Len(StartingAt(s, b))
<1>1. b \in Nat /\ b \in 0 .. n /\ b # n
  OBVIOUS
<1>2. Cardinality(Places(s, b)) \in Nat
  BY SeedProperties
<1>3. info[b].startCount = Cardinality(Places(s, b)) /\ info[b].firstNodeOffset = Behind(s, b)
  BY <1>1, <1>2 DEF InfoOf
<1>4. PICK d : d = info[b]
  OBVIOUS
<1>5. Slice(s, d) = StartingAt(s, b) /\ Len(StartingAt(s, b)) = Cardinality(Places(s, b))
  BY <1>1, <1>3, <1>4, SliceIsStart
<1>6. QED
  BY <1>3, <1>4, <1>5

\* Seeds behind others become the last ones at their boundaries.
LEMMA AppendStarts ==
  ASSUME NEW n \in Nat, NEW s \in Seq(SeedsOn(n)), NEW g \in Seq(SeedsOn(n)),
         \A i, j \in DOMAIN g : g[i].start = g[j].start => i = j,
         NEW b
  PROVE  /\ \A k \in DOMAIN StartingAt(s, b) :
              /\ k \in DOMAIN StartingAt(s \o g, b)
              /\ StartingAt(s \o g, b)[k] = StartingAt(s, b)[k]
         /\ \A j \in DOMAIN g : g[j].start = b =>
              /\ Len(StartingAt(s, b)) + 1 \in DOMAIN StartingAt(s \o g, b)
              /\ StartingAt(s \o g, b)[Len(StartingAt(s, b)) + 1] = g[j]
<1>1. PICK t : t = s \o g
  OBVIOUS
<1>2.   /\ t \in Seq(SeedsOn(n)) /\ DOMAIN t = 1 .. Len(s) + Len(g)
        /\ \A i \in DOMAIN t : \/ i \in DOMAIN s /\ t[i] = s[i]
                               \/ i - Len(s) \in DOMAIN g /\ i \notin DOMAIN s /\ t[i] = g[i - Len(s)]
        /\ \A i \in DOMAIN s : i \in DOMAIN t /\ t[i] = s[i]
        /\ \A i \in DOMAIN g : Len(s) + i \in DOMAIN t /\ t[Len(s) + i] = g[i]
  BY <1>1, Joined
<1>3. /\ Len(s) \in Nat /\ Len(g) \in Nat /\ DOMAIN s = 1 .. Len(s) /\ DOMAIN g = 1 .. Len(g)
      /\ Places(s, b) \in SUBSET Nat /\ IsFiniteSet(Places(s, b))
      /\ Places(t, b) \in SUBSET Nat /\ IsFiniteSet(Places(t, b))
  BY <1>2, SeedProperties
<1>4. PICK m \in Nat : m = Cardinality(Places(s, b))
  BY <1>3, FS_CardinalityType
<1>5. PICK at : /\ m = Cardinality(Places(s, b)) /\ at = InOrder(Places(s, b))
                /\ Increasing(at, m, Places(s, b))
  BY <1>3, <1>4, InOrderIncreases
<1>6. /\ at \in [1 .. m -> Places(s, b)]
      /\ \A i \in Places(s, b) : \E k \in 1 .. m : at[k] = i
      /\ \A k, l \in 1 .. m : k < l => at[k] < at[l]
  BY <1>5 DEF Increasing
<1>7. \A k \in 1 .. m : at[k] \in DOMAIN s /\ at[k] \in 1 .. Len(s) /\ s[at[k]].start = b
  BY <1>3, <1>6 DEF Places
<1>8. StartingAt(s, b) = [k \in 1 .. m |-> s[at[k]]]
  BY <1>5, <1>6 DEF StartingAt, Where, Keep, Places
<1>9. \A i \in Places(s, b) : i \in Places(t, b)
  BY <1>2 DEF Places
<1>10. \A i \in Places(t, b) : i \in Places(s, b) \/ (i - Len(s) \in DOMAIN g /\ g[i - Len(s)].start = b)
  BY <1>2 DEF Places
<1>11. Len(StartingAt(s, b)) = m /\ DOMAIN StartingAt(s, b) = 1 .. m
  BY <1>8
<1>12. ASSUME \A j \in DOMAIN g : g[j].start # b
       PROVE  StartingAt(t, b) = StartingAt(s, b)
  <2>1. Places(t, b) = Places(s, b)
    BY <1>9, <1>10, <1>12
  <2>2. StartingAt(t, b) = [k \in 1 .. m |-> t[at[k]]]
    BY <1>5, <1>6, <2>1 DEF StartingAt, Where, Keep, Places
  <2>3. \A k \in 1 .. m : t[at[k]] = s[at[k]]
    BY <1>2, <1>7
  <2>4. QED
    BY <1>8, <2>2, <2>3
<1>13. ASSUME NEW j \in DOMAIN g, g[j].start = b
       PROVE  /\ \A k \in 1 .. m : k \in DOMAIN StartingAt(t, b) /\ StartingAt(t, b)[k] = s[at[k]]
              /\ m + 1 \in DOMAIN StartingAt(t, b) /\ StartingAt(t, b)[m + 1] = g[j]
  <2>. DEFINE new == [k \in 1 .. m + 1 |-> IF k = m + 1 THEN Len(s) + j ELSE at[k]]
  <2>1. \A k \in 1 .. m : k \in 1 .. m + 1 /\ k # m + 1
    BY <1>5
  <2>2. m + 1 \in 1 .. m + 1 /\ \A k \in 1 .. m + 1 : k = m + 1 \/ k \in 1 .. m
    BY <1>5
  <2>3. new[m + 1] = Len(s) + j /\ \A k \in 1 .. m : new[k] = at[k]
    BY <2>1, <2>2
  <2>4. DOMAIN new = 1 .. m + 1
    OBVIOUS
  <2>5. Len(s) + j \in Places(t, b) /\ t[Len(s) + j] = g[j]
    BY <1>2, <1>13 DEF Places
  <2>6. new = [k \in 1 .. m + 1 |-> new[k]]
    OBVIOUS
  <2>. HIDE DEF new
  <2>7. \A k \in 1 .. m + 1 : new[k] \in Places(t, b)
    BY <1>6, <1>9, <2>2, <2>3, <2>5
  <2>8. \A i \in Places(t, b) : \E k \in 1 .. m + 1 : new[k] = i
    <3>1. TAKE i \in Places(t, b)
    <3>2. CASE i \in Places(s, b)
      <4>1. PICK k \in 1 .. m : at[k] = i
        BY <1>6, <3>2
      <4>2. QED
        BY <2>1, <2>3, <4>1
    <3>3. CASE i \notin Places(s, b)
      <4>1. i - Len(s) = j
        BY <1>10, <1>13, <3>3
      <4>2. i \in Nat /\ j \in Nat
        BY <1>3
      <4>3. i = Len(s) + j
        BY <1>3, <4>1, <4>2
      <4>4. QED
        BY <2>2, <2>3, <4>3
    <3>4. QED
      BY <3>2, <3>3
  <2>9. \A k, l \in 1 .. m + 1 : k < l => new[k] < new[l]
    <3>1. SUFFICES ASSUME NEW k \in 1 .. m + 1, NEW l \in 1 .. m + 1, k < l PROVE new[k] < new[l]
      OBVIOUS
    <3>2. k \in 1 .. m
      BY <1>5, <3>1
    <3>3. CASE l = m + 1
      <4>1. new[l] = Len(s) + j /\ new[k] = at[k] /\ at[k] \in 1 .. Len(s) /\ j \in 1 .. Len(g)
        BY <1>3, <1>7, <2>3, <3>2, <3>3
      <4>2. QED
        BY <1>3, <4>1
    <3>4. CASE l # m + 1
      <4>1. l \in 1 .. m
        BY <2>2, <3>4
      <4>2. QED
        BY <1>6, <2>3, <3>1, <3>2, <4>1
    <3>5. QED
      BY <3>3, <3>4
  <2>10. Increasing(new, m + 1, Places(t, b))
    BY <2>4, <2>6, <2>7, <2>8, <2>9 DEF Increasing
  <2>11. Cardinality(Places(t, b)) = m + 1 /\ InOrder(Places(t, b)) = new
    BY <1>3, <2>10, IncreasingIsInOrder
  <2>12. StartingAt(t, b) = [k \in 1 .. m + 1 |-> t[new[k]]]
    BY <2>4, <2>11 DEF StartingAt, Where, Keep, Places
  <2>13. \A k \in 1 .. m : t[at[k]] = s[at[k]]
    BY <1>2, <1>7
  <2>14. DOMAIN StartingAt(t, b) = 1 .. m + 1 /\ \A k \in 1 .. m + 1 : StartingAt(t, b)[k] = t[new[k]]
    BY <2>12
  <2>15. \A k \in 1 .. m : StartingAt(t, b)[k] = s[at[k]]
    BY <2>1, <2>3, <2>13, <2>14
  <2>16. StartingAt(t, b)[m + 1] = g[j]
    BY <2>2, <2>3, <2>5, <2>14
  <2>17. QED
    BY <2>1, <2>2, <2>14, <2>15, <2>16
<1>14. \A k \in 1 .. m : StartingAt(s, b)[k] = s[at[k]]
  BY <1>8
<1>15. CASE \A j \in DOMAIN g : g[j].start # b
  BY <1>1, <1>12, <1>15
<1>16. ASSUME NEW j \in DOMAIN g, g[j].start = b
       PROVE  /\ \A k \in DOMAIN StartingAt(s, b) :
                   /\ k \in DOMAIN StartingAt(t, b)
                   /\ StartingAt(t, b)[k] = StartingAt(s, b)[k]
              /\ \A h \in DOMAIN g : g[h].start = b =>
                   /\ Len(StartingAt(s, b)) + 1 \in DOMAIN StartingAt(t, b)
                   /\ StartingAt(t, b)[Len(StartingAt(s, b)) + 1] = g[h]
  <2>1. \A h \in DOMAIN g : g[h].start = b => h = j
    BY <1>16
  <2>2. /\ \A k \in 1 .. m : k \in DOMAIN StartingAt(t, b) /\ StartingAt(t, b)[k] = s[at[k]]
        /\ m + 1 \in DOMAIN StartingAt(t, b) /\ StartingAt(t, b)[m + 1] = g[j]
    BY <1>13, <1>16
  <2>3. QED
    BY <1>11, <1>14, <2>1, <2>2
<1>17. QED
  BY <1>1, <1>15, <1>16

-------------------------------------------------------------------------------
(* The annotation                                                          *)

\* The words of an example lead from 0 to n, one where another ends.
Chained(e, m, n) ==
  /\ m \in 1 .. n /\ DOMAIN e = 1 .. m
  /\ \A i \in 1 .. m : /\ e[i].start \in 0 .. n - 1 /\ e[i].end \in 0 .. n
                       /\ e[i].start < e[i].end
                       /\ e[i].word \in WordChoices
  /\ \A i, j \in 1 .. m : e[i].start = e[j].start => i = j
  /\ e[1].start = 0 /\ e[m].end = n
  /\ \A i \in 2 .. m : e[i - 1].end = e[i].start

\* The words of an example follow each other from 0 to the end of the sentence.
LEMMA ExampleChained ==
  ASSUME NEW n \in Nat, NEW e \in Examples(n)
  PROVE  (\E m : Chained(e, m, n)) /\ e # <<>>
<1>1. PICK m \in 1 .. n :
        e \in {[k \in 1 .. m |-> [start |-> cuts[k - 1], end |-> cuts[k], word |-> words[k]]]
                 : cuts \in Cuts(m, n), words \in [1 .. m -> WordChoices]}
  BY DEF Examples
<1>2. PICK cuts \in Cuts(m, n), words \in [1 .. m -> WordChoices] :
        e = [k \in 1 .. m |-> [start |-> cuts[k - 1], end |-> cuts[k], word |-> words[k]]]
  BY <1>1
<1>3. /\ \A k \in 0 .. m : cuts[k] \in 0 .. n
      /\ cuts[0] = 0 /\ cuts[m] = n
      /\ \A k \in 1 .. m : cuts[k - 1] < cuts[k]
  BY DEF Cuts
<1>4. \A k \in 1 .. m : k \in 0 .. m /\ k - 1 \in 0 .. m
  OBVIOUS
<1>5. /\ DOMAIN e = 1 .. m
      /\ \A k \in 1 .. m : /\ e[k].start = cuts[k - 1] /\ e[k].end = cuts[k]
                           /\ e[k].word = words[k]
  BY <1>2
<1>6. ASSUME NEW k \in 0 .. m
      PROVE  \A l \in 0 .. m : k < l => cuts[k] < cuts[l]
  <2>. DEFINE S == {d \in Nat : k + d + 1 <= m => cuts[k] < cuts[k + d + 1]}
  <2>1. ASSUME NEW d \in Nat, k + d + 1 <= m
        PROVE  /\ k + d \in 0 .. m /\ k + d + 1 \in 1 .. m
               /\ cuts[k + d] < cuts[k + d + 1]
    <3>1. PICK q \in 1 .. m : q = k + d + 1 /\ q - 1 = k + d
      <4>1. k + d + 1 \in 1 .. m /\ (k + d + 1) - 1 = k + d
        BY <2>1
      <4>2. QED
        BY <4>1
    <3>2. QED
      BY <1>3, <1>4, <3>1
  <2>2. 0 \in S
    <3>1. k + 0 = k /\ k + 0 + 1 = k + 1
      OBVIOUS
    <3>2. QED
      BY <2>1, <3>1
  <2>3. ASSUME NEW d \in Nat, d \in S
        PROVE  d + 1 \in S
    <3>1. SUFFICES ASSUME k + (d + 1) + 1 <= m PROVE cuts[k] < cuts[k + (d + 1) + 1]
      OBVIOUS
    <3>2. cuts[k] < cuts[k + d + 1]
      BY <2>3, <3>1
    <3>3. cuts[k + (d + 1)] < cuts[k + (d + 1) + 1] /\ k + (d + 1) \in 0 .. m
      <4>1. PICK h \in Nat : h = d + 1
        OBVIOUS
      <4>2. k + h + 1 <= m
        BY <3>1, <4>1
      <4>3. cuts[k + h] < cuts[k + h + 1] /\ k + h \in 0 .. m
        BY <2>1, <4>2
      <4>4. QED
        BY <4>1, <4>3
    <3>4. k + (d + 1) = k + d + 1 /\ k + (d + 1) + 1 \in 0 .. m
      BY <3>1
    <3>5. PICK a \in 0 .. m, c \in 0 .. m, f \in 0 .. m :
            a = k /\ c = k + (d + 1) /\ c = k + d + 1 /\ f = k + (d + 1) + 1
      BY <3>3, <3>4
    <3>6. cuts[a] \in Int /\ cuts[c] \in Int /\ cuts[f] \in Int
      BY <1>3
    <3>7. cuts[a] < cuts[c] /\ cuts[c] < cuts[f]
      BY <3>2, <3>3, <3>5
    <3>8. cuts[a] < cuts[f]
      BY <3>6, <3>7
    <3>9. QED
      BY <3>5, <3>8
  <2>. HIDE DEF S
  <2>4. \A d \in Nat : d \in S
    BY <2>2, <2>3, SetInduction
  <2>5. ASSUME NEW l \in 0 .. m, k < l
        PROVE  cuts[k] < cuts[l]
    <3>1. PICK d \in Nat : d = l - k - 1 /\ k + d + 1 = l
      <4>1. l - k - 1 \in Nat /\ k + (l - k - 1) + 1 = l
        BY <2>5
      <4>2. QED
        BY <4>1
    <3>2. k + d + 1 <= m
      BY <3>1
    <3>3. cuts[k] < cuts[k + d + 1]
      BY <2>4, <3>2 DEF S
    <3>4. QED
      BY <3>1, <3>3
  <2>6. QED
    BY <2>5
<1>7. ASSUME NEW i \in 1 .. m, NEW j \in 1 .. m, e[i].start = e[j].start
      PROVE  i = j
  <2>1. cuts[i - 1] = cuts[j - 1] /\ i - 1 \in 0 .. m /\ j - 1 \in 0 .. m
    BY <1>4, <1>5, <1>7
  <2>2. PICK x \in Int : x = cuts[i - 1] /\ x = cuts[j - 1]
    BY <1>3, <2>1
  <2>3. ~(i - 1 < j - 1) /\ ~(j - 1 < i - 1)
    BY <1>6, <2>1, <2>2
  <2>4. QED
    BY <2>3
<1>8. ASSUME NEW i \in 1 .. m
      PROVE  /\ e[i].start \in 0 .. n - 1 /\ e[i].end \in 0 .. n
             /\ e[i].start < e[i].end /\ e[i].word \in WordChoices
  <2>1. PICK x \in 0 .. n, y \in 0 .. n : x = e[i].start /\ y = e[i].end /\ x < y
    BY <1>3, <1>4, <1>5
  <2>2. QED
    BY <1>5, <2>1
<1>9. ASSUME NEW i \in 2 .. m
      PROVE  e[i - 1].end = e[i].start
  <2>1. i \in 1 .. m /\ i - 1 \in 1 .. m
    OBVIOUS
  <2>2. QED
    BY <1>5, <2>1
<1>10. e[1].start = 0 /\ e[m].end = n
  <2>1. 1 \in 1 .. m /\ m \in 1 .. m /\ 1 - 1 = 0
    OBVIOUS
  <2>2. QED
    BY <1>3, <1>5, <2>1
<1>11. Chained(e, m, n)
  BY <1>5, <1>7, <1>8, <1>9, <1>10 DEF Chained
<1>12. e # <<>>
  <2>1. 1 \in DOMAIN e
    BY <1>5
  <2>2. QED
    BY <2>1
<1>13. QED
  BY <1>11, <1>12

\* Seeds for all the words of an example cover the sentence.
LEMMA ExampleCovers ==
  ASSUME NEW n \in Nat, NEW e \in Examples(n), NEW S,
         \A i \in DOMAIN e : \E x \in S : x.start = e[i].start /\ x.end = e[i].end
  PROVE  Covered(S, n)
<1>1. PICK m : Chained(e, m, n)
  BY ExampleChained
<1>2. SUFFICES ASSUME NEW C \in SUBSET (0 .. n), Closed(S, C) PROVE n \in C
  BY DEF Covered
<1>3. /\ m \in 1 .. n /\ DOMAIN e = 1 .. m /\ e[1].start = 0 /\ e[m].end = n
      /\ \A i \in 2 .. m : e[i - 1].end = e[i].start
  BY <1>1 DEF Chained
<1>4. \A i \in 1 .. m : e[i].start \in C => e[i].end \in C
  <2>1. TAKE i \in 1 .. m
  <2>2. PICK x \in S : x.start = e[i].start /\ x.end = e[i].end
    BY <1>3
  <2>3. QED
    BY <1>2, <2>2 DEF Closed
<1>. DEFINE T == {k \in Nat : k + 1 <= m => e[k + 1].end \in C}
<1>5. 0 \in T
  <2>1. 1 \in 1 .. m /\ 0 + 1 = 1 /\ e[1].start \in C
    BY <1>2, <1>3 DEF Closed
  <2>2. QED
    BY <1>4, <2>1
<1>6. ASSUME NEW k \in Nat, k \in T
      PROVE  k + 1 \in T
  <2>1. SUFFICES ASSUME (k + 1) + 1 <= m PROVE e[(k + 1) + 1].end \in C
    OBVIOUS
  <2>2. PICK i \in 2 .. m : i = (k + 1) + 1 /\ i - 1 = k + 1 /\ i \in 1 .. m
    <3>1. (k + 1) + 1 \in 2 .. m /\ ((k + 1) + 1) - 1 = k + 1 /\ (k + 1) + 1 \in 1 .. m
      BY <1>3, <2>1
    <3>2. QED
      BY <3>1
  <2>3. e[k + 1].end \in C
    BY <1>3, <1>6, <2>1
  <2>4. e[i].start \in C
    BY <1>3, <2>2, <2>3
  <2>5. QED
    BY <1>4, <2>2, <2>4
<1>. HIDE DEF T
<1>7. m - 1 \in Nat /\ (m - 1) + 1 = m
  BY <1>3
<1>8. m - 1 \in T
  BY <1>5, <1>6, <1>7, SetInduction
<1>9. QED
  BY <1>3, <1>7, <1>8 DEF T

\* The entries that agree with a word
Agree(w) == w.word.regular \cup w.word.allowed

\* What a search for the node of a word found
Search(f, w, s) ==
  /\ f = -1 => \A x \in ToSet(s) : x.start = w.start /\ x.end = w.end => x.entry \notin Agree(w)
  /\ f # -1 => \E k \in DOMAIN StartingAt(s, w.start) :
                 /\ k - 1 = f
                 /\ StartingAt(s, w.start)[k].end = w.end
                 /\ StartingAt(s, w.start)[k].entry \in Agree(w)

\* What nodeSeedExists returns
LEMMA NodeSearched ==
  ASSUME NEW n \in Nat, NEW s \in Seq(SeedsOn(n)), s = seeds, Ordered(s),
         NEW info, info = boundaries, InfoOf(info, s, n), NEW w, w.start \in 0 .. n - 1
  PROVE  Search(NodeSeedExists(w), w, s)
<1>1. PICK b \in 0 .. n - 1 : b = w.start /\ b \in Nat
  OBVIOUS
<1>2. PICK u : u = StartingAt(s, b)
  OBVIOUS
<1>3. Slice(seeds, boundaries[w.start]) = u
  BY <1>1, <1>2, InfoLeads
<1>4. /\ u \in Seq(SeedsOn(n))
      /\ \A i \in DOMAIN s : s[i].start = b => \E k \in DOMAIN u : u[k] = s[i]
  <2>1. /\ u \in Seq(SeedsOn(n))
        /\ \A i \in Places(s, b) : i - Behind(s, b) \in DOMAIN u /\ u[i - Behind(s, b)] = s[i]
    <3>1. Block(StartingAt(s, b), s, b, n)
      BY <1>1, StartsFacts
    <3>2. QED
      BY <1>2, <3>1 DEF Block
  <2>2. QED
    BY <2>1 DEF Places
<1>5. DOMAIN u \in SUBSET Nat /\ \A k \in DOMAIN u : k \in Nat /\ k >= 1
  BY <1>4
<1>6. ASSUME NEW entries
      PROVE  /\ Matching(w, entries) = {} =>
                  \A x \in ToSet(s) : x.start = w.start /\ x.end = w.end => x.entry \notin entries
             /\ Matching(w, entries) # {} =>
                  \E k \in DOMAIN u : /\ k - 1 = First(Matching(w, entries))
                                      /\ u[k].end = w.end /\ u[k].entry \in entries
  <2>1. Matching(w, entries) = {i \in DOMAIN u : u[i].entry \in entries /\ u[i].end = w.end}
    BY <1>3 DEF Matching
  <2>2. ASSUME Matching(w, entries) = {}, NEW x \in ToSet(s), x.start = w.start, x.end = w.end
        PROVE  x.entry \notin entries
    <3>1. PICK i \in DOMAIN s : x = s[i]
      BY DEF ToSet
    <3>2. PICK k \in DOMAIN u : u[k] = s[i]
      BY <1>1, <1>4, <2>2, <3>1
    <3>3. QED
      BY <2>1, <2>2, <3>1, <3>2
  <2>3. ASSUME Matching(w, entries) # {}
        PROVE  \E k \in DOMAIN u : /\ k - 1 = First(Matching(w, entries))
                                   /\ u[k].end = w.end /\ u[k].entry \in entries
    <3>1. PICK M \in SUBSET Nat : M = Matching(w, entries) /\ M # {}
      BY <1>5, <2>1, <2>3
    <3>2. PICK k : k = CHOOSE i \in M : \A j \in M : i <= j
      OBVIOUS
    <3>3. k \in M
      BY <3>1, <3>2, LeastElement
    <3>4. k - 1 = First(M)
      BY <3>2 DEF First
    <3>5. k \in DOMAIN u /\ u[k].end = w.end /\ u[k].entry \in entries
      BY <2>1, <3>1, <3>3
    <3>6. QED
      BY <3>1, <3>4, <3>5
  <2>4. QED
    BY <2>2, <2>3
<1>7. PICK reg, all : reg = w.word.regular /\ all = w.word.allowed
  OBVIOUS
<1>8. Agree(w) = reg \cup all
  BY <1>7 DEF Agree
<1>9. NodeSeedExists(w) = IF Matching(w, reg) # {} THEN First(Matching(w, reg))
                          ELSE IF Matching(w, all) # {} THEN First(Matching(w, all)) ELSE -1
  BY <1>7 DEF NodeSeedExists
<1>10. \A k \in DOMAIN u : k - 1 # -1
  BY <1>5
<1>11. CASE Matching(w, reg) # {}
  <2>1. PICK k \in DOMAIN u : k - 1 = NodeSeedExists(w) /\ u[k].end = w.end /\ u[k].entry \in reg
    BY <1>6, <1>9, <1>11
  <2>2. NodeSeedExists(w) # -1
    BY <1>10, <2>1
  <2>3. QED
    BY <1>1, <1>2, <1>8, <2>1, <2>2 DEF Search
<1>12. CASE Matching(w, reg) = {} /\ Matching(w, all) # {}
  <2>1. PICK k \in DOMAIN u : k - 1 = NodeSeedExists(w) /\ u[k].end = w.end /\ u[k].entry \in all
    BY <1>6, <1>9, <1>12
  <2>2. NodeSeedExists(w) # -1
    BY <1>10, <2>1
  <2>3. QED
    BY <1>1, <1>2, <1>8, <2>1, <2>2 DEF Search
<1>13. CASE Matching(w, reg) = {} /\ Matching(w, all) = {}
  <2>1. NodeSeedExists(w) = -1
    BY <1>9, <1>13
  <2>2. \A x \in ToSet(s) : x.start = w.start /\ x.end = w.end => x.entry \notin reg /\ x.entry \notin all
    BY <1>6, <1>13
  <2>3. QED
    BY <1>8, <2>1, <2>2 DEF Search
<1>14. QED
  BY <1>11, <1>12, <1>13

\* The path of the annotation, through the seeds at the boundaries
GoldAt(path, t, e) ==
  /\ DOMAIN path = DOMAIN e
  /\ \A i \in DOMAIN e : \E k \in DOMAIN StartingAt(t, e[i].start) :
       /\ path[i] = Ptr(e[i].start + 2, k - 1)
       /\ StartingAt(t, e[i].start)[k].end = e[i].end
       /\ StartingAt(t, e[i].start)[k].entry \in Agree(e[i]) \cup {Gold(i)}
  /\ \A x \in ToSet(t) : x.entry.kind = "gold" =>
       \A y \in ToSet(t) : y.start = x.start /\ y.end = x.end => y.entry \notin Agree(e[x.entry.id])

\* What ensureNodes computes from what it found
Ensuring(e, s, info, found, missing, g, path) ==
  /\ DOMAIN found = DOMAIN e
  /\ \A i \in DOMAIN e : Search(found[i], e[i], s)
  /\ missing = InOrder({i \in DOMAIN e : found[i] = -1})
  /\ g = [k \in DOMAIN missing |-> Seed(Gold(missing[k]), e[missing[k]].start, e[missing[k]].end)]
  /\ path = [i \in DOMAIN e |-> Ptr(e[i].start + 2, IF found[i] = -1 THEN info[e[i].start].startCount
                                                    ELSE found[i])]

\* What ensureNodes leaves: an example that the seeds cover, and a path to a node for every word
LEMMA EnsureAdds ==
  ASSUME NEW n \in Nat, NEW e \in Examples(n),
         NEW s \in Seq(SeedsOn(n)), Ordered(s), NoGold(s), Unknown(s),
         NEW info, InfoOf(info, s, n),
         NEW found, NEW missing, NEW g, NEW path, Ensuring(e, s, info, found, missing, g, path)
  PROVE  /\ g \in Seq(SeedsOn(n)) /\ s \o g \in Seq(SeedsOn(n))
         /\ missing = <<>> => s \o g = s
         /\ Unknown(s \o g)
         /\ GoldAt(path, s \o g, e)
         /\ Covered(ToSet(s \o g), n)
<1>1. PICK m : Chained(e, m, n)
  BY ExampleChained
<1>2. /\ m \in Nat /\ DOMAIN e = 1 .. m
      /\ \A i \in 1 .. m : /\ e[i].start \in 0 .. n - 1 /\ e[i].end \in 0 .. n
                           /\ e[i].start < e[i].end /\ e[i].word \in WordChoices
      /\ \A i, j \in 1 .. m : e[i].start = e[j].start => i = j
  BY <1>1 DEF Chained
<1>3. PICK I \in SUBSET (1 .. m) : I = {i \in DOMAIN e : found[i] = -1}
  BY <1>2
<1>4. I \in SUBSET Nat /\ IsFiniteSet(I)
  <2>1. m \in Int /\ 1 \in Int
    BY <1>2
  <2>2. IsFiniteSet(1 .. m)
    BY <2>1, FS_Interval
  <2>3. IsFiniteSet(I)
    BY <2>2, FS_Subset
  <2>4. QED
    BY <2>3
<1>5. PICK M \in Nat : M = Cardinality(I) /\ Increasing(missing, M, I)
  <2>1. missing = InOrder(I)
    BY <1>3 DEF Ensuring
  <2>2. Increasing(missing, Cardinality(I), I)
    BY <1>4, <2>1, InOrderIncreases
  <2>3. Cardinality(I) \in Nat
    BY <1>4, FS_CardinalityType
  <2>4. QED
    BY <2>2, <2>3
<1>6. /\ missing \in [1 .. M -> I] /\ DOMAIN missing = 1 .. M
      /\ \A i \in I : \E k \in 1 .. M : missing[k] = i
      /\ \A k, l \in 1 .. M : k < l => missing[k] < missing[l]
  BY <1>5 DEF Increasing
<1>7. /\ DOMAIN g = 1 .. M
      /\ \A k \in 1 .. M : g[k] = Seed(Gold(missing[k]), e[missing[k]].start, e[missing[k]].end)
      /\ g = [k \in 1 .. M |-> g[k]]
  BY <1>6 DEF Ensuring
<1>8. \A k \in 1 .. M : missing[k] \in I /\ missing[k] \in 1 .. m /\ missing[k] \in Nat
  BY <1>3, <1>4, <1>6
<1>9. ASSUME NEW k \in 1 .. M
      PROVE  /\ g[k] \in SeedsOn(n)
             /\ g[k].entry = Gold(missing[k]) /\ g[k].entry.kind = "gold" /\ g[k].entry.id = missing[k]
             /\ g[k].start = e[missing[k]].start /\ g[k].end = e[missing[k]].end
  <2>1. PICK i \in 1 .. m : i = missing[k] /\ g[k] = Seed(Gold(i), e[i].start, e[i].end)
    BY <1>7, <1>8
  <2>2. Gold(i) \in Entries /\ Gold(i).kind = "gold" /\ Gold(i).id = i
    BY DEF Gold, Entries
  <2>3. e[i].start \in 0 .. n /\ e[i].end \in 0 .. n /\ e[i].start < e[i].end
    BY <1>2
  <2>4. Seed(Gold(i), e[i].start, e[i].end) \in SeedsOn(n)
    BY <2>2, <2>3 DEF Seed, SeedsOn
  <2>5. QED
    BY <2>1, <2>2, <2>4 DEF Seed
<1>10. g \in Seq(SeedsOn(n))
  <2>1. g \in [1 .. M -> SeedsOn(n)]
    BY <1>7, <1>9
  <2>2. QED
    BY <2>1
<1>11. PICK t : t = s \o g
  OBVIOUS
<1>12. /\ t \in Seq(SeedsOn(n)) /\ DOMAIN t = 1 .. Len(s) + Len(g)
       /\ ToSet(t) = ToSet(s) \cup ToSet(g)
       /\ \A i \in DOMAIN t : \/ i \in DOMAIN s /\ t[i] = s[i]
                              \/ i - Len(s) \in DOMAIN g /\ i \notin DOMAIN s /\ t[i] = g[i - Len(s)]
  BY <1>10, <1>11, Joined
<1>13. ASSUME missing = <<>>
       PROVE  t = s
  <2>1. g = <<>>
    BY <1>13 DEF Ensuring
  <2>2. QED
    BY <1>11, <2>1
<1>14. Unknown(t)
  <2>1. ASSUME NEW i \in DOMAIN t, t[i].entry.kind = "unk"
        PROVE  i \in DOMAIN s /\ t[i] = s[i]
    BY <1>7, <1>9, <1>12, <2>1
  <2>2. ASSUME NEW i \in DOMAIN t, t[i].entry.kind = "unk", NEW j \in DOMAIN t, t[j] = t[i]
        PROVE  j = i
    <3>1. i \in DOMAIN s /\ t[i] = s[i] /\ j \in DOMAIN s /\ t[j] = s[j]
      BY <2>1, <2>2
    <3>2. QED
      BY <2>2, <3>1 DEF Unknown
  <2>3. QED
    BY <2>1, <2>2 DEF Unknown
<1>15. \A i, j \in DOMAIN g : g[i].start = g[j].start => i = j
  <2>1. SUFFICES ASSUME NEW i \in 1 .. M, NEW j \in 1 .. M, g[i].start = g[j].start PROVE i = j
    BY <1>7
  <2>2. missing[i] = missing[j]
    <3>1. missing[i] \in 1 .. m /\ missing[j] \in 1 .. m
      BY <1>8
    <3>2. e[missing[i]].start = e[missing[j]].start
      BY <1>9, <2>1
    <3>3. QED
      BY <1>2, <3>1, <3>2
  <2>3. ~(i < j) /\ ~(j < i)
    BY <1>6, <1>8, <2>2
  <2>4. QED
    BY <2>3
<1>16. \A i \in DOMAIN e : found[i] = -1 => \E k \in DOMAIN g : g[k].start = e[i].start /\ missing[k] = i
  <2>1. SUFFICES ASSUME NEW i \in DOMAIN e, found[i] = -1
                 PROVE  \E k \in DOMAIN g : g[k].start = e[i].start /\ missing[k] = i
    OBVIOUS
  <2>2. PICK k \in 1 .. M : missing[k] = i
    BY <1>3, <1>6, <2>1
  <2>3. QED
    BY <1>7, <1>9, <2>2
<1>17. ASSUME NEW i \in DOMAIN e
       PROVE  \E k \in DOMAIN StartingAt(t, e[i].start) :
                /\ path[i] = Ptr(e[i].start + 2, k - 1)
                /\ StartingAt(t, e[i].start)[k].end = e[i].end
                /\ StartingAt(t, e[i].start)[k].entry \in Agree(e[i]) \cup {Gold(i)}
  <2>1. PICK b \in 0 .. n - 1 : b = e[i].start
    BY <1>2
  <2>2. PICK u, v : u = StartingAt(s, b) /\ v = StartingAt(t, b)
    OBVIOUS
  <2>3. path[i] = Ptr(b + 2, IF found[i] = -1 THEN info[b].startCount ELSE found[i])
    BY <2>1 DEF Ensuring
  <2>4. /\ \A k \in DOMAIN u : k \in DOMAIN v /\ v[k] = u[k]
        /\ \A j \in DOMAIN g : g[j].start = b => Len(u) + 1 \in DOMAIN v /\ v[Len(u) + 1] = g[j]
    <3>1. /\ \A k \in DOMAIN StartingAt(s, b) :
               /\ k \in DOMAIN StartingAt(s \o g, b)
               /\ StartingAt(s \o g, b)[k] = StartingAt(s, b)[k]
          /\ \A j \in DOMAIN g : g[j].start = b =>
               /\ Len(StartingAt(s, b)) + 1 \in DOMAIN StartingAt(s \o g, b)
               /\ StartingAt(s \o g, b)[Len(StartingAt(s, b)) + 1] = g[j]
      BY <1>10, <1>15, AppendStarts
    <3>2. v = StartingAt(s \o g, b)
      BY <1>11, <2>2
    <3>3. QED
      BY <2>2, <3>1, <3>2
  <2>5. info[b].startCount = Len(u)
    BY <2>2, InfoLeads
  <2>6. CASE found[i] = -1
    <3>1. PICK j \in DOMAIN g : g[j].start = b /\ missing[j] = i
      BY <1>16, <2>1, <2>6
    <3>2. Len(u) + 1 \in DOMAIN v /\ v[Len(u) + 1] = g[j]
      BY <2>4, <3>1
    <3>3. g[j].end = e[i].end /\ g[j].entry = Gold(i)
      BY <1>7, <1>9, <3>1
    <3>4. Len(u) \in Nat
      <4>1. Cardinality(Places(s, b)) \in Nat
        BY SeedProperties
      <4>2. PICK d : d = info[b]
        OBVIOUS
      <4>3. b \in 0 .. n /\ b # n
        BY <2>1
      <4>4. info[b].startCount = Cardinality(Places(s, b)) + 0
        BY <4>1, <4>3 DEF InfoOf
      <4>5. QED
        BY <2>5, <4>1, <4>4
    <3>5. PICK k \in DOMAIN v : k = Len(u) + 1 /\ k - 1 = Len(u)
      <4>1. (Len(u) + 1) - 1 = Len(u)
        BY <3>4
      <4>2. QED
        BY <3>2, <4>1
    <3>6. path[i] = Ptr(b + 2, k - 1)
      BY <2>3, <2>5, <2>6, <3>5
    <3>7. QED
      BY <2>1, <2>2, <3>2, <3>3, <3>5, <3>6
  <2>7. CASE found[i] # -1
    <3>1. Search(found[i], e[i], s)
      BY DEF Ensuring
    <3>2. PICK k \in DOMAIN u : k - 1 = found[i] /\ u[k].end = e[i].end /\ u[k].entry \in Agree(e[i])
      BY <2>1, <2>2, <2>7, <3>1 DEF Search
    <3>3. k \in DOMAIN v /\ v[k] = u[k]
      BY <2>4
    <3>4. path[i] = Ptr(b + 2, k - 1)
      BY <2>3, <2>7, <3>2
    <3>5. QED
      BY <2>1, <2>2, <3>2, <3>3, <3>4
  <2>8. QED
    BY <2>6, <2>7
<1>18. ASSUME NEW x \in ToSet(t), x.entry.kind = "gold", NEW y \in ToSet(t),
              y.start = x.start, y.end = x.end
       PROVE  y.entry \notin Agree(e[x.entry.id])
  <2>1. x \notin ToSet(s)
    BY <1>18 DEF NoGold, ToSet
  <2>2. PICK k \in DOMAIN g : x = g[k]
    BY <1>12, <2>1 DEF ToSet
  <2>3. PICK i \in 1 .. m : /\ i = missing[k] /\ i \in I /\ x.entry.id = i
                            /\ x.start = e[i].start /\ x.end = e[i].end
    BY <1>7, <1>8, <1>9, <2>2
  <2>4. found[i] = -1 /\ Search(found[i], e[i], s)
    BY <1>2, <1>3, <2>3 DEF Ensuring
  <2>5. CASE y \in ToSet(s)
    BY <1>18, <2>3, <2>4, <2>5 DEF Search
  <2>6. CASE y \in ToSet(g)
    <3>1. PICK l \in DOMAIN g : y = g[l]
      BY <2>6 DEF ToSet
    <3>2. y.entry.kind = "gold"
      BY <1>7, <1>9, <3>1
    <3>3. PICK w : w = e[i].word /\ w \in WordChoices
      BY <1>2
    <3>4. \A a \in w.regular \cup w.allowed : a.kind \in {"dic", "unk"}
      BY <3>3, TrainerConstants
    <3>5. Agree(e[i]) = w.regular \cup w.allowed
      BY <3>3 DEF Agree
    <3>6. QED
      BY <2>3, <3>2, <3>4, <3>5
  <2>7. QED
    BY <1>12, <2>5, <2>6
<1>19. GoldAt(path, t, e)
  <2>1. DOMAIN path = DOMAIN e
    BY DEF Ensuring
  <2>2. QED
    BY <1>17, <1>18, <2>1 DEF GoldAt
<1>20. Covered(ToSet(t), n)
  <2>1. ASSUME NEW i \in DOMAIN e
        PROVE  \E x \in ToSet(t) : x.start = e[i].start /\ x.end = e[i].end
    <3>1. PICK k \in DOMAIN StartingAt(t, e[i].start) : StartingAt(t, e[i].start)[k].end = e[i].end
      BY <1>17
    <3>2. PICK b \in Nat : b = e[i].start
      BY <1>2
    <3>3. PICK at : /\ Increasing(at, Cardinality(Places(t, b)), Places(t, b))
                    /\ StartingAt(t, b) = [j \in 1 .. Cardinality(Places(t, b)) |-> t[at[j]]]
      <4>1. Places(t, b) \in SUBSET DOMAIN t
        BY DEF Places
      <4>2. StartingAt(t, b) = Keep(t, Places(t, b))
        BY DEF StartingAt, Where, Places
      <4>3. PICK J : J = Places(t, b)
        OBVIOUS
      <4>4. \E at : /\ Increasing(at, Cardinality(J), J)
                    /\ Keep(t, J) = [j \in 1 .. Cardinality(J) |-> t[at[j]]]
        BY <1>12, <4>1, <4>3, KeepFacts
      <4>5. QED
        BY <4>2, <4>3, <4>4
    <3>4. k \in 1 .. Cardinality(Places(t, b))
      BY <3>1, <3>2, <3>3
    <3>5. at[k] \in Places(t, b)
      BY <3>3, <3>4 DEF Increasing
    <3>6. t[at[k]].start = b /\ t[at[k]] \in ToSet(t) /\ t[at[k]].end = e[i].end
      BY <3>1, <3>2, <3>3, <3>4, <3>5 DEF Places, ToSet
    <3>7. QED
      BY <3>2, <3>6
  <2>2. QED
    BY <2>1, ExampleCovers
<1>21. QED
  BY <1>10, <1>11, <1>12, <1>13, <1>14, <1>19, <1>20

\* Sorting keeps the path.
LEMMA SortedGold ==
  ASSUME NEW n \in Nat, NEW s \in Seq(SeedsOn(n)), NEW path, NEW e, GoldAt(path, s, e)
  PROVE  GoldAt(path, Sorted(s), e)
<1>1. PICK t : t = Sorted(s) /\ ToSet(t) = ToSet(s) /\ \A b : StartingAt(t, b) = StartingAt(s, b)
  BY SortedFacts DEF SortOf
<1>2. QED
  BY <1>1 DEF GoldAt

-------------------------------------------------------------------------------
(* The lattice                                                             *)

Ptrs == [boundary : Int, position : Int]

\* What a boundary of the lattice may be
Bnds(n) == [endNodes : Nat, ends : Seq(Ptrs), starts : Seq(SeedsOn(n) \cup {Bos, Eos(n)})]

\* The boundary the code makes, by its number in the lattice from 1
Row(s, n, b) == LatticeBoundary(Cardinality(EndPlaces(s, b)) + (IF b = 0 THEN 1 ELSE 0),
                                IF b = n THEN <<Eos(n)>> ELSE StartingAt(s, b))
RowAt(s, n, i) == IF i <= 2 THEN LatticeBoundary(i - 1, <<Bos>>) ELSE Row(s, n, i - 3)

\* The lattice while it is built: k boundaries of the sentence are there.
Rows(k, s, n) == [i \in 1 .. k + 2 |-> RowAt(s, n, i)]

\* Finitely many seeds end at a boundary, and none at the first.
LEMMA EndPlacesFacts ==
  ASSUME NEW n \in Nat, NEW s \in Seq(SeedsOn(n))
  PROVE  /\ \A b : IsFiniteSet(EndPlaces(s, b)) /\ Cardinality(EndPlaces(s, b)) \in Nat
         /\ EndPlaces(s, 0) = {} /\ Cardinality(EndPlaces(s, 0)) = 0
<1>1. \A b : EndPlaces(s, b) \in SUBSET DOMAIN s
  BY DEF EndPlaces
<1>2. \A b : IsFiniteSet(EndPlaces(s, b)) /\ Cardinality(EndPlaces(s, b)) \in Nat
  BY <1>1, SeedProperties, FS_Subset, FS_CardinalityType
<1>3. EndPlaces(s, 0) = {}
  BY SeedProperties DEF EndPlaces
<1>4. QED
  BY <1>2, <1>3, FS_EmptySet

\* A boundary of the lattice before the ends are entered
LEMMA RowTypes ==
  ASSUME NEW n \in Nat, NEW s \in Seq(SeedsOn(n)), NEW i \in Nat \ {0}
  PROVE  RowAt(s, n, i) \in Bnds(n) /\ RowAt(s, n, i).ends = <<>>
<1>. DEFINE X == SeedsOn(n) \cup {Bos, Eos(n)}
<1>1. <<Bos>> \in Seq(X) /\ <<Eos(n)>> \in Seq(X) /\ <<>> \in Seq(Ptrs)
  OBVIOUS
<1>2. \A b : StartingAt(s, b) \in Seq(X)
  <2>1. TAKE b
  <2>2. PICK J \in SUBSET DOMAIN s : J = Places(s, b)
    BY DEF Places
  <2>3. StartingAt(s, b) = Keep(s, J)
    BY <2>2 DEF StartingAt, Where, Places
  <2>4. s \in Seq(X)
    OBVIOUS
  <2>. HIDE DEF X
  <2>5. QED
    BY <2>2, <2>3, <2>4, KeepFacts
<1>. HIDE DEF X
<1>3. \A e \in Nat, u \in Seq(X) : LatticeBoundary(e, u) \in Bnds(n) /\ LatticeBoundary(e, u).ends = <<>>
  BY <1>1 DEF LatticeBoundary, Bnds, X
<1>4. CASE i <= 2
  <2>1. i - 1 \in Nat
    OBVIOUS
  <2>2. QED
    BY <1>1, <1>3, <1>4, <2>1 DEF RowAt
<1>5. CASE ~(i <= 2)
  <2>. DEFINE b == i - 3
  <2>1. Cardinality(EndPlaces(s, b)) + (IF b = 0 THEN 1 ELSE 0) \in Nat
    BY EndPlacesFacts
  <2>2. (IF b = n THEN <<Eos(n)>> ELSE StartingAt(s, b)) \in Seq(X)
    BY <1>1, <1>2
  <2>3. RowAt(s, n, i) = Row(s, n, b)
    BY <1>5 DEF RowAt
  <2>. HIDE DEF b
  <2>4. QED
    BY <1>3, <2>1, <2>2, <2>3 DEF Row
<1>6. QED
  BY <1>4, <1>5

\* The next boundary
LEMMA RowsGrow ==
  ASSUME NEW n \in Nat, NEW s \in Seq(SeedsOn(n)), NEW k \in Nat
  PROVE  /\ Rows(k, s, n) \in Seq(Bnds(n)) /\ Len(Rows(k, s, n)) = k + 2
         /\ Append(Rows(k, s, n), Row(s, n, k)) = Rows(k + 1, s, n)
         /\ <<>> \o <<LatticeBoundary(0, <<Bos>>), LatticeBoundary(1, <<Bos>>)>> = Rows(0, s, n)
<1>1. \A i \in Nat \ {0} : RowAt(s, n, i) \in Bnds(n)
  BY RowTypes
<1>2. \A j \in Nat : Rows(j, s, n) \in [1 .. j + 2 -> Bnds(n)]
  <2>1. \A j \in Nat : \A i \in 1 .. j + 2 : i \in Nat \ {0}
    OBVIOUS
  <2>2. QED
    BY <1>1, <2>1 DEF Rows
<1>3. PICK r \in Seq(Bnds(n)) : r = Rows(k, s, n) /\ Len(r) = k + 2
  <2>1. k + 2 \in Nat
    OBVIOUS
  <2>2. PICK r : r = Rows(k, s, n)
    OBVIOUS
  <2>3. r \in [1 .. k + 2 -> Bnds(n)]
    BY <1>2, <2>2
  <2>4. r \in Seq(Bnds(n)) /\ Len(r) = k + 2
    BY <2>1, <2>3
  <2>5. QED
    BY <2>2, <2>4
<1>4. \A i \in 1 .. k + 2 : r[i] = RowAt(s, n, i)
  BY <1>3 DEF Rows
<1>5. PICK x \in Bnds(n) : x = Row(s, n, k) /\ x = RowAt(s, n, k + 3)
  <2>1. ~(k + 3 <= 2) /\ (k + 3) - 3 = k /\ k + 3 \in Nat \ {0}
    OBVIOUS
  <2>2. QED
    BY <1>1, <2>1 DEF RowAt
<1>6. PICK a : a = Append(r, x)
  OBVIOUS
<1>7. a \in Seq(Bnds(n)) /\ Len(a) = k + 3 /\ \A i \in 1 .. k + 3 : a[i] = IF i = k + 3 THEN x ELSE r[i]
  BY <1>3, <1>6
<1>8. \A i \in 1 .. k + 3 : a[i] = RowAt(s, n, i)
  <2>1. \A i \in 1 .. k + 3 : i = k + 3 \/ i \in 1 .. k + 2
    OBVIOUS
  <2>2. QED
    BY <1>4, <1>5, <1>7, <2>1
<1>9. a = [i \in 1 .. k + 3 |-> RowAt(s, n, i)]
  <2>1. a = [i \in 1 .. k + 3 |-> a[i]]
    BY <1>7
  <2>2. QED
    BY <1>8, <2>1
<1>10. a = Rows(k + 1, s, n)
  <2>1. (k + 1) + 2 = k + 3
    OBVIOUS
  <2>2. QED
    BY <1>9, <2>1 DEF Rows
<1>11. <<>> \o <<LatticeBoundary(0, <<Bos>>), LatticeBoundary(1, <<Bos>>)>> = Rows(0, s, n)
  <2>1. PICK c, d : c = LatticeBoundary(0, <<Bos>>) /\ d = LatticeBoundary(1, <<Bos>>)
    OBVIOUS
  <2>2. <<>> \o <<c, d>> = <<c, d>>
    OBVIOUS
  <2>3. RowAt(s, n, 1) = c /\ RowAt(s, n, 2) = d
    BY <2>1 DEF RowAt
  <2>4. Rows(0, s, n) = [i \in 1 .. 2 |-> RowAt(s, n, i)]
    BY DEF Rows
  <2>5. <<c, d>> = [i \in 1 .. 2 |-> IF i = 1 THEN c ELSE d]
    OBVIOUS
  <2>6. \A i \in 1 .. 2 : RowAt(s, n, i) = IF i = 1 THEN c ELSE d
    BY <2>3
  <2>7. QED
    BY <2>1, <2>2, <2>4, <2>5, <2>6
<1>12. QED
  BY <1>3, <1>5, <1>6, <1>10, <1>11

\* One more node at the boundary it ends at
OneEnd(M, L, m, h, p) ==
  \A i \in 1 .. m : /\ M[i].starts = L[i].starts /\ M[i].endNodes = L[i].endNodes
                    /\ M[i].ends = IF i = h THEN Append(L[i].ends, p) ELSE L[i].ends

\* Entering one node changes the list of one boundary only.
LEMMA AddOneEnd ==
  ASSUME NEW n \in Nat, NEW m \in Nat, NEW L \in [1 .. m -> Bnds(n)],
         NEW idx \in 0 .. m - 1, NEW p \in Ptrs
  PROVE  AddEnd(L, idx, p) \in [1 .. m -> Bnds(n)] /\ OneEnd(AddEnd(L, idx, p), L, m, idx + 1, p)
<1>1. PICK h \in 1 .. m : h = idx + 1
  OBVIOUS
<1>2. PICK x \in Bnds(n) : x = L[h]
  OBVIOUS
<1>3. Append(x.ends, p) \in Seq(Ptrs)
  BY DEF Bnds
<1>4. PICK y : y = [x EXCEPT !.ends = Append(x.ends, p)]
  OBVIOUS
<1>5. y \in Bnds(n) /\ y.starts = x.starts /\ y.endNodes = x.endNodes /\ y.ends = Append(x.ends, p)
  BY <1>3, <1>4 DEF Bnds
<1>6. AddEnd(L, idx, p) = [L EXCEPT ![h] = y]
  BY <1>1, <1>2, <1>4 DEF AddEnd
<1>7. PICK M : M = [L EXCEPT ![h] = y]
  OBVIOUS
<1>8. M \in [1 .. m -> Bnds(n)] /\ \A i \in 1 .. m : M[i] = IF i = h THEN y ELSE L[i]
  BY <1>5, <1>7
<1>9. \A i \in 1 .. m : /\ M[i].starts = L[i].starts /\ M[i].endNodes = L[i].endNodes
                        /\ M[i].ends = IF i = h THEN Append(L[i].ends, p) ELSE L[i].ends
  BY <1>2, <1>5, <1>8
<1>10. OneEnd(M, L, m, h, p)
  BY <1>9 DEF OneEnd
<1>11. QED
  BY <1>1, <1>6, <1>7, <1>8, <1>10

\* Where a seed is among the nodes
PtrOf(s, i) == Ptr(s[i].start + 2, (i - 1) - Behind(s, s[i].start))

\* The nodes of the first k seeds that end at b, in their order
EndList(es, b, k, s) ==
  /\ es \in Seq(Ptrs)
  /\ \E at : /\ Increasing(at, Len(es), {i \in 1 .. k : s[i].end = b})
             /\ \A q \in 1 .. Len(es) : es[q] = PtrOf(s, at[q])

\* The next seed is entered at its boundary, and changes no other list.
LEMMA EndListGrows ==
  ASSUME NEW n \in Nat, NEW s \in Seq(SeedsOn(n)), NEW k \in Nat, k + 1 \in DOMAIN s,
         NEW b, NEW es, EndList(es, b, k, s), PtrOf(s, k + 1) \in Ptrs
  PROVE  /\ s[k + 1].end = b => EndList(Append(es, PtrOf(s, k + 1)), b, k + 1, s)
         /\ s[k + 1].end # b => EndList(es, b, k + 1, s)
<1>. DEFINE T(j) == {i \in 1 .. j : s[i].end = b}
<1>1. PICK m \in Nat : m = Len(es) /\ es \in Seq(Ptrs)
  BY DEF EndList
<1>2. PICK at : /\ m = Len(es) /\ es \in Seq(Ptrs)
                /\ Increasing(at, m, T(k))
                /\ \A q \in 1 .. m : es[q] = PtrOf(s, at[q])
  <2>1. PICK at : /\ Increasing(at, Len(es), T(k))
                  /\ \A q \in 1 .. Len(es) : es[q] = PtrOf(s, at[q])
    BY DEF EndList
  <2>. HIDE DEF T
  <2>2. QED
    BY <1>1, <2>1
<1>3. /\ at \in [1 .. m -> T(k)]
      /\ \A i \in T(k) : \E q \in 1 .. m : at[q] = i
      /\ \A q, r \in 1 .. m : q < r => at[q] < at[r]
  BY <1>2 DEF Increasing
<1>4. \A i : i \in T(k + 1) <=> i \in T(k) \/ (i = k + 1 /\ s[k + 1].end = b)
  <2>1. \A i : i \in 1 .. k + 1 <=> i \in 1 .. k \/ i = k + 1
    OBVIOUS
  <2>2. QED
    BY <2>1
<1>5. \A i \in T(k) : i \in Nat /\ i < k + 1
  OBVIOUS
<1>. HIDE DEF T
<1>6. ASSUME s[k + 1].end # b
      PROVE  EndList(es, b, k + 1, s)
  <2>1. T(k + 1) = T(k)
    BY <1>4, <1>6
  <2>2. QED
    BY <1>2, <2>1 DEF EndList, T
<1>7. ASSUME s[k + 1].end = b
      PROVE  EndList(Append(es, PtrOf(s, k + 1)), b, k + 1, s)
  <2>1. PICK p \in Ptrs : p = PtrOf(s, k + 1)
    OBVIOUS
  <2>2. PICK fs : fs = Append(es, p)
    OBVIOUS
  <2>3. fs \in Seq(Ptrs) /\ Len(fs) = m + 1 /\ \A q \in 1 .. m + 1 : fs[q] = IF q = m + 1 THEN p ELSE es[q]
    BY <1>2, <2>2
  <2>. DEFINE new == [q \in 1 .. m + 1 |-> IF q = m + 1 THEN k + 1 ELSE at[q]]
  <2>4. \A q \in 1 .. m : q \in 1 .. m + 1 /\ q # m + 1
    OBVIOUS
  <2>5. m + 1 \in 1 .. m + 1 /\ \A q \in 1 .. m + 1 : q = m + 1 \/ q \in 1 .. m
    OBVIOUS
  <2>6. new[m + 1] = k + 1 /\ \A q \in 1 .. m : new[q] = at[q]
    BY <2>4, <2>5
  <2>7. new = [q \in 1 .. m + 1 |-> new[q]]
    OBVIOUS
  <2>. HIDE DEF new
  <2>8. \A q \in 1 .. m + 1 : new[q] \in T(k + 1)
    BY <1>3, <1>4, <1>7, <2>5, <2>6
  <2>9. \A i \in T(k + 1) : \E q \in 1 .. m + 1 : new[q] = i
    <3>1. TAKE i \in T(k + 1)
    <3>2. CASE i \in T(k)
      <4>1. PICK q \in 1 .. m : at[q] = i
        BY <1>3, <3>2
      <4>2. QED
        BY <2>4, <2>6, <4>1
    <3>3. CASE i = k + 1
      BY <2>5, <2>6, <3>3
    <3>4. QED
      BY <1>4, <3>2, <3>3
  <2>10. \A q, r \in 1 .. m + 1 : q < r => new[q] < new[r]
    <3>1. SUFFICES ASSUME NEW q \in 1 .. m + 1, NEW r \in 1 .. m + 1, q < r PROVE new[q] < new[r]
      OBVIOUS
    <3>2. q \in 1 .. m
      BY <3>1
    <3>3. CASE r = m + 1
      <4>1. new[r] = k + 1 /\ new[q] = at[q] /\ at[q] \in T(k)
        BY <1>3, <2>6, <3>2, <3>3
      <4>2. QED
        BY <1>5, <4>1
    <3>4. CASE r # m + 1
      BY <1>3, <2>5, <2>6, <3>1, <3>2, <3>4
    <3>5. QED
      BY <3>3, <3>4
  <2>11. Increasing(new, m + 1, T(k + 1))
    <3>1. new \in [1 .. m + 1 -> T(k + 1)]
      BY <2>7, <2>8
    <3>2. QED
      BY <2>9, <2>10, <3>1 DEF Increasing
  <2>12. \A q \in 1 .. m + 1 : fs[q] = PtrOf(s, new[q])
    BY <1>2, <2>1, <2>3, <2>5, <2>6
  <2>13. EndList(fs, b, k + 1, s)
    BY <2>3, <2>11, <2>12 DEF EndList, T
  <2>14. QED
    BY <2>1, <2>2, <2>13
<1>8. QED
  BY <1>6, <1>7

\* The lattice after the ends of the first k seeds were entered
FilledTo(L, k, s, n) ==
  /\ L \in [1 .. n + 3 -> Bnds(n)]
  /\ \A i \in 1 .. n + 3 : /\ L[i].starts = RowAt(s, n, i).starts
                           /\ L[i].endNodes = RowAt(s, n, i).endNodes
  /\ L[2].ends = <<Ptr(0, 0)>> /\ L[3].ends = <<Ptr(1, 0)>>
  /\ \A b \in 1 .. n : EndList(L[b + 3].ends, b, k, s)

\* The nodes of BOS are entered first.
LEMMA FillStart ==
  ASSUME NEW n \in Nat, NEW s \in Seq(SeedsOn(n)), NEW R, R = Rows(n + 1, s, n)
  PROVE  FilledTo(AddEnd(AddEnd(R, 1, Ptr(0, 0)), 2, Ptr(1, 0)), 0, s, n)
<1>1. PICK p, q : p = Ptr(0, 0) /\ q = Ptr(1, 0) /\ p \in Ptrs /\ q \in Ptrs
  <2>1. Ptr(0, 0) \in Ptrs /\ Ptr(1, 0) \in Ptrs
    BY DEF Ptr, Ptrs
  <2>2. QED
    BY <2>1
<1>2. /\ R \in [1 .. n + 3 -> Bnds(n)]
      /\ \A i \in 1 .. n + 3 : R[i] = RowAt(s, n, i) /\ R[i].ends = <<>>
  <2>1. \A i \in 1 .. n + 3 : i \in Nat \ {0}
    OBVIOUS
  <2>2. (n + 1) + 2 = n + 3
    OBVIOUS
  <2>3. R = [i \in 1 .. n + 3 |-> RowAt(s, n, i)]
    BY <2>2 DEF Rows
  <2>4. \A i \in 1 .. n + 3 : RowAt(s, n, i) \in Bnds(n) /\ RowAt(s, n, i).ends = <<>>
    BY <2>1, RowTypes
  <2>5. QED
    BY <2>3, <2>4
<1>3. n + 3 \in Nat /\ 1 \in 0 .. (n + 3) - 1 /\ 2 \in 0 .. (n + 3) - 1
  OBVIOUS
<1>4. PICK m \in Nat : m = n + 3 /\ 1 \in 0 .. m - 1 /\ 2 \in 0 .. m - 1
  BY <1>3
<1>5. PICK A : A = AddEnd(R, 1, p)
  OBVIOUS
<1>6. A \in [1 .. m -> Bnds(n)] /\ OneEnd(A, R, m, 2, p)
  <2>1. PICK x \in 0 .. m - 1 : x = 1 /\ x + 1 = 2
    BY <1>4
  <2>2. R \in [1 .. m -> Bnds(n)]
    BY <1>2, <1>4
  <2>3. AddEnd(R, x, p) \in [1 .. m -> Bnds(n)] /\ OneEnd(AddEnd(R, x, p), R, m, x + 1, p)
    BY <1>1, <2>2, AddOneEnd
  <2>4. QED
    BY <1>5, <2>1, <2>3
<1>7. PICK B : B = AddEnd(A, 2, q)
  OBVIOUS
<1>8. B \in [1 .. m -> Bnds(n)] /\ OneEnd(B, A, m, 3, q)
  <2>1. PICK x \in 0 .. m - 1 : x = 2 /\ x + 1 = 3
    BY <1>4
  <2>2. AddEnd(A, x, q) \in [1 .. m -> Bnds(n)] /\ OneEnd(AddEnd(A, x, q), A, m, x + 1, q)
    BY <1>1, <1>6, AddOneEnd
  <2>3. QED
    BY <1>7, <2>1, <2>2
<1>9. ASSUME NEW i \in 1 .. m
      PROVE  /\ B[i].starts = RowAt(s, n, i).starts /\ B[i].endNodes = RowAt(s, n, i).endNodes
             /\ i = 2 => B[i].ends = <<p>>
             /\ i = 3 => B[i].ends = <<q>>
             /\ i # 2 /\ i # 3 => B[i].ends = <<>>
  <2>1. /\ A[i].starts = R[i].starts /\ A[i].endNodes = R[i].endNodes
        /\ A[i].ends = IF i = 2 THEN Append(R[i].ends, p) ELSE R[i].ends
    BY <1>6 DEF OneEnd
  <2>2. /\ B[i].starts = A[i].starts /\ B[i].endNodes = A[i].endNodes
        /\ B[i].ends = IF i = 3 THEN Append(A[i].ends, q) ELSE A[i].ends
    BY <1>8 DEF OneEnd
  <2>3. R[i] = RowAt(s, n, i) /\ R[i].ends = <<>>
    BY <1>2, <1>4
  <2>4. B[i].starts = RowAt(s, n, i).starts /\ B[i].endNodes = RowAt(s, n, i).endNodes
    BY <2>1, <2>2, <2>3
  <2>5. Append(<<>>, p) = <<p>> /\ Append(<<>>, q) = <<q>>
    OBVIOUS
  <2>6. CASE i = 2
    <3>1. A[i].ends = <<p>>
      BY <2>1, <2>3, <2>5, <2>6
    <3>2. QED
      BY <2>2, <2>4, <2>6, <3>1
  <2>7. CASE i = 3
    <3>1. A[i].ends = <<>>
      BY <2>1, <2>3, <2>7
    <3>2. QED
      BY <2>2, <2>4, <2>5, <2>7, <3>1
  <2>8. CASE i # 2 /\ i # 3
    BY <2>1, <2>2, <2>3, <2>4, <2>8
  <2>9. QED
    BY <2>6, <2>7, <2>8
<1>10. ASSUME NEW b \in 1 .. n
       PROVE  EndList(B[b + 3].ends, b, 0, s)
  <2>1. PICK j \in 1 .. m : j = b + 3 /\ j # 2 /\ j # 3
    BY <1>4
  <2>2. B[b + 3].ends = <<>>
    BY <1>9, <2>1
  <2>3. {i \in 1 .. 0 : s[i].end = b} = {}
    OBVIOUS
  <2>4. Increasing(<<>>, 0, {}) /\ Len(<<>>) = 0 /\ <<>> \in Seq(Ptrs)
    BY DEF Increasing
  <2>5. EndList(<<>>, b, 0, s)
    BY <2>3, <2>4 DEF EndList
  <2>6. QED
    BY <2>2, <2>5
<1>11. B[2].ends = <<p>> /\ B[3].ends = <<q>>
  <2>1. 2 \in 1 .. m /\ 3 \in 1 .. m
    BY <1>4
  <2>2. QED
    BY <1>9, <2>1
<1>12. FilledTo(B, 0, s, n)
  <2>1. /\ \A i \in 1 .. n + 3 : /\ B[i].starts = RowAt(s, n, i).starts
                                 /\ B[i].endNodes = RowAt(s, n, i).endNodes
    BY <1>4, <1>9
  <2>2. B[2].ends = <<Ptr(0, 0)>> /\ B[3].ends = <<Ptr(1, 0)>>
    BY <1>1, <1>11
  <2>3. B \in [1 .. n + 3 -> Bnds(n)]
    BY <1>4, <1>8
  <2>4. QED
    BY <1>10, <2>1, <2>2, <2>3 DEF FilledTo
<1>13. QED
  BY <1>1, <1>5, <1>7, <1>12

\* A seed becomes a node at a number of its boundary.
LEMMA PtrTypes ==
  ASSUME NEW n \in Nat, NEW s \in Seq(SeedsOn(n)), Ordered(s), NEW i \in DOMAIN s
  PROVE  PtrOf(s, i) \in Ptrs
<1>1. PICK b \in Nat : b = s[i].start /\ i \in Int
  BY SeedProperties
<1>2. Behind(s, b) \in Nat
  BY OrderedBlocks
<1>3. QED
  BY <1>1, <1>2 DEF PtrOf, Ptr, Ptrs

\* The next seed is entered.
LEMMA FillStep ==
  ASSUME NEW n \in Nat, NEW s \in Seq(SeedsOn(n)), Ordered(s), NEW k \in Nat, k + 1 \in DOMAIN s,
         NEW L, FilledTo(L, k, s, n)
  PROVE  FilledTo(AddEnd(L, s[k + 1].end + 2, PtrOf(s, k + 1)), k + 1, s, n)
<1>1. PICK e \in 1 .. n : e = s[k + 1].end
  <2>1. PICK x \in SeedsOn(n) : x = s[k + 1]
    BY SeedProperties
  <2>2. x.start \in 0 .. n /\ x.end \in 0 .. n /\ x.start < x.end
    BY DEF SeedsOn
  <2>3. x.end \in 1 .. n
    BY <2>2
  <2>4. QED
    BY <2>1, <2>3
<1>2. PICK p \in Ptrs : p = PtrOf(s, k + 1)
  BY PtrTypes
<1>3. PICK m \in Nat : m = n + 3 /\ e + 2 \in 0 .. m - 1
  <2>1. n + 3 \in Nat /\ e + 2 \in 0 .. (n + 3) - 1
    OBVIOUS
  <2>2. QED
    BY <2>1
<1>4. PICK idx \in 0 .. m - 1 : idx = e + 2 /\ idx + 1 = e + 3
  BY <1>3
<1>5. L \in [1 .. m -> Bnds(n)]
  BY <1>3 DEF FilledTo
<1>6. PICK M : M = AddEnd(L, idx, p)
  OBVIOUS
<1>7. /\ M \in [1 .. m -> Bnds(n)]
      /\ \A i \in 1 .. m : /\ M[i].starts = L[i].starts /\ M[i].endNodes = L[i].endNodes
                           /\ M[i].ends = IF i = idx + 1 THEN Append(L[i].ends, p) ELSE L[i].ends
  BY <1>5, <1>6, AddOneEnd DEF OneEnd
<1>8. M[2].ends = L[2].ends /\ M[3].ends = L[3].ends
  <2>1. 2 \in 1 .. m /\ 3 \in 1 .. m /\ idx + 1 # 2 /\ idx + 1 # 3
    BY <1>3, <1>4
  <2>2. QED
    BY <1>7, <2>1
<1>9. ASSUME NEW b \in 1 .. n
      PROVE  EndList(M[b + 3].ends, b, k + 1, s)
  <2>1. PICK i \in 1 .. m : i = b + 3 /\ (i = idx + 1 <=> b = e)
    <3>1. b + 3 \in 1 .. m /\ (b + 3 = idx + 1 <=> b = e)
      BY <1>3, <1>4
    <3>2. QED
      BY <3>1
  <2>2. PICK es : es = L[i].ends /\ EndList(es, b, k, s)
    BY <2>1 DEF FilledTo
  <2>3. /\ s[k + 1].end = b => EndList(Append(es, PtrOf(s, k + 1)), b, k + 1, s)
        /\ s[k + 1].end # b => EndList(es, b, k + 1, s)
    BY <1>2, <2>2, EndListGrows
  <2>4. QED
    BY <1>1, <1>2, <1>7, <2>1, <2>2, <2>3
<1>10. \A i \in 1 .. n + 3 : /\ M[i].starts = RowAt(s, n, i).starts
                             /\ M[i].endNodes = RowAt(s, n, i).endNodes
  BY <1>3, <1>7 DEF FilledTo
<1>11. FilledTo(M, k + 1, s, n)
  BY <1>3, <1>7, <1>8, <1>9, <1>10 DEF FilledTo
<1>12. QED
  BY <1>1, <1>2, <1>4, <1>6, <1>11

\* fillEnds enters every seed.
LEMMA FillEndsFills ==
  ASSUME NEW n \in Nat, NEW s \in Seq(SeedsOn(n)), s = seeds, Ordered(s),
         NEW info, info = boundaries, InfoOf(info, s, n),
         lattice = Rows(n + 1, s, n), FillEnds
  PROVE  FilledTo(lattice', Len(s), s, n)
<1>. DEFINE Q == [1 .. n + 3 -> Bnds(n)]
            base == AddEnd(AddEnd(lattice, 1, Ptr(0, 0)), 2, Ptr(1, 0))
            F(w) == [i \in 0 .. Len(s) |->
                       IF i = 0 THEN base
                       ELSE IF s[i].start = s[i].end THEN w[i - 1]
                       ELSE AddEnd(w[i - 1], s[i].end + 2, SeedPtr(i))]
            filled == CHOOSE w : w = F(w)
<1>1. lattice' = filled[Len(s)]
  BY DEF FillEnds
<1>2. /\ Len(s) \in Nat /\ DOMAIN s = 1 .. Len(s)
      /\ \A i \in 1 .. Len(s) : /\ s[i].start \in 0 .. n /\ s[i].end \in 0 .. n
                                /\ s[i].start < s[i].end /\ s[i].start # s[i].end
  <2>1. \A i \in DOMAIN s : s[i].start \in 0 .. n /\ s[i].end \in 0 .. n /\ s[i].start < s[i].end
    BY SeedProperties
  <2>2. \A i \in DOMAIN s : s[i].start # s[i].end
    <3>1. \A a, z \in 0 .. n : a < z => a # z
      OBVIOUS
    <3>2. QED
      BY <2>1, <3>1
  <2>3. QED
    BY <2>1, <2>2, SeedProperties
<1>3. \A i \in 1 .. Len(s) : SeedPtr(i) = PtrOf(s, i)
  BY <1>2 DEF SeedPtr, PtrOf, InfoOf
<1>4. PICK r : r = base
  OBVIOUS
<1>5. FilledTo(r, 0, s, n)
  <2>1. PICK R : R = lattice /\ R = Rows(n + 1, s, n)
    OBVIOUS
  <2>2. r = AddEnd(AddEnd(R, 1, Ptr(0, 0)), 2, Ptr(1, 0))
    BY <1>4, <2>1
  <2>3. QED
    BY <2>1, <2>2, FillStart
<1>. DEFINE step == [x \in Q \X (1 .. Len(s)) |-> AddEnd(x[1], s[x[2]].end + 2, PtrOf(s, x[2]))]
<1>6. ASSUME NEW L \in Q, NEW k \in 1 .. Len(s)
      PROVE  AddEnd(L, s[k].end + 2, PtrOf(s, k)) \in Q
  <2>1. PICK m \in Nat : m = n + 3
    OBVIOUS
  <2>2. PICK idx \in 0 .. m - 1 : idx = s[k].end + 2
    BY <1>2, <2>1
  <2>3. PICK p \in Ptrs : p = PtrOf(s, k)
    BY <1>2, PtrTypes
  <2>4. L \in [1 .. m -> Bnds(n)]
    BY <2>1
  <2>5. AddEnd(L, idx, p) \in [1 .. m -> Bnds(n)]
    BY <2>4, AddOneEnd
  <2>6. QED
    BY <2>1, <2>2, <2>3, <2>5
<1>7. /\ step \in [Q \X (1 .. Len(s)) -> Q]
      /\ \A L \in Q : \A k \in 1 .. Len(s) : step[<<L, k>>] = AddEnd(L, s[k].end + 2, PtrOf(s, k))
  <2>. HIDE DEF Q
  <2>1. QED
    BY <1>6
<1>8. r \in Q
  BY <1>5 DEF FilledTo
<1>. HIDE DEF Q, step, base
<1>9. PICK rec \in [0 .. Len(s) -> Q] : Recursion(rec, Len(s), r, step)
  <2>1. PICK N \in Nat : N = Len(s)
    BY <1>2
  <2>2. PICK st \in [Q \X (1 .. N) -> Q] : st = step
    BY <1>7, <2>1
  <2>3. PICK q0 \in Q : q0 = r
    BY <1>8
  <2>4. \E rec \in [0 .. N -> Q] : Recursion(rec, N, q0, st)
    BY RecursionExists
  <2>5. QED
    BY <2>1, <2>2, <2>3, <2>4
<1>10. rec = F(rec)
  <2>1. \A k \in 0 .. Len(s) :
          rec[k] = IF k = 0 THEN base
                   ELSE IF s[k].start = s[k].end THEN rec[k - 1]
                   ELSE AddEnd(rec[k - 1], s[k].end + 2, SeedPtr(k))
    <3>1. TAKE k \in 0 .. Len(s)
    <3>2. CASE k = 0
      BY <1>4, <1>9, <3>2 DEF Recursion
    <3>3. CASE k # 0
      <4>1. k \in 1 .. Len(s) /\ k - 1 \in 0 .. Len(s)
        BY <1>2, <3>3
      <4>2. rec[k - 1] \in Q
        BY <1>9, <4>1
      <4>3. rec[k] = step[<<rec[k - 1], k>>]
        BY <1>9, <4>1 DEF Recursion
      <4>4. rec[k] = AddEnd(rec[k - 1], s[k].end + 2, PtrOf(s, k))
        BY <1>7, <4>1, <4>2, <4>3
      <4>5. SeedPtr(k) = PtrOf(s, k) /\ s[k].start # s[k].end
        BY <1>2, <1>3, <4>1
      <4>6. QED
        BY <3>3, <4>4, <4>5
    <3>4. QED
      BY <3>2, <3>3
  <2>2. rec = [k \in 0 .. Len(s) |-> rec[k]]
    BY <1>9
  <2>3. QED
    BY <2>1, <2>2
<1>. HIDE DEF F
<1>11. filled = F(filled)
  BY <1>10
<1>. HIDE DEF filled
<1>12. filled[0] = r /\ \A k \in 1 .. Len(s) : filled[k] = AddEnd(filled[k - 1], s[k].end + 2, PtrOf(s, k))
  <2>1. \A k \in 0 .. Len(s) :
          filled[k] = IF k = 0 THEN base
                      ELSE IF s[k].start = s[k].end THEN filled[k - 1]
                      ELSE AddEnd(filled[k - 1], s[k].end + 2, SeedPtr(k))
    BY <1>11 DEF F
  <2>2. 0 \in 0 .. Len(s) /\ \A k \in 1 .. Len(s) : k \in 0 .. Len(s) /\ k # 0
    BY <1>2
  <2>3. filled[0] = r
    BY <1>4, <2>1, <2>2
  <2>4. ASSUME NEW k \in 1 .. Len(s)
        PROVE  filled[k] = AddEnd(filled[k - 1], s[k].end + 2, PtrOf(s, k))
    <3>1. SeedPtr(k) = PtrOf(s, k) /\ s[k].start # s[k].end /\ k \in 0 .. Len(s) /\ k # 0
      BY <1>2, <1>3, <2>2
    <3>2. QED
      BY <2>1, <3>1
  <2>5. QED
    BY <2>3, <2>4
<1>. DEFINE S == {k \in Nat : k <= Len(s) => FilledTo(filled[k], k, s, n)}
<1>13. 0 \in S
  BY <1>5, <1>12
<1>14. ASSUME NEW k \in Nat, k \in S
       PROVE  k + 1 \in S
  <2>1. SUFFICES ASSUME k + 1 <= Len(s) PROVE FilledTo(filled[k + 1], k + 1, s, n)
    OBVIOUS
  <2>2. k + 1 \in 1 .. Len(s) /\ (k + 1) - 1 = k /\ k + 1 \in DOMAIN s /\ k <= Len(s)
    BY <1>2, <2>1
  <2>3. PICK L : L = filled[k] /\ FilledTo(L, k, s, n)
    BY <1>14, <2>2
  <2>4. filled[k + 1] = AddEnd(L, s[k + 1].end + 2, PtrOf(s, k + 1))
    BY <1>12, <2>2, <2>3
  <2>5. QED
    BY <2>2, <2>3, <2>4, FillStep
<1>. HIDE DEF S
<1>15. Len(s) \in S
  <2>1. \A k \in Nat : k \in S
    BY <1>13, <1>14, SetInduction
  <2>2. QED
    BY <1>2, <2>1
<1>16. FilledTo(filled[Len(s)], Len(s), s, n)
  BY <1>2, <1>15 DEF S
<1>17. QED
  BY <1>1, <1>16

\* A node of a boundary of the finished lattice is a seed that starts there.
LEMMA NodesAreSeeds ==
  ASSUME NEW n \in Nat, NEW s \in Seq(SeedsOn(n)), Ordered(s), NEW k, FilledTo(lattice, k, s, n),
         NEW b \in 0 .. n - 1
  PROVE  /\ Boundary(b + 2).starts = StartingAt(s, b)
         /\ \A j \in DOMAIN StartingAt(s, b) : NodeAt(Ptr(b + 2, j - 1)) = StartingAt(s, b)[j]
<1>1. PICK i \in 1 .. n + 3 : i = b + 3 /\ ~(i <= 2) /\ i - 3 = b /\ b # n
  <2>1. b + 3 \in 1 .. n + 3 /\ ~(b + 3 <= 2) /\ (b + 3) - 3 = b /\ b # n
    OBVIOUS
  <2>2. QED
    BY <2>1
<1>2. lattice[i].starts = StartingAt(s, b)
  <2>1. lattice[i].starts = RowAt(s, n, i).starts
    BY DEF FilledTo
  <2>2. RowAt(s, n, i) = Row(s, n, b)
    BY <1>1 DEF RowAt
  <2>3. Row(s, n, b).starts = StartingAt(s, b)
    BY <1>1 DEF Row, LatticeBoundary
  <2>4. QED
    BY <2>1, <2>2, <2>3
<1>3. (b + 2) + 1 = i
  BY <1>1
<1>4. Boundary(b + 2).starts = StartingAt(s, b)
  BY <1>2, <1>3 DEF Boundary
<1>5. ASSUME NEW j \in DOMAIN StartingAt(s, b)
      PROVE  NodeAt(Ptr(b + 2, j - 1)) = StartingAt(s, b)[j]
  <2>1. j \in Nat
    <3>1. b \in Nat
      OBVIOUS
    <3>2. PICK u \in Seq(SeedsOn(n)) : u = StartingAt(s, b)
      BY <3>1, StartsFacts DEF Block
    <3>3. QED
      BY <3>2
  <2>2. (j - 1) + 1 = j
    BY <2>1
  <2>3. Ptr(b + 2, j - 1).boundary = b + 2 /\ Ptr(b + 2, j - 1).position = j - 1
    BY DEF Ptr
  <2>4. QED
    BY <1>4, <2>2, <2>3 DEF NodeAt
<1>6. QED
  BY <1>4, <1>5

\* The set of an injective sequence has as many members.
LEMMA DistinctCount ==
  ASSUME NEW E, NEW u \in Seq(E), \A q, r \in DOMAIN u : u[q] = u[r] => q = r
  PROVE  Cardinality(ToSet(u)) = Len(u)
<1>1. PICK m \in Nat : m = Len(u) /\ DOMAIN u = 1 .. m
  OBVIOUS
<1>2. u \in Bijection(1 .. m, ToSet(u))
  BY <1>1 DEF ToSet, Bijection, Injection, Surjection, IsInjective
<1>3. IsFiniteSet(1 .. m) /\ Cardinality(1 .. m) = m
  <2>1. m \in Int /\ 1 \in Int
    BY <1>1
  <2>2. QED
    BY <2>1, FS_Interval
<1>4. QED
  BY <1>1, <1>2, <1>3, FS_Bijection DEF ExistsBijection

\* The list of ending nodes of a boundary of the finished lattice is full, and right.
LEMMA BuiltEnds ==
  ASSUME NEW n \in Nat, NEW s \in Seq(SeedsOn(n)), Ordered(s),
         FilledTo(lattice, Len(s), s, n), NEW b \in 1 .. n
  PROVE  /\ Len(lattice[b + 3].ends) = lattice[b + 3].endNodes
         /\ Len(lattice[b + 3].ends) = Cardinality(ToSet(lattice[b + 3].ends))
         /\ Len(lattice[b + 3].ends) = Cardinality(EndPlaces(s, b))
         /\ \A q \in DOMAIN lattice[b + 3].ends : NodeAt(lattice[b + 3].ends[q]).end = b
<1>1. PICK es : es = lattice[b + 3].ends /\ EndList(es, b, Len(s), s)
  BY DEF FilledTo
<1>2. PICK m \in Nat : es \in Seq(Ptrs) /\ m = Len(es) /\ DOMAIN es = 1 .. m
  BY <1>1 DEF EndList
<1>3. PICK at : /\ Increasing(at, m, EndPlaces(s, b))
                /\ \A q \in 1 .. m : es[q] = PtrOf(s, at[q])
  <2>1. EndPlaces(s, b) = {i \in 1 .. Len(s) : s[i].end = b}
    BY SeedProperties DEF EndPlaces
  <2>2. PICK at : /\ Increasing(at, Len(es), {i \in 1 .. Len(s) : s[i].end = b})
                  /\ \A q \in 1 .. Len(es) : es[q] = PtrOf(s, at[q])
    BY <1>1 DEF EndList
  <2>3. QED
    BY <1>2, <2>1, <2>2
<1>4. EndPlaces(s, b) \in SUBSET Nat
  BY SeedProperties DEF EndPlaces
<1>5. Cardinality(EndPlaces(s, b)) = m
  BY <1>3, <1>4, IncreasingIsInOrder
<1>6. /\ at \in [1 .. m -> EndPlaces(s, b)]
      /\ \A q, r \in 1 .. m : q < r => at[q] < at[r]
  BY <1>3 DEF Increasing
<1>7. \A q \in 1 .. m : /\ at[q] \in DOMAIN s /\ at[q] \in Nat /\ s[at[q]].end = b
                        /\ s[at[q]].start \in 0 .. n - 1 /\ s[at[q]].start \in Nat
  <2>1. TAKE q \in 1 .. m
  <2>2. PICK i \in DOMAIN s : i = at[q] /\ s[i].end = b /\ i \in Nat
    BY <1>4, <1>6 DEF EndPlaces
  <2>3. PICK x \in SeedsOn(n) : x = s[i]
    BY SeedProperties
  <2>4. x.start \in 0 .. n /\ x.start < b
    BY <2>2, <2>3 DEF SeedsOn
  <2>5. x.start \in 0 .. n - 1 /\ x.start \in Nat
    BY <2>4
  <2>6. QED
    BY <2>2, <2>3, <2>5
<1>8. \A q, r \in 1 .. m : es[q] = es[r] => q = r
  <2>1. SUFFICES ASSUME NEW q \in 1 .. m, NEW r \in 1 .. m, es[q] = es[r] PROVE q = r
    OBVIOUS
  <2>2. PICK i \in DOMAIN s, j \in DOMAIN s : /\ i = at[q] /\ j = at[r] /\ i \in Nat /\ j \in Nat
                                              /\ s[i].start \in Nat /\ s[j].start \in Nat
    BY <1>7
  <2>3. PtrOf(s, i) = PtrOf(s, j)
    BY <1>3, <2>1, <2>2
  <2>4. /\ s[i].start + 2 = s[j].start + 2
        /\ (i - 1) - Behind(s, s[i].start) = (j - 1) - Behind(s, s[j].start)
    BY <2>3 DEF PtrOf, Ptr
  <2>5. s[i].start = s[j].start
    <3>1. PICK x \in Nat, y \in Nat : x = s[i].start /\ y = s[j].start
      BY <2>2
    <3>2. x + 2 = y + 2
      BY <2>4, <3>1
    <3>3. x = y
      BY <3>2
    <3>4. QED
      BY <3>1, <3>3
  <2>6. PICK c \in Nat : c = Behind(s, s[i].start)
    BY <2>2, OrderedBlocks
  <2>7. (i - 1) - c = (j - 1) - c
    BY <2>4, <2>5, <2>6
  <2>8. i = j
    <3>1. PICK x \in Nat, y \in Nat : x = i /\ y = j
      BY <2>2
    <3>2. (x - 1) - c = (y - 1) - c
      BY <2>7, <3>1
    <3>3. x = y
      BY <3>2
    <3>4. QED
      BY <3>1, <3>3
  <2>9. ~(q < r) /\ ~(r < q)
    <3>1. \A g, h \in 1 .. m : g < h => at[g] # at[h]
      BY <1>6, <1>7
    <3>2. QED
      BY <2>2, <2>8, <3>1
  <2>10. QED
    BY <2>9
<1>9. Cardinality(ToSet(es)) = m
  BY <1>2, <1>8, DistinctCount
<1>10. lattice[b + 3].endNodes = m
  <2>1. PICK i \in 1 .. n + 3 : i = b + 3 /\ ~(i <= 2) /\ i - 3 = b /\ b # 0
    <3>1. b + 3 \in 1 .. n + 3 /\ ~(b + 3 <= 2) /\ (b + 3) - 3 = b /\ b # 0
      OBVIOUS
    <3>2. QED
      BY <3>1
  <2>2. lattice[i].endNodes = RowAt(s, n, i).endNodes /\ RowAt(s, n, i) = Row(s, n, b)
    BY <2>1 DEF FilledTo, RowAt
  <2>3. Row(s, n, b).endNodes = m + 0
    BY <1>5, <2>1 DEF Row, LatticeBoundary
  <2>4. QED
    BY <2>1, <2>2, <2>3
<1>11. ASSUME NEW q \in 1 .. m
       PROVE  NodeAt(es[q]).end = b
  <2>1. PICK i \in DOMAIN s, a \in 0 .. n - 1 : /\ i = at[q] /\ i \in Nat /\ s[i].end = b
                                                /\ a = s[i].start /\ a \in Nat
    BY <1>7
  <2>2. PICK c \in Nat : c = Behind(s, a)
    BY <2>1, OrderedBlocks
  <2>3. i - c \in DOMAIN StartingAt(s, a) /\ StartingAt(s, a)[i - c] = s[i]
    <3>1. i \in Places(s, a)
      BY <2>1 DEF Places
    <3>2. Block(StartingAt(s, a), s, a, n)
      BY <2>1, StartsFacts
    <3>3. QED
      BY <2>2, <3>1, <3>2 DEF Block
  <2>4. NodeAt(Ptr(a + 2, (i - c) - 1)) = s[i]
    BY <2>3, NodesAreSeeds
  <2>5. (i - c) - 1 = (i - 1) - c
    BY <2>1
  <2>6. es[q] = Ptr(a + 2, (i - 1) - c)
    BY <1>3, <2>1, <2>2 DEF PtrOf
  <2>7. QED
    BY <2>1, <2>4, <2>5, <2>6
<1>12. QED
  BY <1>1, <1>2, <1>5, <1>9, <1>10, <1>11

\* The finished lattice is as the property says.
LEMMA BuiltHolds ==
  ASSUME NEW n \in Nat, input.n = n, NEW s \in Seq(SeedsOn(n)), s = seeds, Ordered(s),
         FilledTo(lattice, Len(s), s, n)
  PROVE  StartsAreTheSeeds /\ EndsAreTheNodesEndingThere
<1>1. Len(lattice) = n + 3
  <2>1. lattice \in [1 .. n + 3 -> Bnds(n)] /\ n + 3 \in Nat
    BY DEF FilledTo
  <2>2. QED
    BY <2>1
<1>2. Boundary(n + 2).starts = <<Eos(n)>>
  <2>1. PICK i \in 1 .. n + 3 : i = n + 3 /\ ~(i <= 2) /\ i - 3 = n /\ (n + 2) + 1 = i
    <3>1. n + 3 \in 1 .. n + 3 /\ ~(n + 3 <= 2) /\ (n + 3) - 3 = n /\ (n + 2) + 1 = n + 3
      OBVIOUS
    <3>2. QED
      BY <3>1
  <2>2. lattice[i].starts = RowAt(s, n, i).starts /\ RowAt(s, n, i) = Row(s, n, n)
    BY <2>1 DEF FilledTo, RowAt
  <2>3. Row(s, n, n).starts = <<Eos(n)>>
    BY DEF Row, LatticeBoundary
  <2>4. QED
    BY <2>1, <2>2, <2>3 DEF Boundary
<1>3. StartsAreTheSeeds
  <2>1. \A b \in 0 .. n - 1 : Boundary(b + 2).starts = StartingAt(s, b)
    BY NodesAreSeeds
  <2>2. QED
    BY <1>1, <1>2, <2>1 DEF StartsAreTheSeeds
<1>4. ASSUME NEW idx \in 1 .. n + 2
      PROVE  LET ends == Boundary(idx).ends
             IN /\ Len(ends) = Boundary(idx).endNodes
                /\ Len(ends) = Cardinality(ToSet(ends))
                /\ \A k \in DOMAIN ends : NodeAt(ends[k]).end = (IF idx <= 2 THEN 0 ELSE idx - 2)
                /\ Len(ends) = (IF idx <= 2 THEN 1 ELSE Count(seeds, LAMBDA sd : sd.end = idx - 2))
  <2>1. /\ 1 \in 1 .. n + 3 /\ 2 \in 1 .. n + 3 /\ 3 \in 1 .. n + 3
        /\ 1 + 1 = 2 /\ 2 + 1 = 3 /\ 0 + 1 = 1
    OBVIOUS
  <2>2. \A i \in 1 .. n + 3 : /\ lattice[i].starts = RowAt(s, n, i).starts
                              /\ lattice[i].endNodes = RowAt(s, n, i).endNodes
    BY DEF FilledTo
  <2>3. /\ RowAt(s, n, 1).starts = <<Bos>>
        /\ RowAt(s, n, 2).starts = <<Bos>> /\ RowAt(s, n, 2).endNodes = 1
    BY DEF RowAt, LatticeBoundary
  <2>4. RowAt(s, n, 3).endNodes = 1
    <3>1. RowAt(s, n, 3) = Row(s, n, 0)
      BY DEF RowAt
    <3>2. Row(s, n, 0).endNodes = 0 + 1
      BY EndPlacesFacts DEF Row, LatticeBoundary
    <3>3. QED
      BY <3>1, <3>2
  <2>5. lattice[2].ends = <<Ptr(0, 0)>> /\ lattice[3].ends = <<Ptr(1, 0)>>
    BY DEF FilledTo
  <2>6. NodeAt(Ptr(0, 0)) = Bos /\ NodeAt(Ptr(1, 0)) = Bos /\ Bos.end = 0
    <3>1. /\ Ptr(0, 0).boundary = 0 /\ Ptr(0, 0).position = 0
          /\ Ptr(1, 0).boundary = 1 /\ Ptr(1, 0).position = 0
      BY DEF Ptr
    <3>2. lattice[1].starts[1] = Bos /\ lattice[2].starts[1] = Bos
      BY <2>1, <2>2, <2>3
    <3>3. Bos.end = 0
      BY DEF Bos, Seed
    <3>4. QED
      BY <2>1, <3>1, <3>2, <3>3 DEF NodeAt, Boundary
  <2>7. \A p : Len(<<p>>) = 1 /\ DOMAIN <<p>> = 1 .. 1 /\ <<p>>[1] = p /\ Cardinality(ToSet(<<p>>)) = 1
    <3>1. TAKE p
    <3>2. Len(<<p>>) = 1
      OBVIOUS
    <3>3. DOMAIN <<p>> = 1 .. 1
      OBVIOUS
    <3>4. <<p>>[1] = p
      OBVIOUS
    <3>5. ToSet(<<p>>) = {p}
      BY DEF ToSet
    <3>6. Cardinality({p}) = 1
      BY FS_Singleton
    <3>7. QED
      BY <3>2, <3>3, <3>4, <3>5, <3>6
  <2>8. CASE idx = 1
    <3>1. Boundary(idx).ends = <<Ptr(0, 0)>> /\ Boundary(idx).endNodes = 1
      BY <2>1, <2>2, <2>3, <2>5, <2>8 DEF Boundary
    <3>2. PICK es : es = <<Ptr(0, 0)>>
      OBVIOUS
    <3>3. Len(es) = 1 /\ Cardinality(ToSet(es)) = 1 /\ \A k \in DOMAIN es : es[k] = Ptr(0, 0)
      BY <2>7, <3>2
    <3>4. (IF idx <= 2 THEN 0 ELSE idx - 2) = 0
      BY <2>8
    <3>5. (IF idx <= 2 THEN 1 ELSE Count(seeds, LAMBDA sd : sd.end = idx - 2)) = 1
      BY <2>8
    <3>6. \A k \in DOMAIN es : NodeAt(es[k]).end = 0
      BY <2>6, <3>3
    <3>7. Boundary(idx).ends = es
      BY <3>1, <3>2
    <3>8. QED
      BY <3>1, <3>3, <3>4, <3>5, <3>6, <3>7
  <2>9. CASE idx = 2
    <3>1. Boundary(idx).ends = <<Ptr(1, 0)>> /\ Boundary(idx).endNodes = 1
      BY <2>1, <2>2, <2>4, <2>5, <2>9 DEF Boundary
    <3>2. PICK es : es = <<Ptr(1, 0)>>
      OBVIOUS
    <3>3. Len(es) = 1 /\ Cardinality(ToSet(es)) = 1 /\ \A k \in DOMAIN es : es[k] = Ptr(1, 0)
      BY <2>7, <3>2
    <3>4. (IF idx <= 2 THEN 0 ELSE idx - 2) = 0
      BY <2>9
    <3>5. (IF idx <= 2 THEN 1 ELSE Count(seeds, LAMBDA sd : sd.end = idx - 2)) = 1
      BY <2>9
    <3>6. \A k \in DOMAIN es : NodeAt(es[k]).end = 0
      BY <2>6, <3>3
    <3>7. Boundary(idx).ends = es
      BY <3>1, <3>2
    <3>8. QED
      BY <3>1, <3>3, <3>4, <3>5, <3>6, <3>7
  <2>10. CASE idx # 1 /\ idx # 2
    <3>1. PICK b \in 1 .. n : b = idx - 2 /\ idx + 1 = b + 3 /\ ~(idx <= 2)
      <4>1. idx - 2 \in 1 .. n /\ idx + 1 = (idx - 2) + 3 /\ ~(idx <= 2)
        BY <2>10
      <4>2. QED
        BY <4>1
    <3>2. Boundary(idx) = lattice[b + 3]
      BY <3>1 DEF Boundary
    <3>3. Count(seeds, LAMBDA sd : sd.end = idx - 2) = Cardinality(EndPlaces(s, b))
      BY <3>1 DEF Count, EndPlaces
    <3>4. /\ Len(lattice[b + 3].ends) = lattice[b + 3].endNodes
          /\ Len(lattice[b + 3].ends) = Cardinality(ToSet(lattice[b + 3].ends))
          /\ Len(lattice[b + 3].ends) = Cardinality(EndPlaces(s, b))
          /\ \A q \in DOMAIN lattice[b + 3].ends : NodeAt(lattice[b + 3].ends[q]).end = b
      BY BuiltEnds
    <3>5. QED
      BY <3>1, <3>2, <3>3, <3>4
  <2>11. QED
    BY <2>8, <2>9, <2>10
<1>5. EndsAreTheNodesEndingThere
  BY <1>4 DEF EndsAreTheNodesEndingThere
<1>6. QED
  BY <1>3, <1>5

\* So is the path of the annotation.
LEMMA BuiltGold ==
  ASSUME NEW n \in Nat, NEW s \in Seq(SeedsOn(n)), s = seeds, Ordered(s),
         FilledTo(lattice, Len(s), s, n),
         NEW e \in Examples(n), e = example, GoldAt(goldPath, s, e)
  PROVE  GoldPathIsTheExample
<1>1. PICK m : Chained(e, m, n)
  BY ExampleChained
<1>2. /\ m \in Nat /\ DOMAIN e = 1 .. m
      /\ \A i \in 1 .. m : e[i].start \in 0 .. n - 1
  BY <1>1 DEF Chained
<1>3. DOMAIN goldPath = 1 .. m
  BY <1>2 DEF GoldAt
<1>4. Len(goldPath) = m /\ Len(e) = m
  BY <1>2, <1>3
<1>5. ASSUME NEW i \in DOMAIN e
      PROVE  /\ NodeAt(goldPath[i]).start = e[i].start
             /\ NodeAt(goldPath[i]).end = e[i].end
             /\ NodeAt(goldPath[i]).entry \in Agree(e[i]) \cup {Gold(i)}
  <2>1. PICK b \in 0 .. n - 1 : b = e[i].start /\ b \in Nat
    BY <1>2
  <2>2. PICK k \in DOMAIN StartingAt(s, b) : /\ goldPath[i] = Ptr(b + 2, k - 1)
                                             /\ StartingAt(s, b)[k].end = e[i].end
                                             /\ StartingAt(s, b)[k].entry \in Agree(e[i]) \cup {Gold(i)}
    BY <2>1 DEF GoldAt
  <2>3. NodeAt(goldPath[i]) = StartingAt(s, b)[k]
    BY <2>2, NodesAreSeeds
  <2>4. StartingAt(s, b)[k].start = b
    BY <2>1, StartsFacts DEF Block
  <2>5. QED
    BY <2>1, <2>2, <2>3, <2>4
<1>6. GoldOnlyIfMissing
  <2>1. ASSUME NEW i \in DOMAIN s, s[i].entry.kind = "gold", NEW j \in DOMAIN s,
               s[j].start = s[i].start, s[j].end = s[i].end
        PROVE  s[j].entry \notin Agree(e[s[i].entry.id])
    <3>1. s[i] \in ToSet(s) /\ s[j] \in ToSet(s)
      BY DEF ToSet
    <3>2. QED
      BY <2>1, <3>1 DEF GoldAt
  <2>2. QED
    BY <2>1 DEF GoldOnlyIfMissing, Agree
<1>7. QED
  BY <1>4, <1>5, <1>6 DEF GoldPathIsTheExample, Agree

-------------------------------------------------------------------------------
(* The inductive invariant                                                 *)

Labels == {"reset", "dic", "unk1", "check1", "unk2", "check2", "prepare", "prepared",
           "discontinuous", "discPrepared", "recheck", "reprepare", "build", "boundaries", "ends",
           "built", "failed", "rejected"}
Unclean == {"reset", "failed", "rejected"}
Described == {"prepared", "discPrepared", "build", "boundaries", "ends", "built"}
Unbuilt == Labels \ {"reset", "boundaries", "ends", "built"}
Ensured == {"recheck", "reprepare", "build", "boundaries", "ends", "built"}

\* What holds at a label of the seeds, the descriptions, the lattice, the
\* example and its path
SeedsHold(p, s, m, n) == p \notin Unclean => m = n + 1 /\ SeedsAt(p, s, n)
LatticeHolds(p, s, n, bs, L) ==
  /\ p \in Described => InfoOf(bs, s, n)
  /\ p \in Unbuilt => L = <<>>
  /\ p = "boundaries" => \E k \in 0 .. n : L = Rows(k, s, n)
  /\ p = "ends" => L = Rows(n + 1, s, n)
  /\ p = "built" => FilledTo(L, Len(s), s, n)
ExampleHolds(p, s, n, e, g) ==
  /\ e = <<>> \/ e \in Examples(n)
  /\ e = <<>> => g = <<>> /\ (p \notin Unclean => NoGold(s))
  /\ e # <<>> => p # "failed" /\ (p \in Ensured => GoldAt(g, s, e))

At(p, s, m, n, bs, L, e, g) ==
  /\ p \in Labels
  /\ SeedsHold(p, s, m, n)
  /\ LatticeHolds(p, s, n, bs, L)
  /\ ExampleHolds(p, s, n, e, g)

LatticeInv == InputOK /\ At(pc, seeds, maxBoundaries, input.n, boundaries, lattice, example, goldPath)

\* The invariant after a step that keeps the sentence, from values of the variables
LEMMA AtNext ==
  ASSUME NEW p, NEW s, NEW m, NEW n, NEW bs, NEW L, NEW e, NEW g, At(p, s, m, n, bs, L, e, g),
         InputOK, input.n = n, input' = input,
         pc' = p, seeds' = s, maxBoundaries' = m, boundaries' = bs, lattice' = L,
         example' = e, goldPath' = g
  PROVE  LatticeInv'
<1>1. InputOK' /\ input'.n = n
  BY DEF InputOK
<1>2. SeedsHold(p, s, m, n)'
  <2>1. SUFFICES ASSUME p \notin Unclean PROVE m = n + 1 /\ SeedsAt(p, s, n)'
    BY DEF SeedsHold
  <2>2. m = n + 1 /\ SeedsAt(p, s, n)
    BY <2>1 DEF At, SeedsHold
  <2>3. Unknown(s) => Unknown(s)'
    BY DEF Unknown, Status
  <2>4. Words(s, n) => Words(s, n)'
    BY DEF Words, Status
  <2>5. FallbackApplies' <=> FallbackApplies
    BY DEF FallbackApplies
  <2>6. QED
    BY <2>2, <2>3, <2>4, <2>5 DEF SeedsAt
<1>3. At(p, s, m, n, bs, L, e, g)'
  BY <1>2 DEF At
<1>4. QED
  BY <1>1, <1>3 DEF LatticeInv

\* The sentence is over, or was not begun.
LEMMA AtRest ==
  ASSUME NEW e, NEW g, NEW n, InputOK', input'.n = n,
         pc' \in {"reset", "rejected"}, pc' = "rejected" => lattice' = <<>>,
         example' = e, goldPath' = g,
         e = <<>> \/ e \in Examples(n), e = <<>> => g = <<>>
  PROVE  LatticeInv'
<1>1. PICK p, s, m, bs, L : /\ p = pc' /\ s = seeds' /\ m = maxBoundaries' /\ bs = boundaries'
                            /\ L = lattice'
  OBVIOUS
<1>2. p \in Labels /\ p \in Unclean
  BY <1>1 DEF Labels, Unclean
<1>3. SeedsHold(p, s, m, n)'
  BY <1>2 DEF SeedsHold
<1>4. LatticeHolds(p, s, n, bs, L)
  BY <1>1 DEF LatticeHolds, Described, Unbuilt
<1>5. ExampleHolds(p, s, n, e, g)
  BY <1>1, <1>2 DEF ExampleHolds, Ensured
<1>6. At(p, s, m, n, bs, L, e, g)'
  BY <1>2, <1>3, <1>4, <1>5 DEF At
<1>7. QED
  BY <1>1, <1>6 DEF LatticeInv

\* The invariant holds initially.
LEMMA InitHolds ==
  ASSUME TrainerInit
  PROVE  LatticeInv
<1>1. /\ pc = "reset" /\ InputOK /\ goldPath = <<>>
      /\ example = <<>> \/ example \in Examples(input.n)
  BY DEF TrainerInit, Init, InputOK
<1>2. SeedsHold(pc, seeds, maxBoundaries, input.n)
  BY <1>1 DEF SeedsHold, Unclean
<1>3. LatticeHolds(pc, seeds, input.n, boundaries, lattice)
  BY <1>1 DEF LatticeHolds, Described, Unbuilt
<1>4. ExampleHolds(pc, seeds, input.n, example, goldPath)
  BY <1>1 DEF ExampleHolds, Ensured, Unclean
<1>5. QED
  BY <1>1, <1>2, <1>3, <1>4 DEF LatticeInv, At, Labels

\* The values of the variables before a step
Now(p, s, m, n, bs, L, e, g) ==
  /\ p = pc /\ s = seeds /\ m = maxBoundaries /\ n = input.n /\ bs = boundaries /\ L = lattice
  /\ e = example /\ g = goldPath
  /\ InputOK /\ n \in Nat
  /\ At(p, s, m, n, bs, L, e, g)

\* The invariant, with names for the values of the variables
LEMMA Begin ==
  ASSUME LatticeInv
  PROVE  \E p, s, m, n, bs, L, e, g : Now(p, s, m, n, bs, L, e, g)
<1>1. PICK p, s, m, n, bs, L, e, g :
        /\ p = pc /\ s = seeds /\ m = maxBoundaries /\ n = input.n /\ bs = boundaries
        /\ L = lattice /\ e = example /\ g = goldPath
  OBVIOUS
<1>2. InputOK /\ n \in Nat
  BY <1>1, InputProperties DEF LatticeInv
<1>3. At(p, s, m, n, bs, L, e, g)
  BY <1>1 DEF LatticeInv
<1>4. QED
  BY <1>1, <1>2, <1>3 DEF Now

-------------------------------------------------------------------------------
(* The steps                                                               *)

\* A step of the search for seeds, from the seeds and the descriptions it leaves
LEMMA StillSearching ==
  ASSUME NEW p, NEW s, NEW m, NEW n, NEW bs, NEW L, NEW e, NEW g, At(p, s, m, n, bs, L, e, g),
         p \in Unbuilt \ Unclean,
         NEW q \in (Searching \cap Unbuilt) \ Unclean, NEW t, SeedsAt(q, t, n),
         NEW cs, q \in Described => InfoOf(cs, t, n)
  PROVE  At(q, t, m, n, cs, L, e, g)
<1>1. L = <<>> /\ m = n + 1
  BY DEF At, LatticeHolds, SeedsHold
<1>2. q \in Labels /\ q \notin Unclean /\ q \notin Ensured
  BY DEF Searching, Unbuilt, Labels, Ensured
<1>3. SeedsHold(q, t, m, n)
  BY <1>1 DEF SeedsHold
<1>4. LatticeHolds(q, t, n, cs, L)
  BY <1>1 DEF LatticeHolds, Unbuilt
<1>5. NoGold(t)
  BY DEF SeedsAt
<1>6. ExampleHolds(q, t, n, e, g)
  <2>1. ExampleHolds(p, s, n, e, g)
    BY DEF At
  <2>2. q # "failed"
    BY <1>2 DEF Unclean
  <2>3. QED
    BY <1>2, <1>5, <2>1, <2>2 DEF ExampleHolds
<1>7. QED
  BY <1>2, <1>3, <1>4, <1>6 DEF At

\* resetForInput forgets the last sentence.
LEMMA ResetStep ==
  ASSUME NEW p, NEW s, NEW m, NEW n, NEW bs, NEW L, NEW e, NEW g, Now(p, s, m, n, bs, L, e, g),
         TrainerReset
  PROVE  LatticeInv'
<1>1. /\ pc' = "dic" /\ seeds' = <<>> /\ maxBoundaries' = n + 1 /\ lattice' = <<>>
      /\ goldPath' = <<>> /\ example' = e /\ input' = input
      /\ InputOK /\ input.n = n /\ n \in Nat
  BY DEF TrainerReset, ResetForInput, BuilderReset, Goto, Now
<1>2. PICK cs : cs = boundaries'
  OBVIOUS
<1>3. NoGold(<<>>) /\ Unknown(<<>>) /\ <<>> \in Seq(SeedsOn(n))
  BY DEF NoGold, Unknown
<1>4. SeedsAt("dic", <<>>, n)
  BY <1>3 DEF SeedsAt, Covering, Lacking, InSequence
<1>5. SeedsHold("dic", <<>>, n + 1, n)
  BY <1>4 DEF SeedsHold
<1>6. LatticeHolds("dic", <<>>, n, cs, <<>>)
  BY DEF LatticeHolds, Described
<1>7. ExampleHolds("dic", <<>>, n, e, <<>>)
  <2>1. ExampleHolds(p, s, n, e, g)
    BY DEF Now, At
  <2>2. QED
    BY <1>3, <2>1 DEF ExampleHolds, Ensured
<1>8. At("dic", <<>>, n + 1, n, cs, <<>>, e, <<>>)
  BY <1>5, <1>6, <1>7 DEF At, Labels
<1>9. QED
  BY <1>1, <1>2, <1>8, AtNext

\* The functions that make seeds
LEMMA MakingStep ==
  ASSUME NEW p, NEW s, NEW m, NEW n, NEW bs, NEW L, NEW e, NEW g, Now(p, s, m, n, bs, L, e, g),
         MakeNodeSeedsFromDic \/ MakeUnkNodes1 \/ MakeUnkNodes2, UNCHANGED <<example, goldPath>>
  PROVE  LatticeInv'
<1>1. PICK q, t : q = pc' /\ t = seeds'
  OBVIOUS
<1>2. /\ \/ p = "dic" /\ q = "unk1" /\ t = s \o DicSeeds
         \/ p = "unk1" /\ q = "check1" /\ t = s \o StageSeeds(Stage1)
         \/ p = "unk2" /\ q = "check2" /\ t = s \o StageSeeds(Stage2)
      /\ input' = input /\ maxBoundaries' = m /\ boundaries' = bs /\ lattice' = L
      /\ example' = e /\ goldPath' = g
  BY <1>1 DEF MakeNodeSeedsFromDic, MakeUnkNodes1, MakeUnkNodes2, AppendSeeds, Goto, Now
<1>3. InputOK /\ input.n = n /\ n \in Nat /\ At(p, s, m, n, bs, L, e, g)
  BY DEF Now
<1>4. p \in Unbuilt \ Unclean /\ q \in (Searching \cap Unbuilt) \ Unclean /\ q \notin Described
  BY <1>2 DEF Unbuilt, Unclean, Searching, Described, Labels
<1>5. SeedsAt(p, s, n)
  BY <1>3, <1>4 DEF At, SeedsHold
<1>6. SeedsAt(q, t, n)
  BY <1>2, <1>3, <1>5, DicStep, Unk1Step, Unk2Step
<1>7. At(q, t, m, n, bs, L, e, g)
  BY <1>3, <1>4, <1>6, StillSearching
<1>8. QED
  BY <1>1, <1>2, <1>3, <1>7, AtNext

\* The functions that sort the seeds before words are added
LEMMA SortingStep ==
  ASSUME NEW p, NEW s, NEW m, NEW n, NEW bs, NEW L, NEW e, NEW g, Now(p, s, m, n, bs, L, e, g),
         ((Check1 \/ Check2) /\ UNCHANGED <<example, goldPath>>) \/ SortDiscontinuous
  PROVE  LatticeInv'
<1>1. PICK q, t, cs : q = pc' /\ t = seeds' /\ cs = boundaries'
  OBVIOUS
<1>2. /\ \/ p = "check1" /\ cs = bs /\ q = IF Connected(Marked(t)) THEN "prepare" ELSE "unk2"
         \/ p = "check2" /\ cs = bs /\ q = IF Connected(Marked(t)) THEN "prepare" ELSE "discontinuous"
         \/ p = "discontinuous" /\ q = "discPrepared" /\ cs = BoundaryInfo(t)
      /\ t = Sorted(s)
      /\ input' = input /\ maxBoundaries' = m /\ lattice' = L
      /\ example' = e /\ goldPath' = g
  <2>1. CASE Check1 /\ UNCHANGED <<example, goldPath>>
    <3>1. /\ Sorted(s) = t /\ connectible' = Marked(t) /\ maxBoundaries' = maxBoundaries
      BY <1>1, <2>1 DEF Check1, CheckConnectability, Now
    <3>2. Connected(connectible') <=> Connected(Marked(t))
      BY <3>1 DEF Connected
    <3>3. QED
      BY <1>1, <2>1, <3>1, <3>2 DEF Check1, Goto, Now
  <2>2. CASE Check2 /\ UNCHANGED <<example, goldPath>>
    <3>1. /\ Sorted(s) = t /\ connectible' = Marked(t) /\ maxBoundaries' = maxBoundaries
      BY <1>1, <2>2 DEF Check2, CheckConnectability, Now
    <3>2. QED
      BY <1>1, <2>2, <3>1 DEF Check2, Goto, Now
  <2>3. CASE SortDiscontinuous
    BY <1>1, <2>3 DEF SortDiscontinuous, Goto, Now
  <2>4. QED
    BY <2>1, <2>2, <2>3
<1>3. InputOK /\ input.n = n /\ n \in Nat /\ At(p, s, m, n, bs, L, e, g)
  BY DEF Now
<1>4. /\ p \in Unbuilt \ Unclean /\ q \in (Searching \cap Unbuilt) \ Unclean
      /\ q \in Described => p = "discontinuous"
  BY <1>2 DEF Unbuilt, Unclean, Searching, Described, Labels
<1>5. SeedsAt(p, s, n) /\ maxBoundaries = n + 1
  BY <1>3, <1>4 DEF At, SeedsHold, Now
<1>6. SeedsAt(q, t, n)
  BY <1>2, <1>3, <1>5, CheckStep
<1>7. q \in Described => InfoOf(cs, t, n)
  <2>1. SUFFICES ASSUME q \in Described PROVE InfoOf(BoundaryInfo(t), t, n)
    BY <1>2, <1>4
  <2>2. t \in Seq(SeedsOn(n)) /\ Ordered(t)
    BY <1>2, <1>4, <1>6, <2>1 DEF SeedsAt, InSequence
  <2>3. QED
    BY <1>3, <1>5, <2>2, BoundaryInfoTells
<1>8. At(q, t, m, n, cs, L, e, g)
  BY <1>3, <1>4, <1>6, <1>7, StillSearching
<1>9. QED
  BY <1>1, <1>2, <1>3, <1>8, AtNext

\* prepareNodeSeeds succeeds, and describes the boundaries.
LEMMA PrepareStep ==
  ASSUME NEW p, NEW s, NEW m, NEW n, NEW bs, NEW L, NEW e, NEW g, Now(p, s, m, n, bs, L, e, g),
         Prepare, UNCHANGED <<example, goldPath>>
  PROVE  LatticeInv'
<1>1. PICK cs : cs = boundaries'
  OBVIOUS
<1>2. /\ p = "prepare" /\ pc' = "prepared" /\ cs = BoundaryInfo(s)
      /\ seeds' = s /\ input' = input /\ maxBoundaries' = m /\ lattice' = L
      /\ example' = e /\ goldPath' = g
  BY <1>1 DEF Prepare, PrepareBoundaries, Goto, Now
<1>3. InputOK /\ input.n = n /\ n \in Nat /\ At(p, s, m, n, bs, L, e, g)
  BY DEF Now
<1>4. /\ p \in Unbuilt \ Unclean
      /\ "prepared" \in (Searching \cap Unbuilt) \ Unclean
  BY <1>2 DEF Unbuilt, Unclean, Searching, Labels
<1>5. SeedsAt(p, s, n) /\ maxBoundaries = n + 1
  BY <1>3, <1>4 DEF At, SeedsHold, Now
<1>6. SeedsAt("prepared", s, n)
  BY <1>2, <1>5 DEF SeedsAt, Covering, Lacking, InSequence, Searching
<1>7. InfoOf(cs, s, n)
  <2>1. s \in Seq(SeedsOn(n)) /\ Ordered(s)
    BY <1>6 DEF SeedsAt, InSequence
  <2>2. QED
    BY <1>2, <1>3, <1>5, <2>1, BoundaryInfoTells
<1>8. At("prepared", s, m, n, cs, L, e, g)
  BY <1>3, <1>4, <1>6, <1>7, StillSearching
<1>9. QED
  BY <1>1, <1>2, <1>3, <1>8, AtNext

\* An analysis goes on, or gives up.
LEMMA PreparedStep ==
  ASSUME NEW p, NEW s, NEW m, NEW n, NEW bs, NEW L, NEW e, NEW g, Now(p, s, m, n, bs, L, e, g),
         SeedsPrepared, ~Annotated, UNCHANGED <<example, goldPath>>
  PROVE  LatticeInv'
<1>1. PICK q : q = pc'
  OBVIOUS
<1>2. /\ \/ p = "prepared" /\ q = "build"
         \/ p = "discontinuous" /\ q = "failed"
      /\ e = <<>>
      /\ seeds' = s /\ input' = input /\ maxBoundaries' = m /\ boundaries' = bs /\ lattice' = L
      /\ example' = e /\ goldPath' = g
  BY <1>1 DEF SeedsPrepared, Annotated, Goto, Now, builderVars
<1>3. InputOK /\ input.n = n /\ n \in Nat /\ At(p, s, m, n, bs, L, e, g)
  BY DEF Now
<1>4. m = n + 1 /\ SeedsAt(p, s, n)
  BY <1>2, <1>3 DEF At, SeedsHold, Unclean
<1>5. q \in Labels
  BY <1>2 DEF Labels
<1>6. SeedsHold(q, s, m, n)
  <2>1. p = "prepared" => SeedsAt("build", s, n)
    BY <1>4 DEF SeedsAt, Covering, Lacking, InSequence, Searching
  <2>2. QED
    BY <1>2, <1>4, <2>1 DEF SeedsHold, Unclean
<1>7. LatticeHolds(q, s, n, bs, L)
  BY <1>2, <1>3 DEF At, LatticeHolds, Described, Unbuilt, Labels
<1>8. ExampleHolds(q, s, n, e, g)
  BY <1>2, <1>3 DEF At, ExampleHolds, Unclean
<1>9. At(q, s, m, n, bs, L, e, g)
  BY <1>5, <1>6, <1>7, <1>8 DEF At
<1>10. QED
  BY <1>1, <1>2, <1>3, <1>9, AtNext

\* What ensureNodes does, with the values it starts from and leaves
Ensures(p, s, bs, e, q, t, path) ==
  LET found == [i \in DOMAIN e |-> NodeSeedExists(e[i])]
      missing == InOrder({i \in DOMAIN e : found[i] = -1})
  IN /\ path = [i \in DOMAIN e |->
                  Ptr(e[i].start + 2, IF found[i] = -1 THEN bs[e[i].start].startCount
                                      ELSE found[i])]
     /\ t = s \o [k \in DOMAIN missing |->
                    Seed(Gold(missing[k]), e[missing[k]].start, e[missing[k]].end)]
     /\ q = IF missing # <<>> THEN "recheck" ELSE IF p = "prepared" THEN "build" ELSE "failed"

\* ensureNodes, with and without words to add
LEMMA EnsureStep ==
  ASSUME NEW p, NEW s, NEW m, NEW n, NEW bs, NEW L, NEW e, NEW g, Now(p, s, m, n, bs, L, e, g),
         EnsureNodes
  PROVE  LatticeInv'
<1>1. PICK q, t, path : q = pc' /\ t = seeds' /\ path = goldPath'
  OBVIOUS
<1>2. /\ p \in {"prepared", "discPrepared"} /\ e # <<>>
      /\ input' = input /\ maxBoundaries' = m /\ boundaries' = bs /\ lattice' = L /\ example' = e
  BY DEF EnsureNodes, Annotated, Now
<1>3. Ensures(p, s, bs, e, q, t, path)
  <2>1. Ensures(pc, seeds, boundaries, example, pc', seeds', goldPath')
    BY DEF EnsureNodes, Ensures, Goto
  <2>2. QED
    BY <1>1, <2>1 DEF Now
<1>4. InputOK /\ input.n = n /\ n \in Nat /\ At(p, s, m, n, bs, L, e, g)
  BY DEF Now
<1>5. m = n + 1 /\ SeedsAt(p, s, n)
  BY <1>2, <1>4 DEF At, SeedsHold, Unclean
<1>6. InfoOf(bs, s, n) /\ L = <<>>
  BY <1>2, <1>4 DEF At, LatticeHolds, Described, Unbuilt, Labels
<1>7. e \in Examples(n)
  BY <1>2, <1>4 DEF At, ExampleHolds
<1>8. s \in Seq(SeedsOn(n)) /\ Ordered(s) /\ NoGold(s) /\ Unknown(s)
  BY <1>2, <1>5 DEF SeedsAt, InSequence, Searching
<1>9. PICK found : found = [i \in DOMAIN e |-> NodeSeedExists(e[i])]
  OBVIOUS
<1>10. PICK missing : missing = InOrder({i \in DOMAIN e : found[i] = -1})
  OBVIOUS
<1>11. PICK new : new = [k \in DOMAIN missing |->
                           Seed(Gold(missing[k]), e[missing[k]].start, e[missing[k]].end)]
  OBVIOUS
<1>12. \A i \in DOMAIN e : Search(found[i], e[i], s)
  <2>1. TAKE i \in DOMAIN e
  <2>2. PICK k : Chained(e, k, n)
    BY <1>4, <1>7, ExampleChained
  <2>3. PICK w : w = e[i] /\ w.start \in 0 .. n - 1
    BY <2>2 DEF Chained
  <2>4. s = seeds /\ bs = boundaries
    BY DEF Now
  <2>5. Search(NodeSeedExists(w), w, s)
    BY <1>4, <1>6, <1>8, <2>3, <2>4, NodeSearched
  <2>6. found[i] = NodeSeedExists(w)
    BY <1>9, <2>3
  <2>7. QED
    BY <2>3, <2>5, <2>6
<1>13. /\ path = [i \in DOMAIN e |-> Ptr(e[i].start + 2, IF found[i] = -1 THEN bs[e[i].start].startCount
                                                         ELSE found[i])]
       /\ t = s \o new
       /\ q = IF missing # <<>> THEN "recheck" ELSE IF p = "prepared" THEN "build" ELSE "failed"
  BY <1>3, <1>9, <1>10, <1>11 DEF Ensures
<1>14. Ensuring(e, s, bs, found, missing, new, path)
  <2>1. DOMAIN found = DOMAIN e
    BY <1>9
  <2>2. QED
    BY <1>10, <1>11, <1>12, <1>13, <2>1 DEF Ensuring
<1>15. /\ t \in Seq(SeedsOn(n)) /\ Unknown(t) /\ GoldAt(path, t, e) /\ Covered(ToSet(t), n)
       /\ missing = <<>> => t = s
       /\ new \in Seq(SeedsOn(n))
  BY <1>4, <1>6, <1>7, <1>8, <1>13, <1>14, EnsureAdds
<1>16. Words(t, n)
  <2>1. Words(s, n)
    BY <1>2, <1>5 DEF SeedsAt
  <2>2. ToSet(s) \subseteq ToSet(t)
    BY <1>4, <1>8, <1>13, <1>15, Joined
  <2>3. QED
    BY <2>1, <2>2 DEF Words
<1>17. /\ q = "recheck" \/ (q = "build" /\ t = s)
       /\ q \in Labels /\ q \in Ensured /\ q \notin Unclean /\ q \in Unbuilt
  <2>1. p = "discPrepared" => ~Covered(ToSet(s), n)
    BY <1>5 DEF SeedsAt, Lacking
  <2>2. q = "recheck" \/ (q = "build" /\ t = s)
    BY <1>2, <1>13, <1>15, <2>1
  <2>3. QED
    BY <2>2 DEF Labels, Ensured, Unclean, Unbuilt
<1>18. SeedsAt(q, t, n)
  BY <1>8, <1>15, <1>16, <1>17 DEF SeedsAt, Covering, Lacking, InSequence, Searching
<1>19. SeedsHold(q, t, m, n)
  BY <1>5, <1>18 DEF SeedsHold
<1>20. LatticeHolds(q, t, n, bs, L)
  BY <1>6, <1>17 DEF LatticeHolds, Described, Unbuilt
<1>21. ExampleHolds(q, t, n, e, path)
  BY <1>2, <1>7, <1>15, <1>17 DEF ExampleHolds
<1>22. At(q, t, m, n, bs, L, e, path)
  BY <1>17, <1>19, <1>20, <1>21 DEF At
<1>23. QED
  BY <1>1, <1>2, <1>4, <1>22, AtNext

\* The seeds with the added words are sorted and checked again.
LEMMA CheckGoldStep ==
  ASSUME NEW p, NEW s, NEW m, NEW n, NEW bs, NEW L, NEW e, NEW g, Now(p, s, m, n, bs, L, e, g),
         CheckGold
  PROVE  LatticeInv'
<1>1. PICK t : t = seeds'
  OBVIOUS
<1>2. InputOK /\ input.n = n /\ n \in Nat /\ At(p, s, m, n, bs, L, e, g)
  BY DEF Now
<1>3. /\ p = "recheck" /\ t = Sorted(s) /\ maxBoundaries' = maxBoundaries /\ connectible' = Marked(t)
      /\ pc' = IF Connected(connectible') THEN "reprepare" ELSE "failed"
      /\ input' = input /\ maxBoundaries' = m /\ boundaries' = bs /\ lattice' = L /\ example' = e
      /\ goldPath' = g
  BY <1>1 DEF CheckGold, CheckConnectability, Goto, Now
<1>4. m = n + 1 /\ SeedsAt(p, s, n) /\ maxBoundaries = n + 1
  BY <1>2, <1>3 DEF At, SeedsHold, Unclean, Now
<1>5. Connected(Marked(t)) /\ SeedsAt("reprepare", t, n)
  BY <1>2, <1>3, <1>4, CheckStep
<1>6. pc' = "reprepare"
  <2>1. Connected(connectible')
    BY <1>3, <1>5 DEF Connected
  <2>2. QED
    BY <1>3, <2>1
<1>7. e # <<>> => GoldAt(g, t, e)
  <2>1. s \in Seq(SeedsOn(n))
    BY <1>4 DEF SeedsAt
  <2>2. e # <<>> => GoldAt(g, s, e)
    BY <1>2, <1>3 DEF At, ExampleHolds, Ensured
  <2>3. QED
    BY <1>2, <1>3, <2>1, <2>2, SortedGold
<1>8. e = <<>> => NoGold(t)
  <2>1. s \in Seq(SeedsOn(n))
    BY <1>4 DEF SeedsAt
  <2>2. e = <<>> => NoGold(s)
    BY <1>2, <1>3 DEF At, ExampleHolds, Unclean
  <2>3. QED
    BY <1>2, <1>3, <2>1, <2>2, SortedKeeps
<1>9. SeedsHold("reprepare", t, m, n)
  BY <1>4, <1>5 DEF SeedsHold
<1>10. LatticeHolds("reprepare", t, n, bs, L)
  BY <1>2, <1>3 DEF At, LatticeHolds, Described, Unbuilt, Labels
<1>11. ExampleHolds("reprepare", t, n, e, g)
  BY <1>2, <1>7, <1>8 DEF At, ExampleHolds
<1>12. At("reprepare", t, m, n, bs, L, e, g)
  BY <1>9, <1>10, <1>11 DEF At, Labels
<1>13. QED
  BY <1>1, <1>2, <1>3, <1>6, <1>12, AtNext

\* The boundaries are described again, from the seeds with the added words.
LEMMA PrepareAgainStep ==
  ASSUME NEW p, NEW s, NEW m, NEW n, NEW bs, NEW L, NEW e, NEW g, Now(p, s, m, n, bs, L, e, g),
         PrepareAgain
  PROVE  LatticeInv'
<1>1. PICK cs : cs = boundaries'
  OBVIOUS
<1>2. InputOK /\ input.n = n /\ n \in Nat /\ At(p, s, m, n, bs, L, e, g)
  BY DEF Now
<1>3. /\ p = "reprepare" /\ pc' = "build" /\ cs = BoundaryInfo(s)
      /\ seeds' = s /\ input' = input /\ maxBoundaries' = m /\ lattice' = L
      /\ example' = e /\ goldPath' = g
  BY <1>1 DEF PrepareAgain, PrepareBoundaries, Goto, Now
<1>4. m = n + 1 /\ SeedsAt(p, s, n) /\ maxBoundaries = n + 1
  BY <1>2, <1>3 DEF At, SeedsHold, Unclean, Now
<1>5. SeedsHold("build", s, m, n)
  BY <1>3, <1>4 DEF SeedsHold, SeedsAt, Covering, Lacking, InSequence, Searching
<1>6. InfoOf(cs, s, n)
  <2>1. s \in Seq(SeedsOn(n)) /\ Ordered(s)
    BY <1>3, <1>4 DEF SeedsAt, InSequence
  <2>2. QED
    BY <1>2, <1>3, <1>4, <2>1, BoundaryInfoTells
<1>7. LatticeHolds("build", s, n, cs, L)
  BY <1>2, <1>3, <1>6 DEF At, LatticeHolds, Unbuilt, Labels
<1>8. ExampleHolds("build", s, n, e, g)
  BY <1>2, <1>3 DEF At, ExampleHolds, Ensured, Unclean
<1>9. At("build", s, m, n, cs, L, e, g)
  BY <1>5, <1>7, <1>8 DEF At, Labels
<1>10. QED
  BY <1>1, <1>2, <1>3, <1>9, AtNext

\* The functions of buildLattice change the lattice only.
LEMMA StillBuilding ==
  ASSUME NEW p \in {"build", "boundaries", "ends"}, NEW s, NEW m, NEW n, NEW bs, NEW L, NEW e, NEW g,
         At(p, s, m, n, bs, L, e, g),
         NEW q \in {"boundaries", "ends", "built"}, NEW M,
         q = "boundaries" => \E k \in 0 .. n : M = Rows(k, s, n),
         q = "ends" => M = Rows(n + 1, s, n),
         q = "built" => FilledTo(M, Len(s), s, n)
  PROVE  At(q, s, m, n, bs, M, e, g)
<1>1. m = n + 1 /\ SeedsAt(p, s, n)
  BY DEF At, SeedsHold, Unclean
<1>2. SeedsHold(q, s, m, n)
  BY <1>1 DEF SeedsHold, SeedsAt, Covering, Lacking, InSequence, Searching
<1>3. LatticeHolds(q, s, n, bs, M)
  <2>1. InfoOf(bs, s, n)
    BY DEF At, LatticeHolds, Described
  <2>2. q \notin Unbuilt
    BY DEF Unbuilt
  <2>3. QED
    BY <2>1, <2>2 DEF LatticeHolds
<1>4. ExampleHolds(q, s, n, e, g)
  BY DEF At, ExampleHolds, Ensured, Unclean
<1>5. QED
  BY <1>2, <1>3, <1>4 DEF At, Labels

\* The functions of buildLattice: the lattice grows by the boundary of the seeds that come next.
LEMMA BuildStep ==
  ASSUME NEW p, NEW s, NEW m, NEW n, NEW bs, NEW L, NEW e, NEW g, Now(p, s, m, n, bs, L, e, g),
         BuildLattice, UNCHANGED <<example, goldPath>>
  PROVE  LatticeInv'
<1>1. PICK q, M : q = pc' /\ M = lattice'
  OBVIOUS
<1>2. InputOK /\ input.n = n /\ n \in Nat /\ At(p, s, m, n, bs, L, e, g)
  BY DEF Now
<1>3. /\ p \in {"build", "boundaries", "ends"}
      /\ \/ BuildBos /\ p = "build" /\ q = "boundaries"
         \/ BuildBoundary /\ p = "boundaries" /\ q = "boundaries"
         \/ BuildEos /\ p = "boundaries" /\ q = "ends"
         \/ BuildEnds /\ p = "ends" /\ q = "built"
      /\ seeds' = s /\ input' = input /\ maxBoundaries' = m /\ boundaries' = bs
      /\ example' = e /\ goldPath' = g
  BY <1>1 DEF BuildLattice, BuildBos, BuildBoundary, BuildEos, BuildEnds, Goto, Now
<1>4. /\ m = n + 1 /\ SeedsAt(p, s, n) /\ maxBoundaries = n + 1 /\ maxBoundaries - 1 = n
      /\ L = lattice /\ s = seeds /\ bs = boundaries
  <2>1. m = n + 1 /\ SeedsAt(p, s, n)
    BY <1>2, <1>3 DEF At, SeedsHold, Unclean
  <2>2. QED
    BY <1>2, <2>1 DEF Now
<1>5. s \in Seq(SeedsOn(n)) /\ Ordered(s)
  BY <1>3, <1>4 DEF SeedsAt, InSequence
<1>6. InfoOf(bs, s, n)
  BY <1>2, <1>3 DEF At, LatticeHolds, Described
<1>7. ASSUME NEW k \in 0 .. n, L = Rows(k, s, n)
      PROVE  /\ Len(L) - 2 = k /\ L \in Seq(Bnds(n))
             /\ Append(L, Row(s, n, k)) = Rows(k + 1, s, n)
  <2>1. k \in Nat
    OBVIOUS
  <2>2. /\ L \in Seq(Bnds(n)) /\ Len(L) = k + 2
        /\ Append(L, Row(s, n, k)) = Rows(k + 1, s, n)
    BY <1>2, <1>5, <1>7, <2>1, RowsGrow
  <2>3. QED
    BY <2>1, <2>2
<1>8. CASE BuildBos /\ p = "build" /\ q = "boundaries"
  <2>1. L = <<>>
    BY <1>2, <1>8 DEF At, LatticeHolds, Unbuilt, Labels
  <2>2. M = <<>> \o <<LatticeBoundary(0, <<Bos>>), LatticeBoundary(1, <<Bos>>)>>
    BY <1>1, <1>4, <1>8, <2>1 DEF BuildBos, MakeBos
  <2>3. M = Rows(0, s, n)
    <3>1. 0 \in Nat
      OBVIOUS
    <3>2. QED
      BY <1>2, <1>5, <2>2, <3>1, RowsGrow
  <2>4. At(q, s, m, n, bs, M, e, g)
    <3>1. 0 \in 0 .. n
      BY <1>2
    <3>2. \E k \in 0 .. n : M = Rows(k, s, n)
      BY <2>3, <3>1
    <3>3. QED
      BY <1>2, <1>8, <3>2, StillBuilding
  <2>5. QED
    BY <1>1, <1>2, <1>3, <2>4, AtNext
<1>9. CASE BuildBoundary /\ p = "boundaries" /\ q = "boundaries"
  <2>1. PICK k \in 0 .. n : L = Rows(k, s, n)
    BY <1>2, <1>9 DEF At, LatticeHolds
  <2>2. Len(L) - 2 = k
    BY <1>7, <2>1
  <2>3. k < n /\ M = Append(L, LatticeBoundary(bs[k].endCount, Slice(s, bs[k])))
    BY <1>1, <1>2, <1>4, <1>9, <2>2 DEF BuildBoundary, ConstructSingleBoundary, MakeBoundary
  <2>4. k \in 0 .. n - 1 /\ k # n /\ k + 1 \in 0 .. n
    BY <1>2, <2>3
  <2>5. Slice(s, bs[k]) = StartingAt(s, k)
    BY <1>2, <1>5, <1>6, <2>4, InfoLeads
  <2>6. bs[k].endCount = Cardinality(EndPlaces(s, k)) + (IF k = 0 THEN 1 ELSE 0)
    BY <1>6 DEF InfoOf
  <2>7. LatticeBoundary(bs[k].endCount, Slice(s, bs[k])) = Row(s, n, k)
    BY <2>4, <2>5, <2>6 DEF Row
  <2>8. M = Rows(k + 1, s, n)
    BY <1>7, <2>1, <2>3, <2>7
  <2>9. At(q, s, m, n, bs, M, e, g)
    <3>1. \E j \in 0 .. n : M = Rows(j, s, n)
      BY <2>4, <2>8
    <3>2. QED
      BY <1>2, <1>9, <3>1, StillBuilding
  <2>10. QED
    BY <1>1, <1>2, <1>3, <2>9, AtNext
<1>10. CASE BuildEos /\ p = "boundaries" /\ q = "ends"
  <2>1. PICK k \in 0 .. n : L = Rows(k, s, n)
    BY <1>2, <1>10 DEF At, LatticeHolds
  <2>2. Len(L) - 2 = k
    BY <1>7, <2>1
  <2>3. k = n /\ M = Append(L, LatticeBoundary(bs[n].endCount, <<Eos(n)>>))
    BY <1>1, <1>2, <1>4, <1>10, <2>2 DEF BuildEos, MakeEos, MakeBoundary
  <2>4. bs[n].endCount = Cardinality(EndPlaces(s, n)) + (IF n = 0 THEN 1 ELSE 0)
    BY <1>6, <2>3 DEF InfoOf
  <2>5. LatticeBoundary(bs[n].endCount, <<Eos(n)>>) = Row(s, n, n)
    BY <2>4 DEF Row
  <2>6. M = Rows(n + 1, s, n)
    BY <1>7, <2>1, <2>3, <2>5
  <2>7. At(q, s, m, n, bs, M, e, g)
    BY <1>2, <1>10, <2>6, StillBuilding
  <2>8. QED
    BY <1>1, <1>2, <1>3, <2>7, AtNext
<1>11. CASE BuildEnds /\ p = "ends" /\ q = "built"
  <2>1. lattice = Rows(n + 1, s, n)
    BY <1>2, <1>4, <1>11 DEF At, LatticeHolds
  <2>2. FillEnds
    BY <1>11 DEF BuildEnds
  <2>3. FilledTo(M, Len(s), s, n)
    BY <1>1, <1>2, <1>4, <1>5, <1>6, <2>1, <2>2, FillEndsFills
  <2>4. At(q, s, m, n, bs, M, e, g)
    BY <1>2, <1>11, <2>3, StillBuilding
  <2>5. QED
    BY <1>1, <1>2, <1>3, <2>4, AtNext
<1>12. QED
  BY <1>3, <1>8, <1>9, <1>10, <1>11

\* The next sentence, or one that is too long
LEMMA RestStep ==
  ASSUME NEW p, NEW s, NEW m, NEW n, NEW bs, NEW L, NEW e, NEW g, Now(p, s, m, n, bs, L, e, g),
         \/ InputTooLong /\ UNCHANGED <<example, goldPath>>
         \/ NextExample
  PROVE  LatticeInv'
<1>1. /\ InputOK /\ e = example /\ g = goldPath /\ input.n = n
      /\ e = <<>> \/ e \in Examples(n)
      /\ e = <<>> => g = <<>>
  BY DEF Now, At, ExampleHolds
<1>2. CASE InputTooLong /\ UNCHANGED <<example, goldPath>>
  <2>1. InputOK' /\ input'.n = n /\ pc' = "rejected" /\ lattice' = <<>> /\ example' = e /\ goldPath' = g
    BY <1>1, <1>2 DEF InputTooLong, Goto, InputOK
  <2>2. QED
    BY <1>1, <2>1, AtRest
<1>3. CASE NextExample
  <2>1. PICK f, k : f = example' /\ k = input'.n
    OBVIOUS
  <2>2. InputOK' /\ pc' = "reset" /\ goldPath' = g
    BY <1>1, <1>3 DEF NextExample, NextSentence, Goto, InputOK
  <2>3. (f = <<>> \/ f \in Examples(k)) /\ (f = <<>> => g = <<>>)
    <3>1. CASE e = <<>>
      BY <1>1, <1>3, <2>1, <3>1 DEF NextExample, Annotated
    <3>2. CASE e # <<>>
      <4>1. f \in Examples(k) /\ k > 0
        <5>1. Annotated
          BY <1>1, <3>2 DEF Annotated
        <5>2. input'.n > 0 /\ example' \in Examples(input'.n)
          BY <1>3, <5>1 DEF NextExample
        <5>3. QED
          BY <2>1, <5>2
      <4>2. k \in Nat
        <5>1. input' \in Followers
          BY <1>3 DEF NextExample, NextSentence
        <5>2. QED
          BY <2>1, <5>1, AnalysisConstants
      <4>3. f # <<>>
        BY <4>1, <4>2, ExampleChained
      <4>4. QED
        BY <4>1, <4>3
    <3>3. QED
      BY <3>1, <3>2
  <2>4. QED
    BY <2>1, <2>2, <2>3, AtRest
<1>4. QED
  BY <1>2, <1>3

\* A step of another part of the program changes nothing.
LEMMA StandingStill ==
  ASSUME LatticeInv, UNCHANGED trainerVars
  PROVE  LatticeInv'
<1>1. PICK p, s, m, n, bs, L, e, g : Now(p, s, m, n, bs, L, e, g)
  BY Begin
<1>2. /\ InputOK /\ input.n = n /\ input' = input /\ At(p, s, m, n, bs, L, e, g)
      /\ pc' = p /\ seeds' = s /\ maxBoundaries' = m /\ boundaries' = bs /\ lattice' = L
      /\ example' = e /\ goldPath' = g
  BY <1>1 DEF Now, trainerVars, vars, builderVars
<1>3. QED
  BY <1>2, AtNext

\* The invariant is inductive.
LEMMA StepKeepsInv ==
  ASSUME LatticeInv, [TrainerNext]_trainerVars
  PROVE  LatticeInv'
<1>1. PICK p, s, m, n, bs, L, e, g : Now(p, s, m, n, bs, L, e, g)
  BY Begin
<1>2. CASE TrainerReset
  BY <1>1, <1>2, ResetStep
<1>3. CASE AnalyzerStep
  <2>1. UNCHANGED <<example, goldPath>>
    BY <1>3 DEF AnalyzerStep
  <2>2. CASE MakeNodeSeedsFromDic \/ MakeUnkNodes1 \/ MakeUnkNodes2
    BY <1>1, <2>1, <2>2, MakingStep
  <2>3. CASE Check1 \/ Check2
    BY <1>1, <2>1, <2>3, SortingStep
  <2>4. CASE Prepare
    BY <1>1, <2>1, <2>4, PrepareStep
  <2>5. CASE BuildLattice
    BY <1>1, <2>1, <2>5, BuildStep
  <2>6. CASE InputTooLong
    BY <1>1, <2>1, <2>6, RestStep
  <2>7. CASE SeedsPrepared /\ ~Annotated
    BY <1>1, <2>1, <2>7, PreparedStep
  <2>8. QED
    BY <1>3, <2>2, <2>3, <2>4, <2>5, <2>6, <2>7 DEF AnalyzerStep, PrepareNodeSeeds
<1>4. CASE SortDiscontinuous
  BY <1>1, <1>4, SortingStep
<1>5. CASE EnsureNodes
  BY <1>1, <1>5, EnsureStep
<1>6. CASE CheckGold
  BY <1>1, <1>6, CheckGoldStep
<1>7. CASE PrepareAgain
  BY <1>1, <1>7, PrepareAgainStep
<1>8. CASE NextExample
  BY <1>1, <1>8, RestStep
<1>9. CASE UNCHANGED trainerVars
  BY <1>9, StandingStill
<1>10. QED
  BY <1>2, <1>3, <1>4, <1>5, <1>6, <1>7, <1>8, <1>9 DEF TrainerNext

-------------------------------------------------------------------------------
(* The theorems                                                            *)

\* The invariant that the properties follow from: at every label of the
\* analysis and of the preparation of an example, what the seeds, the
\* descriptions of the boundaries, the lattice and the path of the annotation
\* have in common.
THEOREM LatticeInvAlways == TrainerSpec => []LatticeInv
<1>1. TrainerInit => LatticeInv
  BY InitHolds
<1>2. LatticeInv /\ [TrainerNext]_trainerVars => LatticeInv'
  BY StepKeepsInv
<1>3. QED
  BY <1>1, <1>2, PTL DEF TrainerSpec

\* SeedsOfEveryWord in one state
LEMMA InvSeeds ==
  ASSUME LatticeInv
  PROVE  SeedsOfEveryWord
<1>1. PICK p, s, m, n, bs, L, e, g : Now(p, s, m, n, bs, L, e, g)
  BY Begin
<1>2. /\ InputOK /\ n = input.n /\ n \in Nat /\ s = seeds /\ p = pc
      /\ p \notin Unclean => SeedsAt(p, s, n)
  BY <1>1 DEF Now, At, SeedsHold
<1>3. ASSUME Clean
      PROVE  UnknownWordsAreUnknown
  <2>1. Unknown(seeds)
    BY <1>2, <1>3 DEF Clean, Unclean, SeedsAt
  <2>2. QED
    BY <2>1 DEF Unknown, UnknownWordsAreUnknown
<1>4. ASSUME Clean, pc # "dic"
      PROVE  AllWordsAreCandidates
  <2>1. Words(s, n)
    BY <1>2, <1>4 DEF Clean, Unclean, SeedsAt
  <2>2. SUFFICES ASSUME NEW z \in DOMAIN input.trie, input.trie[z] = "Ok", NEW h \in 1 .. Homographs
                 PROVE  Seed(Dic(h), z[1], z[2]) \in ToSet(seeds)
    BY DEF AllWordsAreCandidates
  <2>3. z \in (0 .. n) \X (0 .. n) /\ z[1] < z[2]
    BY <1>2, InputProperties
  <2>4. z[1] \in 0 .. n /\ z[2] \in 0 .. n /\ z = <<z[1], z[2]>>
    BY <2>3
  <2>5. Status(z[1], z[2]) = "Ok"
    BY <2>2, <2>4 DEF Status
  <2>6. QED
    BY <1>2, <2>1, <2>3, <2>4, <2>5 DEF Words
<1>5. QED
  BY <1>3, <1>4 DEF SeedsOfEveryWord

\* PreparedIffCovered in one state
LEMMA InvCovered ==
  ASSUME LatticeInv
  PROVE  PreparedIffCovered
<1>1. PICK p, s, m, n, bs, L, e, g : Now(p, s, m, n, bs, L, e, g)
  BY Begin
<1>2. /\ n = input.n /\ n \in Nat /\ s = seeds /\ p = pc
      /\ p \notin Unclean => SeedsAt(p, s, n)
  BY <1>1 DEF Now, At, SeedsHold
<1>3. ASSUME p \in Covering \cup Lacking
      PROVE  /\ n \in Reached <=> Covered(ToSet(s), n)
             /\ SeedsAt(p, s, n)
  <2>1. SeedsAt(p, s, n)
    BY <1>2, <1>3 DEF Covering, Lacking, Unclean
  <2>2. s \in Seq(SeedsOn(n))
    BY <2>1 DEF SeedsAt
  <2>3. QED
    BY <1>2, <2>1, <2>2, ReachedCovers
<1>4. p \in Covering => n \in Reached
  BY <1>3 DEF SeedsAt
<1>5. p \in Lacking => n \notin Reached
  BY <1>3 DEF SeedsAt
<1>6. FallbackApplies => p # "discontinuous"
  BY <1>2 DEF Unclean, SeedsAt
<1>7. QED
  BY <1>2, <1>4, <1>5, <1>6 DEF PreparedIffCovered, Covering, Lacking

\* BoundariesHoldTheSeeds in one state
LEMMA InvBoundaries ==
  ASSUME LatticeInv
  PROVE  BoundariesHoldTheSeeds
<1>1. PICK p, s, m, n, bs, L, e, g : Now(p, s, m, n, bs, L, e, g)
  BY Begin
<1>2. /\ n = input.n /\ n \in Nat /\ s = seeds /\ p = pc /\ L = lattice
      /\ At(p, s, m, n, bs, L, e, g)
  BY <1>1 DEF Now
<1>3. pc \in {"failed", "rejected"} => lattice = <<>>
  BY <1>2 DEF At, LatticeHolds, Unbuilt, Labels
<1>4. StartsAreTheSeeds /\ EndsAreTheNodesEndingThere
  <2>1. CASE pc = "built"
    <3>1. FilledTo(lattice, Len(s), s, n) /\ SeedsAt(p, s, n)
      BY <1>2, <2>1 DEF At, LatticeHolds, SeedsHold, Unclean
    <3>2. s \in Seq(SeedsOn(n)) /\ Ordered(s)
      BY <1>2, <2>1, <3>1 DEF SeedsAt, InSequence
    <3>3. QED
      BY <1>2, <3>1, <3>2, BuiltHolds
  <2>2. CASE pc # "built"
    BY <2>2 DEF StartsAreTheSeeds, EndsAreTheNodesEndingThere
  <2>3. QED
    BY <2>1, <2>2
<1>5. QED
  BY <1>3, <1>4 DEF BoundariesHoldTheSeeds

\* GoldPathIsTheExample in one state
LEMMA InvGold ==
  ASSUME LatticeInv
  PROVE  GoldPathIsTheExample
<1>1. PICK p, s, m, n, bs, L, e, g : Now(p, s, m, n, bs, L, e, g)
  BY Begin
<1>2. /\ n = input.n /\ n \in Nat /\ s = seeds /\ p = pc /\ L = lattice /\ e = example /\ g = goldPath
      /\ At(p, s, m, n, bs, L, e, g)
  BY <1>1 DEF Now
<1>3. SUFFICES ASSUME pc = "built" PROVE GoldPathIsTheExample
  BY DEF GoldPathIsTheExample
<1>4. FilledTo(lattice, Len(s), s, n) /\ SeedsAt(p, s, n)
  BY <1>2, <1>3 DEF At, LatticeHolds, SeedsHold, Unclean
<1>5. s \in Seq(SeedsOn(n)) /\ Ordered(s)
  BY <1>2, <1>3, <1>4 DEF SeedsAt, InSequence
<1>6. CASE e = <<>>
  <2>1. g = <<>> /\ NoGold(s)
    BY <1>2, <1>3, <1>6 DEF At, ExampleHolds, Unclean
  <2>2. GoldOnlyIfMissing
    BY <1>2, <2>1 DEF GoldOnlyIfMissing, NoGold
  <2>3. DOMAIN example = {} /\ Len(goldPath) = Len(example)
    BY <1>2, <1>6, <2>1
  <2>4. QED
    BY <2>2, <2>3 DEF GoldPathIsTheExample
<1>7. CASE e # <<>>
  <2>1. e \in Examples(n) /\ GoldAt(goldPath, s, e)
    BY <1>2, <1>3, <1>7 DEF At, ExampleHolds, Ensured
  <2>2. QED
    BY <1>2, <1>4, <1>5, <2>1, BuiltGold
<1>8. QED
  BY <1>6, <1>7

\* GoldFixesConnectability in one state
LEMMA InvFixes ==
  ASSUME LatticeInv
  PROVE  GoldFixesConnectability
<1>1. PICK p, s, m, n, bs, L, e, g : Now(p, s, m, n, bs, L, e, g)
  BY Begin
<1>2. QED
  BY <1>1 DEF Now, At, ExampleHolds, GoldFixesConnectability, Annotated

\* DictionaryNodeCreator and the unknown-word makers: whatever the dictionary
\* answers and whatever the makers are, every word of the sentence becomes a
\* candidate with all its entries, and no unknown-word seed spans a word or is
\* made twice, from the makers to the finished lattice.
THEOREM EveryWordIsACandidate == TrainerSpec => []SeedsOfEveryWord
BY LatticeInvAlways, InvSeeds, PTL

\* prepareNodeSeeds: the single pass of checkConnectability over the sorted
\* seeds finds out whether they cover the sentence, and the makers of stage 2
\* close every gap in which all characters have one of their classes.
THEOREM PassFindsTheCover == TrainerSpec => []PreparedIffCovered
BY LatticeInvAlways, InvCovered, PTL

\* buildLattice: for a sentence of any length and any seeds, every boundary of
\* the finished lattice starts exactly its seeds, and its list of ending nodes
\* is filled with exactly those that end there; a failed or rejected analysis
\* leaves no lattice.
THEOREM LatticeHoldsTheSeeds == TrainerSpec => []BoundariesHoldTheSeeds
BY LatticeInvAlways, InvBoundaries, PTL

\* ensureNodes: the path of the annotation that is computed before words are
\* added and the seeds are sorted again leads to the right nodes of the
\* lattice that is built afterwards.
THEOREM GoldPathLeadsThere == TrainerSpec => []GoldPathIsTheExample
BY LatticeInvAlways, InvGold, PTL

\* Trainer::prepare: once the words of the annotation are among the seeds,
\* the check that follows always succeeds.
THEOREM AddedWordsConnect == TrainerSpec => []GoldFixesConnectability
BY LatticeInvAlways, InvFixes, PTL

===============================================================================
