---------------------------- MODULE SelectionProofs ----------------------------
(***************************************************************************)
(* Proofs about Selection for any number of candidates, any scores and any *)
(* beam: partition keeps its bounds, loses no candidate, and puts the best *)
(* ones in front.                                                          *)
(*                                                                         *)
(* The order of the candidates is described by operators on any order a,   *)
(* so that the lemmas apply before and after a step.                       *)
(***************************************************************************)
EXTENDS Selection, TLAPS

\* A position a..b of candidates and their scores
Scores(s, n) == s \in [0 .. n - 1 -> Int]
Orders(n) == [0 .. n - 1 -> 0 .. n - 1]

\* Every candidate is somewhere.
Complete(a, n) == \A x \in 0 .. n - 1 : \E i \in 0 .. n - 1 : a[i] = x

\* No candidate before place m is worse than one from m on.
SplitAt(s, a, n, m) ==
  \A i, j \in 0 .. n - 1 : i < m /\ m <= j => s[a[i]] >= s[a[j]]

\* The same within a range, with the candidate at m between the two sides
Cut(s, a, lo, m, hi) ==
  /\ \A i \in lo .. m - 1 : s[a[i]] >= s[a[m]]
  /\ \A j \in m + 1 .. hi - 1 : s[a[m]] >= s[a[j]]

\* What part_step has seen of the range
Scanned(s, a, lo, l, r, hi) ==
  /\ \A i \in lo .. l - 1 : s[a[i]] > s[a[hi - 1]]
  /\ \A j \in r + 1 .. hi - 2 : ~(s[a[j]] > s[a[hi - 1]])

-------------------------------------------------------------------------------
(* Swaps                                                                   *)

\* Two candidates change places; the others stay.
LEMMA SwapValues ==
  ASSUME NEW n \in Nat, NEW a \in Orders(n), NEW i \in 0 .. n - 1, NEW j \in 0 .. n - 1
  PROVE  /\ Swap(a, i, j) \in Orders(n)
         /\ Swap(a, i, j)[i] = a[j]
         /\ Swap(a, i, j)[j] = a[i]
         /\ \A k \in 0 .. n - 1 : k # i /\ k # j => Swap(a, i, j)[k] = a[k]
BY DEF Swap, Orders

\* A swap loses no candidate.
LEMMA SwapComplete ==
  ASSUME NEW n \in Nat, NEW a \in Orders(n), NEW i \in 0 .. n - 1, NEW j \in 0 .. n - 1,
         Complete(a, n)
  PROVE  Complete(Swap(a, i, j), n)
<1>1. SUFFICES ASSUME NEW x \in 0 .. n - 1
               PROVE  \E k \in 0 .. n - 1 : Swap(a, i, j)[k] = x
  BY DEF Complete
<1>2. PICK k \in 0 .. n - 1 : a[k] = x
  BY DEF Complete
<1>3. CASE k = i
  BY <1>2, <1>3, SwapValues
<1>4. CASE k = j
  BY <1>2, <1>4, SwapValues
<1>5. CASE k # i /\ k # j
  <2>1. Swap(a, i, j)[k] = a[k]
    BY <1>5, SwapValues
  <2>2. QED
    BY <1>2, <2>1
<1> QED
  BY <1>3, <1>4, <1>5

\* A swap on one side of a split does not disturb it.
LEMMA SwapSplit ==
  ASSUME NEW n \in Nat, NEW s, Scores(s, n), NEW a \in Orders(n),
         NEW i \in 0 .. n - 1, NEW j \in 0 .. n - 1, NEW m \in Int,
         SplitAt(s, a, n, m), (i < m) <=> (j < m)
  PROVE  SplitAt(s, Swap(a, i, j), n, m)
<1> DEFINE b == Swap(a, i, j)
           From(k) == IF k = i THEN j ELSE IF k = j THEN i ELSE k
<1>0. b[i] = a[j] /\ b[j] = a[i] /\ \A k \in 0 .. n - 1 : k # i /\ k # j => b[k] = a[k]
  BY SwapValues
<1>1. ASSUME NEW k \in 0 .. n - 1
      PROVE  From(k) \in 0 .. n - 1 /\ b[k] = a[From(k)] /\ (k < m <=> From(k) < m)
  <2>1. CASE k = i
    BY <2>1, <1>0
  <2>2. CASE k # i /\ k = j
    BY <2>2, <1>0
  <2>3. CASE k # i /\ k # j
    BY <2>3, <1>0
  <2> QED
    BY <2>1, <2>2, <2>3
<1> HIDE DEF b, From
<1>2. SUFFICES ASSUME NEW k \in 0 .. n - 1, NEW l \in 0 .. n - 1, k < m, m <= l
               PROVE  s[b[k]] >= s[b[l]]
  BY DEF SplitAt, b
<1>3. From(k) < m /\ m <= From(l)
  BY <1>1, <1>2
<1>4. From(k) \in 0 .. n - 1 /\ From(l) \in 0 .. n - 1 /\ b[k] = a[From(k)] /\ b[l] = a[From(l)]
  BY <1>1
<1>5. s[a[From(k)]] >= s[a[From(l)]]
  BY <1>3, <1>4 DEF SplitAt
<1> QED
  BY <1>4, <1>5

\* Two places in order: nothing else changes, and they are.
LEMMA InOrderValues ==
  ASSUME NEW n \in Nat, request.size = n, Scores(request.score, n), NEW a \in Orders(n),
         NEW i \in 0 .. n - 1, NEW j \in 0 .. n - 1, i # j
  PROVE  /\ InOrder(a, i, j) \in {a, Swap(a, i, j)}
         /\ InOrder(a, i, j) \in Orders(n)
         /\ request.score[InOrder(a, i, j)[i]] >= request.score[InOrder(a, i, j)[j]]
<1>1. request.score[a[i]] \in Int /\ request.score[a[j]] \in Int
  BY DEF Scores, Orders
<1> QED
  BY <1>1, SwapValues DEF InOrder, Before

\* Putting two places of a range in order disturbs no split outside of it.
LEMMA InOrderKeeps ==
  ASSUME NEW n \in Nat, request.size = n, Scores(request.score, n), NEW a \in Orders(n),
         NEW i \in 0 .. n - 1, NEW j \in 0 .. n - 1, i # j,
         Complete(a, n), NEW lo \in Int, NEW hi \in Int, lo <= i, lo <= j, i < hi, j < hi,
         SplitAt(request.score, a, n, lo), SplitAt(request.score, a, n, hi)
  PROVE  /\ Complete(InOrder(a, i, j), n)
         /\ SplitAt(request.score, InOrder(a, i, j), n, lo)
         /\ SplitAt(request.score, InOrder(a, i, j), n, hi)
<1>1. CASE InOrder(a, i, j) = a
  BY <1>1
<1>2. CASE InOrder(a, i, j) = Swap(a, i, j)
  <2>1. Complete(Swap(a, i, j), n)
    BY SwapComplete
  <2>2. SplitAt(request.score, Swap(a, i, j), n, lo)
    BY SwapSplit
  <2>3. SplitAt(request.score, Swap(a, i, j), n, hi)
    BY SwapSplit
  <2> QED
    BY <1>2, <2>1, <2>2, <2>3
<1> QED
  BY <1>1, <1>2, InOrderValues

\* A cut range splits the whole order on either side of the pivot.
LEMMA CutSplits ==
  ASSUME NEW n \in Nat, NEW s, Scores(s, n), NEW a \in Orders(n),
         NEW lo \in 0 .. n, NEW hi \in 0 .. n, NEW m \in lo .. hi - 1,
         SplitAt(s, a, n, lo), SplitAt(s, a, n, hi), Cut(s, a, lo, m, hi)
  PROVE  SplitAt(s, a, n, m) /\ SplitAt(s, a, n, m + 1)
<1>1. \A i \in 0 .. n - 1 : s[a[i]] \in Int
  BY DEF Scores, Orders
<1>2. m \in 0 .. n - 1
  OBVIOUS
<1>3. \A i \in 0 .. n - 1 : i < m => s[a[i]] >= s[a[m]]
  BY <1>2 DEF SplitAt, Cut
<1>4. \A j \in 0 .. n - 1 : m < j => s[a[m]] >= s[a[j]]
  BY <1>2 DEF SplitAt, Cut
<1>5. \A i, j \in 0 .. n - 1 : i <= m /\ m <= j => s[a[i]] >= s[a[j]]
  BY <1>1, <1>2, <1>3, <1>4
<1> QED
  BY <1>5, <1>2 DEF SplitAt

-------------------------------------------------------------------------------
(* The invariant of partition                                              *)

N == request.size

\* The bounds count from the start of the range, which has room for them.
Bounds ==
  /\ min = request.beam - start
  /\ max = request.limit - start
  /\ pc = "call" => start = 0 /\ end = N
  /\ pc \in {"call", "narrow", "scan"} => kept = N
  /\ RangeHasRoom

\* Nothing is lost, and the candidates before and behind the range stay there.
Divided ==
  /\ Complete(order, N)
  /\ SplitAt(request.score, order, N, start)
  /\ SplitAt(request.score, order, N, end)

ScanInv ==
  pc = "scan" =>
    /\ start + 3 < end
    /\ start <= left /\ left <= right /\ right <= end - 2
    /\ Scanned(request.score, order, start, left, right, end)

KeptInv ==
  pc \in {"sort", "done"} =>
    /\ kept = N \/ request.beam <= kept
    /\ kept <= request.limit
    /\ SplitAt(request.score, order, N, kept)

Inv == TypeOK /\ Bounds /\ Divided /\ ScanInv /\ KeptInv /\ BeamHoldsBest

\* What a request is
LEMMA RequestType ==
  ASSUME request \in Requests
  PROVE  /\ N \in Nat
         /\ request.beam \in Nat \ {0}
         /\ request.limit \in Nat
         /\ request.beam <= request.limit
         /\ Scores(request.score, N)
         /\ Places = 0 .. N - 1
<1>1. /\ request.size \in Nat
      /\ request.beam \in Nat \ {0}
      /\ request.limit \in {2 * request.beam, (request.beam * 4) \div 3}
      /\ request.score \in [0 .. request.size - 1 -> Int]
  BY SelectionConstants
<1>2. request.limit \in Nat /\ request.beam <= request.limit
  BY <1>1
<1> QED
  BY <1>1, <1>2 DEF N, Scores, Places

\* Before partition everything is in its first place.
LEMMA InvInit == Init => Inv
<1> SUFFICES ASSUME Init PROVE Inv
  OBVIOUS
<1>1. request \in Requests
  BY DEF Init
<1>2. TypeOK
  BY <1>1, RequestType DEF Init, TypeOK, N
<1>3. Bounds
  BY <1>1, RequestType DEF Init, Bounds, RangeHasRoom, N
<1>4. \A i \in 0 .. N - 1 : order[i] = i
  BY <1>1, RequestType DEF Init
<1>5. Complete(order, N)
  BY <1>4 DEF Complete
<1>6. SplitAt(request.score, order, N, start) /\ SplitAt(request.score, order, N, end)
  BY <1>1, RequestType DEF Init, SplitAt, N
<1>7. ScanInv /\ KeptInv /\ BeamHoldsBest
  BY DEF Init, ScanInv, KeptInv, BeamHoldsBest
<1> QED
  BY <1>2, <1>3, <1>5, <1>6, <1>7 DEF Inv, Divided

\* partition goes on rightly when part_step returns a pivot inside the range.
LEMMA ReturnedKeeps ==
  ASSUME Inv, pc \in {"narrow", "scan"}, NEW mid \in start .. end - 1,
         UNCHANGED <<request, chosen>>, left' \in Int, right' \in Int,
         order' \in Orders(N), Complete(order', N),
         SplitAt(request.score, order', N, start), SplitAt(request.score, order', N, end),
         Cut(request.score, order', start, mid, end),
         Returned(mid)
  PROVE  Inv'
<1>1. /\ request \in Requests /\ N \in Nat /\ Scores(request.score, N) /\ Places = 0 .. N - 1
      /\ request.beam \in Nat \ {0} /\ request.limit \in Nat /\ request.beam <= request.limit
      /\ start \in 0 .. N /\ end \in 0 .. N /\ min \in Int /\ max \in Int
  BY RequestType DEF Inv, TypeOK, N
<1>2. N' = N /\ Places' = Places /\ request' = request
  BY DEF N, Places
<1>3. /\ min = request.beam - start /\ max = request.limit - start /\ kept = N
      /\ 1 <= min /\ min <= max /\ max <= end - start
  BY DEF Inv, Bounds, RangeHasRoom
<1>8. /\ N \in Int /\ mid \in Int /\ start \in Int /\ end \in Int /\ request.beam \in Int /\ request.limit \in Int
      /\ 0 <= start /\ start <= mid /\ mid < end /\ end <= N /\ 0 < request.beam /\ request.beam <= request.limit
  BY <1>1
<1>4. SplitAt(request.score, order', N, mid) /\ SplitAt(request.score, order', N, mid + 1)
  BY <1>1, CutSplits
<1>5. CASE /\ min <= mid - start /\ mid - start <= max
           /\ pc' = "sort" /\ kept' = mid
           /\ UNCHANGED <<start, end, min, max>>
  <2>1. TypeOK'
    <3>1. kept' \in 0 .. request.size
      BY <1>1, <1>5 DEF N
    <3> QED
      BY <1>1, <1>2, <1>5, <3>1, SMTT(30) DEF TypeOK, Orders, N
  <2>2. Bounds'
    BY <1>1, <1>2, <1>3, <1>5 DEF Bounds, RangeHasRoom
  <2>3. Divided'
    BY <1>2, <1>5 DEF Divided
  <2>4. request.beam <= kept' /\ kept' <= request.limit
    <3>1. kept' = mid /\ min <= mid - start /\ mid - start <= max
      BY <1>5
    <3> QED
      BY <1>3, <1>8, <3>1
  <2>5. KeptInv'
    BY <1>2, <1>4, <1>5, <2>4 DEF KeptInv
  <2> QED
    BY <1>5, <2>1, <2>2, <2>3, <2>5 DEF Inv, ScanInv, BeamHoldsBest
<1>6. CASE mid - start > max /\ GoLeft(mid)
  <2>1. TypeOK'
    <3>1. start' \in 0 .. request.size /\ end' \in 0 .. request.size
      BY <1>1, <1>6 DEF N, GoLeft
    <3>2. min' \in Int /\ max' \in Int /\ pc' = "narrow" /\ kept' \in 0 .. request.size
      BY <1>1, <1>3, <1>6 DEF N, GoLeft
    <3> QED
      BY <1>1, <1>2, <3>1, <3>2, SMTT(30) DEF TypeOK, Orders, N
  <2>2. Bounds'
    BY <1>1, <1>2, <1>3, <1>6 DEF Bounds, RangeHasRoom, GoLeft
  <2>3. Divided'
    BY <1>2, <1>4, <1>6 DEF Divided, GoLeft
  <2> QED
    BY <1>6, <2>1, <2>2, <2>3 DEF Inv, ScanInv, KeptInv, BeamHoldsBest, GoLeft
<1>7. CASE mid - start < min /\ GoRight(mid)
  <2>1. start' = mid + 1 /\ end' = end /\ min' = request.beam - start' /\ max' = request.limit - start'
    <3>1. /\ start' = mid + 1 /\ end' = end
          /\ min' = min - (mid - start + 1) /\ max' = max - (mid - start + 1)
      BY <1>7 DEF GoRight
    <3> QED
      BY <1>8, <1>3, <3>1
  <2>2. \/ min' = 0 /\ pc' = "sort" /\ kept' = mid + 1 /\ kept' = request.beam
        \/ min' > 0 /\ pc' = "narrow" /\ kept' = kept
    <3>1. /\ min' = 0 => pc' = "sort" /\ kept' = mid + 1
          /\ min' # 0 => pc' = "narrow" /\ kept' = kept
      BY <1>7 DEF GoRight
    <3>3. min' \in Int /\ min' >= 0 /\ (min' = 0 => mid + 1 = request.beam)
      BY <1>8, <1>3, <1>7, <2>1
    <3> QED
      BY <3>1, <3>3
  <2>8. start' \in 0 .. N /\ kept' \in 0 .. N /\ min' \in Int /\ max' \in Int
    BY <1>8, <1>3, <2>1, <2>2
  <2>3. TypeOK'
    BY <1>1, <1>2, <2>1, <2>2, <2>8 DEF Inv, TypeOK, Orders, N
  <2>9. min' <= max' /\ max' <= end' - start'
    BY <1>8, <1>3, <2>1
  <2>4. Bounds'
    BY <1>8, <1>2, <1>3, <2>1, <2>2, <2>8, <2>9 DEF Bounds, RangeHasRoom
  <2>5. Divided'
    BY <1>2, <1>4, <2>1 DEF Inv, Divided
  <2>10. pc' = "sort" => kept' = mid + 1 /\ request.beam <= kept' /\ kept' <= request.limit
    BY <1>1, <2>2
  <2>6. KeptInv'
    BY <1>2, <1>4, <2>2, <2>10 DEF KeptInv
  <2> QED
    BY <2>2, <2>3, <2>4, <2>5, <2>6 DEF Inv, ScanInv, BeamHoldsBest
<1> QED
  BY <1>5, <1>6, <1>7 DEF Returned

\* The numbers of a state in which a range is narrowed
LEMMA Numbers ==
  ASSUME Inv
  PROVE  /\ request \in Requests /\ N \in Nat /\ Places = 0 .. N - 1
         /\ request.beam \in Nat \ {0} /\ request.limit \in Nat /\ request.beam <= request.limit
         /\ Scores(request.score, N) /\ order \in Orders(N)
         /\ start \in 0 .. N /\ end \in 0 .. N /\ kept \in 0 .. N
         /\ {min, max, left, right} \subseteq Int
BY RequestType DEF Inv, TypeOK, Orders, N

\* Two candidates in order are cut at the second.
LEMMA CutTwo ==
  ASSUME NEW n \in Nat, NEW s, Scores(s, n), NEW a \in Orders(n), NEW lo \in 0 .. n - 1,
         lo + 2 <= n, s[a[lo]] >= s[a[lo + 1]]
  PROVE  Cut(s, a, lo, lo + 1, lo + 2)
BY DEF Cut

\* So are three.
LEMMA CutThree ==
  ASSUME NEW n \in Nat, NEW s, Scores(s, n), NEW a \in Orders(n), NEW lo \in 0 .. n - 1,
         lo + 3 <= n, s[a[lo]] >= s[a[lo + 1]], s[a[lo + 1]] >= s[a[lo + 2]]
  PROVE  Cut(s, a, lo, lo + 1, lo + 3)
BY DEF Cut

\* Putting two places in order leaves a third one alone; the second place then
\* holds the worse of the two.
LEMMA InOrderThird ==
  ASSUME NEW n \in Nat, request.size = n, Scores(request.score, n), NEW a \in Orders(n),
         NEW i \in 0 .. n - 1, NEW j \in 0 .. n - 1, NEW k \in 0 .. n - 1,
         i # j, k # i, k # j, NEW c, c = InOrder(a, i, j)
  PROVE  /\ c \in Orders(n)
         /\ c[k] = a[k]
         /\ c[j] = a[i] \/ c[j] = a[j]
         /\ request.score[c[i]] >= request.score[c[j]]
         /\ request.score[a[i]] >= request.score[c[j]]
         /\ request.score[a[j]] >= request.score[c[j]]
<1>1. request.score[a[i]] \in Int /\ request.score[a[j]] \in Int
  BY DEF Scores, Orders
<1>2. CASE request.score[a[j]] > request.score[a[i]]
  <2>1. c = Swap(a, i, j)
    BY <1>2 DEF InOrder, Before
  <2>2. c \in Orders(n) /\ c[i] = a[j] /\ c[j] = a[i] /\ c[k] = a[k]
    BY <2>1, SwapValues, SMTT(30)
  <2> QED
    BY <1>1, <1>2, <2>2
<1>3. CASE ~(request.score[a[j]] > request.score[a[i]])
  <2>1. c = a
    BY <1>3 DEF InOrder, Before
  <2> QED
    BY <1>1, <1>3, <2>1
<1> QED
  BY <1>2, <1>3

\* The three comparisons of part_step put three places in order.
LEMMA ThreeInOrder ==
  ASSUME NEW n \in Nat, request.size = n, Scores(request.score, n), NEW a \in Orders(n),
         NEW i \in 0 .. n - 1, NEW j \in 0 .. n - 1, NEW k \in 0 .. n - 1,
         i # j, k # i, k # j,
         NEW b, b = InOrder(a, i, j), NEW d, d = InOrder(b, j, k), NEW c, c = InOrder(d, i, j)
  PROVE  /\ request.score[c[i]] >= request.score[c[j]]
         /\ request.score[c[j]] >= request.score[c[k]]
<1>1. b \in Orders(n) /\ request.score[b[i]] >= request.score[b[j]]
  BY InOrderThird
<1>2. /\ d \in Orders(n) /\ d[i] = b[i]
      /\ request.score[d[j]] >= request.score[d[k]]
      /\ request.score[b[j]] >= request.score[d[k]]
  BY <1>1, InOrderThird
<1>3. /\ request.score[b[i]] \in Int /\ request.score[b[j]] \in Int
      /\ request.score[d[k]] \in Int
  BY <1>1, <1>2 DEF Scores, Orders
<1>4. request.score[d[i]] >= request.score[d[k]]
  BY <1>1, <1>2, <1>3
<1>5. d \in Orders(n) /\ c = InOrder(d, i, j)
  BY <1>2
<1>6. /\ c[k] = d[k]
      /\ c[j] = d[i] \/ c[j] = d[j]
      /\ request.score[c[i]] >= request.score[c[j]]
  BY <1>5, InOrderThird, SMTT(60)
<1>7. CASE c[j] = d[i]
  BY <1>4, <1>6, <1>7
<1>8. CASE c[j] = d[j]
  BY <1>2, <1>6, <1>8
<1> QED
  BY <1>6, <1>7, <1>8

\* An order in which nothing is lost and the range [lo, hi) is split off
Held(a, n, lo, hi) ==
  /\ a \in Orders(n)
  /\ Complete(a, n)
  /\ SplitAt(request.score, a, n, lo)
  /\ SplitAt(request.score, a, n, hi)

\* It stays so when two of its places are put in order.
LEMMA InOrderHeld ==
  ASSUME NEW n \in Nat, request.size = n, Scores(request.score, n), NEW a,
         NEW lo \in Int, NEW hi \in Int, NEW i \in Int, lo <= i, i + 1 < hi, 0 <= lo, hi <= n,
         Held(a, n, lo, hi)
  PROVE  Held(InOrder(a, i, i + 1), n, lo, hi)
<1>1. i \in 0 .. n - 1 /\ i + 1 \in 0 .. n - 1 /\ i # i + 1 /\ lo <= i + 1 /\ i < hi
  OBVIOUS
<1>2. a \in Orders(n) /\ Complete(a, n)
  BY DEF Held
<1>3. InOrder(a, i, i + 1) \in Orders(n)
  BY <1>1, <1>2, InOrderValues
<1> QED
  BY <1>1, <1>2, <1>3, InOrderKeeps DEF Held

\* part_step of up to three candidates
LEMMA PartSmallKeeps == Inv /\ PartSmall => Inv'
<1> SUFFICES ASSUME Inv, PartSmall PROVE Inv'
  OBVIOUS
<1>1. /\ pc = "narrow" /\ UNCHANGED <<request, left, right, chosen>>
      /\ left' \in Int /\ right' \in Int
  BY Numbers DEF PartSmall
<1>2. /\ Complete(order, N)
      /\ SplitAt(request.score, order, N, start) /\ SplitAt(request.score, order, N, end)
      /\ min = request.beam - start /\ max = request.limit - start /\ kept = N
      /\ 1 <= min /\ min <= max /\ max <= end - start
  BY <1>1 DEF Inv, Divided, Bounds, RangeHasRoom
<1>0. /\ start \in Int /\ end \in Int /\ N \in Int /\ request' = request
      /\ 0 <= start /\ end <= N
  BY <1>1, Numbers
<1>3. CASE end - start = 1 /\ Returned(end) /\ UNCHANGED order
  <2>1. min = 1 /\ max = 1
    BY <1>2, <1>3, Numbers
  <2>2. pc' = "sort" /\ kept' = end /\ UNCHANGED <<start, end, min, max>>
    BY <1>3, <2>1 DEF Returned
  <2>3. N' = N /\ Places' = Places
    BY <1>1 DEF N, Places
  <2>4. TypeOK'
    BY <1>1, <1>3, <2>2, <2>3, Numbers DEF TypeOK, Orders, N
  <2>5. Bounds' /\ Divided' /\ ScanInv' /\ BeamHoldsBest'
    BY <1>1, <1>2, <1>3, <2>2, <2>3 DEF Bounds, RangeHasRoom, Divided, ScanInv, BeamHoldsBest
  <2>6. request.beam = end /\ end <= request.limit
    BY <1>2, <1>3, <2>1, Numbers
  <2>7. KeptInv'
    BY <1>0, <1>2, <1>3, <2>2, <2>3, <2>6 DEF KeptInv
  <2> QED
    BY <2>4, <2>5, <2>7 DEF Inv
<1>4. CASE /\ end - start = 2
           /\ order' = InOrder(order, start, start + 1)
           /\ Returned(start + 1)
  <2>1. PICK mid \in start .. end - 1 : mid = start + 1
    BY <1>4, Numbers
  <2>9. end - start = 2
    BY <1>4
  <2>2. start \in 0 .. N - 1 /\ start + 1 \in 0 .. N - 1 /\ start + 2 = end /\ start + 2 <= N /\ start # start + 1
    BY <1>0, <2>9
  <2>3. /\ order' \in Orders(N)
        /\ request.score[order'[start]] >= request.score[order'[start + 1]]
    BY <1>4, <2>2, Numbers, InOrderValues DEF N
  <2>4. /\ Complete(order', N)
        /\ SplitAt(request.score, order', N, start) /\ SplitAt(request.score, order', N, end)
    BY <1>2, <1>4, <2>2, Numbers, InOrderKeeps DEF N
  <2>5. Cut(request.score, order', start, mid, end)
    BY <2>1, <2>2, <2>3, Numbers, CutTwo
  <2> QED
    BY <1>1, <1>4, <2>1, <2>3, <2>4, <2>5, ReturnedKeeps
<1>5. CASE /\ end - start = 3
           /\ order' = InOrder(InOrder(InOrder(order, start, start + 1), start + 1, start + 2),
                               start, start + 1)
           /\ Returned(start + 1)
  <2>1. PICK mid \in start .. end - 1 : mid = start + 1
    BY <1>5, Numbers
  <2>9. end - start = 3
    BY <1>5
  <2>2. /\ start \in 0 .. N - 1 /\ start + 1 \in 0 .. N - 1 /\ start + 2 \in 0 .. N - 1
        /\ start + 3 = end /\ start + 3 <= N /\ start # start + 1 /\ start + 1 # start + 2
    BY <1>0, <2>9
  <2> DEFINE b == InOrder(order, start, start + 1)
             d == InOrder(b, start + 1, start + 2)
  <2>3. Held(order, N, start, end)
    BY <1>2, Numbers DEF Held
  <2>10. Held(b, N, start, end)
    BY <1>0, <2>9, <2>3, Numbers, InOrderHeld DEF N
  <2> HIDE DEF b
  <2>11. start + 1 \in Int /\ start + 2 = (start + 1) + 1 /\ start <= start + 1 /\ (start + 1) + 1 < end
    BY <1>0, <2>9
  <2>4. Held(d, N, start, end)
    BY <1>0, <2>10, <2>11, Numbers, InOrderHeld DEF N
  <2> HIDE DEF d
  <2>5. order' = InOrder(d, start, start + 1)
    BY <1>5 DEF b, d
  <2>6. Held(order', N, start, end)
    BY <1>0, <2>4, <2>5, <2>9, Numbers, InOrderHeld DEF N
  <2>7. /\ request.score[order'[start]] >= request.score[order'[start + 1]]
        /\ request.score[order'[start + 1]] >= request.score[order'[start + 2]]
    <3>1. b = InOrder(order, start, start + 1)
      BY DEF b
    <3>2. d = InOrder(b, start + 1, start + 2)
      BY DEF d
    <3>3. start # start + 2 /\ request.size = N
      BY <1>0 DEF N
    <3> QED
      BY <2>2, <2>5, <3>1, <3>2, <3>3, Numbers, ThreeInOrder
  <2>8. Cut(request.score, order', start, mid, end)
    BY <2>1, <2>2, <2>6, <2>7, Numbers, CutThree DEF Held
  <2> QED
    BY <1>1, <1>5, <2>1, <2>6, <2>8, ReturnedKeeps DEF Held
<1> QED
  BY <1>3, <1>4, <1>5 DEF PartSmall

\* Swapping two places of the range loses nothing and keeps it split off.
LEMMA SwapHeld ==
  ASSUME NEW n \in Nat, Scores(request.score, n), NEW a, NEW lo \in Int, NEW hi \in Int,
         NEW i \in Int, NEW j \in Int, lo <= i, lo <= j, i < hi, j < hi, 0 <= lo, hi <= n,
         Held(a, n, lo, hi)
  PROVE  Held(Swap(a, i, j), n, lo, hi)
<1>1. i \in 0 .. n - 1 /\ j \in 0 .. n - 1
  OBVIOUS
<1>2. a \in Orders(n) /\ Complete(a, n)
  BY DEF Held
<1>3. Swap(a, i, j) \in Orders(n) /\ Complete(Swap(a, i, j), n)
  BY <1>1, <1>2, SwapValues, SwapComplete
<1>4. SplitAt(request.score, Swap(a, i, j), n, lo) /\ SplitAt(request.score, Swap(a, i, j), n, hi)
  BY <1>1, <1>2, SwapSplit DEF Held
<1> QED
  BY <1>3, <1>4 DEF Held

\* A step of the scan, which leaves the range alone
LEMMA ScanningKeeps ==
  ASSUME Inv, pc' = "scan", pc \in {"narrow", "scan"},
         UNCHANGED <<request, start, end, min, max, kept, chosen>>,
         Held(order', N, start, end), left' \in Int, right' \in Int, ScanInv'
  PROVE  Inv'
<1>1. N' = N /\ Places' = Places /\ request' = request /\ Places = 0 .. N - 1
  BY Numbers DEF N, Places
<1>2. TypeOK'
  BY <1>1 DEF Inv, TypeOK, Held, Orders
<1>3. Bounds'
  BY <1>1 DEF Inv, Bounds, RangeHasRoom
<1>4. Divided'
  BY <1>1 DEF Held, Divided
<1> QED
  BY <1>2, <1>3, <1>4 DEF Inv, KeptInv, BeamHoldsBest

\* part_step of more candidates begins.
LEMMA PartLargeKeeps == Inv /\ PartLarge => Inv'
<1> SUFFICES ASSUME Inv, PartLarge PROVE Inv'
  OBVIOUS
<1>1. /\ pc = "narrow" /\ pc' = "scan" /\ UNCHANGED <<request, start, end, min, max, kept, chosen>>
      /\ order' = Swap(order, start + (end - start) \div 2, end - 1)
      /\ left' = start /\ right' = end - 2 /\ end - start > 3
  BY DEF PartLarge
<1>2. /\ start \in Int /\ end \in Int /\ N \in Nat /\ 0 <= start /\ end <= N
  BY Numbers
<1>3. Held(order, N, start, end)
  BY Numbers DEF Held, Inv, Divided
<1>4. /\ start + (end - start) \div 2 \in Int /\ start <= start + (end - start) \div 2
      /\ start + (end - start) \div 2 < end /\ end - 1 \in Int /\ start <= end - 1 /\ end - 1 < end
  BY <1>1, <1>2
<1>5. Held(order', N, start, end)
  BY <1>1, <1>2, <1>3, <1>4, Numbers, SwapHeld
<1>6. ScanInv'
  BY <1>1, <1>2 DEF ScanInv, Scanned
<1> QED
  BY <1>1, <1>2, <1>5, <1>6, ScanningKeeps

\* What is known of the range during a scan
LEMMA ScanFacts ==
  ASSUME Inv, pc = "scan"
  PROVE  /\ Held(order, N, start, end)
         /\ Scanned(request.score, order, start, left, right, end)
         /\ start \in Int /\ end \in Int /\ left \in Int /\ right \in Int /\ N \in Nat
         /\ 0 <= start /\ start + 3 < end /\ end <= N
         /\ start <= left /\ left <= right /\ right <= end - 2
         /\ \A i \in 0 .. N - 1 : order[i] \in 0 .. N - 1 /\ request.score[order[i]] \in Int
<1>1. Held(order, N, start, end)
  BY Numbers DEF Held, Inv, Divided
<1>2. Scanned(request.score, order, start, left, right, end)
  BY DEF Inv, ScanInv
<1>3. /\ start \in Int /\ end \in Int /\ left \in Int /\ right \in Int /\ N \in Nat
      /\ 0 <= start /\ end <= N
  BY Numbers
<1>4. start + 3 < end /\ start <= left /\ left <= right /\ right <= end - 2
  BY DEF Inv, ScanInv
<1>5. \A i \in 0 .. N - 1 : order[i] \in 0 .. N - 1 /\ request.score[order[i]] \in Int
  BY Numbers DEF Orders, Scores
<1> QED
  BY <1>1, <1>2, <1>3, <1>4, <1>5

\* A better candidate stays where it is.
LEMMA ScanBetterKeeps == Inv /\ ScanBetter => Inv'
<1> SUFFICES ASSUME Inv, ScanBetter PROVE Inv'
  OBVIOUS
<1>1. /\ pc = "scan" /\ pc' = "scan" /\ UNCHANGED <<request, order, start, end, min, max, kept, chosen>>
      /\ left' = left + 1 /\ right' = right /\ left # right
      /\ request.score[order[left]] > request.score[order[end - 1]]
  BY DEF ScanBetter, Scanning, Before
<1>2. Held(order', N, start, end)
  BY <1>1, ScanFacts
<1>3. Scanned(request.score, order, start, left + 1, right, end)
  <2>1. \A i \in start .. (left + 1) - 1 : i \in start .. left - 1 \/ i = left
    BY <1>1, ScanFacts
  <2> QED
    BY <1>1, <2>1, ScanFacts DEF Scanned
<1>4. ScanInv'
  BY <1>1, <1>3, ScanFacts DEF ScanInv
<1> QED
  BY <1>1, <1>2, <1>4, ScanFacts, ScanningKeeps

\* Any other candidate is exchanged for the last one not yet seen.
LEMMA ScanOtherKeeps == Inv /\ ScanOther => Inv'
<1> SUFFICES ASSUME Inv, ScanOther PROVE Inv'
  OBVIOUS
<1>0. pc = "scan"
  BY DEF ScanOther, Scanning
<1> USE <1>0, ScanFacts
<1>1. /\ pc = "scan" /\ pc' = "scan" /\ UNCHANGED <<request, start, end, min, max, kept, chosen>>
      /\ left' = left /\ right' = right - 1 /\ left # right
      /\ order' = Swap(order, left, right)
      /\ ~(request.score[order[left]] > request.score[order[end - 1]])
  BY DEF ScanOther, Scanning, Before
<1>2. Held(order', N, start, end)
  <2>1. start <= right /\ left < end /\ right < end
    OBVIOUS
  <2> QED
    BY <1>1, <2>1, Numbers, SwapHeld
<1>3. left \in 0 .. N - 1 /\ right \in 0 .. N - 1 /\ order \in Orders(N)
  BY Numbers
<1>4. /\ order'[right] = order[left]
      /\ \A k \in 0 .. N - 1 : k # left /\ k # right => order'[k] = order[k]
  BY <1>1, <1>3 DEF Swap, Orders
<1>5. order'[end - 1] = order[end - 1]
  <2>1. end - 1 \in 0 .. N - 1 /\ end - 1 # left /\ end - 1 # right
    OBVIOUS
  <2> QED
    BY <1>4, <2>1
<1>6. Scanned(request.score, order', start, left, right - 1, end)
  <2>1. ASSUME NEW i \in start .. left - 1
        PROVE  request.score[order'[i]] > request.score[order'[end - 1]]
    <3>1. i \in 0 .. N - 1 /\ i # left /\ i # right
      BY <2>1
    <3> QED
      BY <1>4, <1>5, <2>1, <3>1 DEF Scanned
  <2>2. ASSUME NEW j \in (right - 1) + 1 .. end - 2
        PROVE  ~(request.score[order'[j]] > request.score[order'[end - 1]])
    <3>1. CASE j = right
      BY <1>1, <1>4, <1>5, <3>1
    <3>2. CASE j # right
      <4>1. j \in right + 1 .. end - 2 /\ j \in 0 .. N - 1 /\ j # left
        BY <2>2, <3>2
      <4> QED
        BY <1>4, <1>5, <2>2, <3>2, <4>1 DEF Scanned
    <3> QED
      BY <3>1, <3>2
  <2> QED
    BY <2>1, <2>2 DEF Scanned
<1>7. ScanInv'
  BY <1>1, <1>6 DEF ScanInv
<1> QED
  BY <1>1, <1>2, <1>7, ScanningKeeps

\* The pivot goes between the two sides.
LEMMA PlacePivotKeeps == Inv /\ PlacePivot => Inv'
<1> SUFFICES ASSUME Inv, PlacePivot PROVE Inv'
  OBVIOUS
<1>0. pc = "scan"
  BY DEF PlacePivot
<1> USE <1>0, ScanFacts
<1>1. /\ left = right /\ UNCHANGED <<request, left, right, chosen>> /\ left' \in Int /\ right' \in Int
      /\ order' = Swap(order, end - 1, PivotPlace) /\ Returned(PivotPlace)
  BY DEF PlacePivot
<1>2. PICK last \in 0 .. N - 1 : last = end - 1 /\ last # right
  OBVIOUS
<1>3. order \in Orders(N) /\ right \in 0 .. N - 1
  BY Numbers
<1>4. /\ \A i \in start .. right - 1 : request.score[order[i]] > request.score[order[last]]
      /\ \A j \in right + 1 .. end - 2 : ~(request.score[order[j]] > request.score[order[last]])
  BY <1>1, <1>2 DEF Scanned
<1>5. PICK mid \in start .. end - 1 :
        /\ mid = PivotPlace /\ mid \in 0 .. N - 1 /\ mid \in {right, right + 1}
        /\ mid = right <=> request.score[order[last]] > request.score[order[right]]
  BY <1>2 DEF PivotPlace, Before
<1>6. order' = Swap(order, last, mid)
  BY <1>1, <1>2, <1>5
<1>7. /\ order'[mid] = order[last] /\ order'[last] = order[mid]
      /\ \A k \in 0 .. N - 1 : k # last /\ k # mid => order'[k] = order[k]
  BY <1>2, <1>3, <1>5, <1>6 DEF Swap, Orders
<1>8. Held(order', N, start, end)
  <2>1. mid \in Int /\ last \in Int /\ start <= mid /\ mid < end /\ start <= last /\ last < end
    BY <1>2, <1>5
  <2> QED
    BY <1>6, <2>1, Numbers, SwapHeld
<1>9. Cut(request.score, order', start, mid, end)
  <2>1. ASSUME NEW i \in start .. mid - 1
        PROVE  request.score[order'[i]] >= request.score[order'[mid]]
    <3>1. i \in 0 .. N - 1 /\ i # mid /\ i # last
      BY <1>2, <1>5, <2>1
    <3>2. request.score[order[i]] >= request.score[order[last]]
      <4>1. CASE i = right
        BY <1>2, <1>3, <1>5, <2>1, <4>1
      <4>2. CASE i # right
        <5>1. i \in start .. right - 1
          BY <1>5, <2>1, <4>2
        <5> QED
          BY <1>2, <1>4, <3>1, <5>1
      <4> QED
        BY <4>1, <4>2
    <3> QED
      BY <1>7, <3>1, <3>2
  <2>2. ASSUME NEW j \in mid + 1 .. end - 1
        PROVE  request.score[order'[mid]] >= request.score[order'[j]]
    <3>1. PICK from \in 0 .. N - 1 : order'[j] = order[from] /\ from = IF j = last THEN mid ELSE j
      BY <1>2, <1>5, <1>7, <2>2
    <3>2. request.score[order[last]] >= request.score[order[from]]
      <4>1. CASE from = last
        BY <4>1
      <4>2. CASE from = right
        BY <1>2, <1>5, <2>2, <3>1, <4>2
      <4>3. CASE from # right /\ from # last
        <5>1. from \in right + 1 .. end - 2
          BY <1>2, <1>5, <2>2, <3>1, <4>3
        <5> QED
          BY <1>2, <1>4, <3>1, <5>1
      <4> QED
        BY <4>1, <4>2, <4>3
    <3> QED
      BY <1>7, <3>1, <3>2
  <2> QED
    BY <2>1, <2>2 DEF Cut
<1> QED
  BY <1>1, <1>5, <1>8, <1>9, ReturnedKeeps DEF Held

\* The callers begin with partition only when there is room for the bounds.
LEMMA CallKeeps == Inv /\ Call => Inv'
<1> SUFFICES ASSUME Inv, Call PROVE Inv'
  OBVIOUS
<1>1. /\ pc = "call" /\ UNCHANGED <<request, order, start, end, min, max, left, right, kept, chosen>>
      /\ pc' = IF N > request.limit THEN "narrow" ELSE "sort"
  BY DEF Call, N
<1>2. N' = N /\ Places' = Places /\ request' = request
  BY <1>1 DEF N, Places
<1>3. /\ start = 0 /\ end = N /\ kept = N /\ min = request.beam - start /\ max = request.limit - start
      /\ request.beam \in Nat \ {0} /\ request.limit \in Nat /\ request.beam <= request.limit /\ N \in Nat
  BY <1>1, Numbers DEF Inv, Bounds
<1>4. TypeOK'
  BY <1>1, <1>2 DEF Inv, TypeOK
<1>5. Bounds'
  BY <1>1, <1>2, <1>3 DEF Bounds, RangeHasRoom
<1>6. Divided'
  BY <1>1, <1>2 DEF Inv, Divided
<1>7. KeptInv'
  BY <1>1, <1>2, <1>3 DEF Inv, Divided, KeptInv
<1> QED
  BY <1>1, <1>4, <1>5, <1>6, <1>7 DEF Inv, ScanInv, BeamHoldsBest

\* What is sorted to the front beats the rest, whether it was kept or not.
LEMMA SortKeeps == Inv /\ Sort => Inv'
<1> SUFFICES ASSUME Inv, Sort PROVE Inv'
  OBVIOUS
<1>1. /\ pc = "sort" /\ pc' = "done" /\ UNCHANGED <<request, order, start, end, min, max, left, right, kept>>
      /\ chosen' \subseteq InFront
      /\ \A x \in chosen', y \in InFront \ chosen' : NotWorse(x, y)
  BY DEF Sort
<1>2. N' = N /\ Places' = Places /\ request' = request
  BY <1>1 DEF N, Places
<1>3. ASSUME NEW x \in chosen', NEW y \in Places \ chosen'
      PROVE  NotWorse(x, y)
  <2>1. CASE y \in InFront
    BY <1>1, <1>3, <2>1
  <2>2. CASE y \notin InFront
    <3>1. PICK i \in 0 .. kept - 1 : x = order[i]
      BY <1>1, <1>3 DEF InFront
    <3>2. PICK j \in 0 .. N - 1 : y = order[j]
      BY <1>3, Numbers DEF Inv, Divided, Complete
    <3>3. kept \in Int /\ i < kept /\ kept <= j /\ i \in 0 .. N - 1
      BY <2>2, <3>1, <3>2, Numbers DEF InFront
    <3>4. SplitAt(request.score, order, N, kept)
      BY <1>1 DEF Inv, KeptInv
    <3> QED
      BY <3>1, <3>2, <3>3, <3>4 DEF SplitAt, NotWorse
  <2> QED
    BY <2>1, <2>2
<1>4. Cardinality(chosen') = IF request.beam < request.size THEN request.beam ELSE request.size
  <2>1. Cardinality(chosen') = IF request.beam < kept THEN request.beam ELSE kept
    BY DEF Sort, BeamLength
  <2>2. /\ {request.beam, kept, request.size} \subseteq Int /\ kept <= request.size
        /\ kept = request.size \/ request.beam <= kept
    BY <1>1, Numbers DEF Inv, KeptInv, N
  <2> QED
    BY <2>1, <2>2
<1>6. BeamHoldsBest'
  BY <1>1, <1>2, <1>3, <1>4 DEF BeamHoldsBest, NotWorse
<1>5. TypeOK' /\ Bounds' /\ Divided' /\ ScanInv' /\ KeptInv'
  BY <1>1, <1>2 DEF Inv, TypeOK, Bounds, RangeHasRoom, Divided, ScanInv, KeptInv
<1> QED
  BY <1>5, <1>6 DEF Inv

-------------------------------------------------------------------------------

\* The invariant is inductive.
LEMMA InvStep == Inv /\ [Next]_vars => Inv'
<1> SUFFICES ASSUME Inv, [Next]_vars PROVE Inv'
  OBVIOUS
<1>1. ASSUME UNCHANGED vars
      PROVE  Inv'
  BY <1>1 DEF Inv, vars, TypeOK, Bounds, RangeHasRoom, Divided, ScanInv, KeptInv, BeamHoldsBest, N, Places,
              NotWorse
<1> QED
  BY <1>1, CallKeeps, PartSmallKeeps, PartLargeKeeps, ScanBetterKeeps, ScanOtherKeeps,
     PlacePivotKeeps, SortKeeps DEF Next, Done

\* Every state of the selection has it.
THEOREM SelectionInvariant == Spec => []Inv
BY InvInit, InvStep, PTL DEF Spec

\* The variables keep their types, the indexes those of the array.
THEOREM SelectionTypes == Spec => []TypeOK
<1>1. Inv => TypeOK
  BY DEF Inv
<1> QED
  BY <1>1, SelectionInvariant, PTL

\* partition never goes on with a range that is too short for its bounds.
THEOREM SelectionRange == Spec => []RangeHasRoom
<1>1. Inv => RangeHasRoom
  BY DEF Inv, Bounds
<1> QED
  BY <1>1, SelectionInvariant, PTL

\* What partition returns has the best candidates in front, loses none, and is
\* within the bounds.
THEOREM SelectionSelects == Spec => []PartitionSelects
<1>1. Inv => PartitionSelects
  BY Numbers DEF Inv, Divided, KeptInv, Complete, SplitAt, PartitionSelects, NotWorse, N
<1> QED
  BY <1>1, SelectionInvariant, PTL

\* The beam is full if it can be, and nothing outside of it is better than
\* something in it.
THEOREM SelectionKeepsBest == Spec => []BeamHoldsBest
<1>1. Inv => BeamHoldsBest
  BY DEF Inv
<1> QED
  BY <1>1, SelectionInvariant, PTL
===============================================================================
