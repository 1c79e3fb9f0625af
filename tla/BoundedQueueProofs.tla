------------------------- MODULE BoundedQueueProofs -------------------------
(***************************************************************************)
(* Proofs about BoundedQueue for every set of threads, capacity and width  *)
(* of the counters; and that the ring buffer implements a first-in         *)
(* first-out queue if the counters wrap at a multiple of the capacity: in  *)
(* the program at 2^32, with a capacity of twice the number of worker      *)
(* threads, if that number is a power of two.                              *)
(***************************************************************************)
EXTENDS BoundedQueue, FiniteSetTheorems, SequenceTheorems, TLAPS

\* The distance of the counters is a number below Modulus.
LEMMA SizeType ==
  ASSUME TypeOK
  PROVE  Size \in 0 .. Modulus - 1
  BY QueueConstants DEF TypeOK, Size

\* A counter always selects a slot of the ring.
LEMMA SlotType ==
  ASSUME NEW counter \in Nat
  PROVE  Slot(counter) \in 0 .. Capa - 1
  BY QueueConstants DEF Slot

\* Counters stay in their width.
LEMMA IncType ==
  ASSUME NEW counter \in 0 .. Modulus - 1
  PROVE  Inc(counter) \in 0 .. Modulus - 1
  BY QueueConstants DEF Inc

\* TypeOK is kept by the common part of recieve and waitFor.
LEMMA TakeFrontType ==
  ASSUME TypeOK, NEW c \in Consumer, TakeFront(c)
  PROVE  /\ items' \in [0 .. Capa - 1 -> Item \cup {NoItem}]
         /\ head' \in 0 .. Modulus - 1
         /\ tail' \in 0 .. Modulus - 1
         /\ capa' \in {0, Capa}
         /\ got' \in [Consumer -> Item \cup {NoItem}]
  <1>1. tail \in Nat
    BY QueueConstants DEF TypeOK
  <1>2. items[Slot(tail)] \in Item \cup {NoItem}
    BY <1>1, SlotType DEF TypeOK
  <1>3. QED
    BY <1>2, IncType DEF TakeFront, TypeOK

\* Each operation of the queue keeps the types of its state.
LEMMA TypeStep ==
  ASSUME TypeOK, [Next]_vars
  PROVE  TypeOK'
  <1>1. CASE Initialize
    BY <1>1 DEF TypeOK, Initialize
  <1>2. ASSUME NEW v \in Item, NEW r \in Reserve, Offer(v, r)
        PROVE  TypeOK'
    <2>1. Slot(head) \in 0 .. Capa - 1
      BY SlotType, QueueConstants DEF TypeOK
    <2>2. /\ items' \in [0 .. Capa - 1 -> Item \cup {NoItem}]
          /\ head' \in 0 .. Modulus - 1
      BY <1>2, <2>1, IncType DEF Offer, TypeOK
    <2>3. /\ waiters' \subseteq Consumer
          /\ woken' \subseteq Consumer
          /\ waiters' \cap woken' = {}
      BY <1>2 DEF Offer, NotifyOne, TypeOK
    <2>4. QED
      BY <1>2, <2>2, <2>3 DEF Offer, TypeOK
  <1>3. ASSUME NEW c \in Consumer, Recieve(c)
        PROVE  TypeOK'
    BY <1>3, TakeFrontType DEF Recieve, TypeOK
  <1>4. ASSUME NEW c \in Consumer, WaitFor(c)
        PROVE  TypeOK'
    BY <1>4, TakeFrontType DEF WaitFor, TypeOK, Idle, ringVars
  <1>5. ASSUME NEW c \in Consumer, Resume(c)
        PROVE  TypeOK'
    BY <1>5, TakeFrontType DEF Resume, TypeOK, ringVars
  <1>6. ASSUME NEW c \in Consumer, SpuriousWakeup(c)
        PROVE  TypeOK'
    BY <1>6 DEF SpuriousWakeup, TypeOK, ringVars
  <1>7. CASE UnblockAll
    BY <1>7 DEF UnblockAll, TypeOK, ringVars
  <1>8. CASE UNCHANGED vars
    BY <1>8 DEF TypeOK, vars
  <1>9. QED
    BY <1>1, <1>2, <1>3, <1>4, <1>5, <1>6, <1>7, <1>8 DEF Next

\* The types of the queue's state hold in every reachable state.
THEOREM TypeCorrect == Spec => []TypeOK
  <1>1. Init => TypeOK
    BY QueueConstants DEF Init, TypeOK
  <1>2. QED
    BY <1>1, TypeStep, PTL DEF Spec

-----------------------------------------------------------------------------
\* An accepted item adds one to the size, wherever the counter wraps.
LEMMA SizeAfterOffer ==
  ASSUME TypeOK, head' = Inc(head), tail' = tail, Size < Modulus - 1
  PROVE  Size' = Size + 1
  BY QueueConstants DEF TypeOK, Size, Inc

\* A taken item subtracts one from the size, wherever the counter wraps.
LEMMA SizeAfterTake ==
  ASSUME TypeOK, tail' = Inc(tail), head' = head, Size > 0
  PROVE  Size' = Size - 1
  BY QueueConstants DEF TypeOK, Size, Inc

\* How an operation may change the number of items in the ring.
LEMMA SizeStep ==
  ASSUME TypeOK, SizeWithinCapa, [Next]_vars
  PROVE  /\ SizeWithinCapa'
         /\ Size' \in {Size, Size + 1} \/ Size = Size' + 1
  <1>0. Size \in 0 .. Modulus - 1 /\ capa \in {0, Capa}
    BY SizeType DEF TypeOK
  <1>1. CASE Initialize
    <2>1. Size = 0
      BY <1>0, <1>1 DEF Initialize, SizeWithinCapa
    <2>2. Size' = Size
      BY <1>1 DEF Initialize, Size
    <2>3. QED
      BY <1>1, <2>1, <2>2, QueueConstants DEF Initialize, SizeWithinCapa
  <1>2. ASSUME NEW v \in Item, NEW r \in Reserve, Offer(v, r)
        PROVE  Size' = Size + 1 /\ Size + 1 <= capa /\ capa' = capa
    <2>1. Size < capa
      BY <1>0, <1>2, QueueConstants DEF Offer, Remaining
    <2>2. Size < Modulus - 1
      BY <1>0, <2>1, QueueConstants
    <2>3. Size' = Size + 1
      BY <1>2, <2>2, SizeAfterOffer DEF Offer
    <2>4. QED
      BY <1>0, <1>2, <2>1, <2>3, QueueConstants DEF Offer
  <1>3. ASSUME NEW c \in Consumer, TakeFront(c)
        PROVE  Size' = Size - 1 /\ capa' = capa
    BY <1>3, SizeAfterTake DEF TakeFront
  <1>4. CASE UNCHANGED ringVars
    BY <1>4 DEF ringVars, Size, SizeWithinCapa
  <1>5. ASSUME [Next]_vars, ~Initialize,
               ~(\E v \in Item, r \in Reserve : Offer(v, r)),
               ~(\E c \in Consumer : TakeFront(c))
        PROVE  UNCHANGED ringVars
    BY <1>5 DEF Next, Recieve, WaitFor, Resume, SpuriousWakeup, UnblockAll,
                vars, ringVars
  <1>6. QED
    BY <1>0, <1>1, <1>2, <1>3, <1>4, <1>5, QueueConstants DEF SizeWithinCapa

\* The ring never holds more than its capacity: size()'s assertion.
THEOREM CapacityRespected == Spec => []SizeWithinCapa
  <1>1. Init => SizeWithinCapa
    BY DEF Init, SizeWithinCapa, Size
  <1>2. QED
    BY <1>1, SizeStep, TypeCorrect, PTL DEF Spec

-----------------------------------------------------------------------------
\* The threads on their way out of cv_.wait are finitely many.
LEMMA WokenFinite ==
  ASSUME TypeOK
  PROVE  IsFiniteSet(woken) /\ Cardinality(woken) \in Nat
  BY QueueConstants, FS_Subset, FS_CardinalityType DEF TypeOK

\* One thread more or less on its way out of cv_.wait.
LEMMA WokenCount ==
  ASSUME TypeOK, NEW c
  PROVE  /\ c \notin woken => Cardinality(woken \cup {c}) = Cardinality(woken) + 1
         /\ c \in woken => Cardinality(woken \ {c}) = Cardinality(woken) - 1
  BY WokenFinite, FS_AddElement, FS_RemoveElement

\* Each operation keeps NoLostWakeup: the three that matter are offer, which
\* pays for its item with one notified waiter, waitFor, which only sleeps on
\* an empty ring, and the return of a sleeper, which takes an item with it.
LEMMA NoLostWakeupStep ==
  ASSUME TypeOK, SizeWithinCapa, NoLostWakeup, [Next]_vars
  PROVE  NoLostWakeup'
  <1> USE DEF NoLostWakeup
  <1>0. Size \in Nat /\ Cardinality(woken) \in Nat
    BY SizeType, WokenFinite
  <1>1. ASSUME NEW v \in Item, NEW r \in Reserve, Offer(v, r)
        PROVE  NoLostWakeup'
    <2>1. Size < Modulus - 1
      BY <1>0, <1>1, QueueConstants DEF Offer, Remaining, TypeOK
    <2>2. Size' = Size + 1
      BY <1>1, <2>1, SizeAfterOffer DEF Offer
    <2>3. CASE waiters = {}
      BY <1>1, <2>3 DEF Offer, NotifyOne
    <2>4. CASE waiters # {}
      <3>1. PICK w \in waiters : woken' = woken \cup {w}
        BY <1>1, <2>4 DEF Offer, NotifyOne
      <3>2. Cardinality(woken') = Cardinality(woken) + 1
        BY <3>1, WokenCount DEF TypeOK
      <3>3. QED
        BY <1>0, <2>2, <2>4, <3>2
    <2>5. QED
      BY <2>3, <2>4
  <1>2. ASSUME NEW c \in Consumer, TakeFront(c), UNCHANGED <<waiters, woken>>
        PROVE  NoLostWakeup'
    <2>1. Size' = Size - 1
      BY <1>2, SizeAfterTake DEF TakeFront
    <2>2. QED
      BY <1>0, <1>2, <2>1
  <1>3. ASSUME Size = 0, UNCHANGED ringVars, TypeOK'
        PROVE  NoLostWakeup'
    <2>1. Size' = 0
      BY <1>3 DEF ringVars, Size
    <2>2. Cardinality(woken') \in Nat
      BY <1>3, QueueConstants, FS_Subset, FS_CardinalityType DEF TypeOK
    <2>3. QED
      BY <2>1, <2>2
  <1>4. ASSUME NEW c \in Consumer, Resume(c)
        PROVE  NoLostWakeup'
    <2>1. CASE TakeFront(c) /\ UNCHANGED waiters
      <3>1. Size' = Size - 1
        BY <2>1, SizeAfterTake DEF TakeFront
      <3>2. Cardinality(woken') = Cardinality(woken) - 1
        BY <1>4, WokenCount DEF Resume
      <3>3. QED
        BY <1>0, <2>1, <3>1, <3>2
    <2>2. CASE Size = 0 /\ UNCHANGED ringVars
      BY <1>3, <2>2, TypeStep
    <2>3. QED
      BY <1>4, <2>1, <2>2 DEF Resume, ringVars
  <1>5. ASSUME NEW c \in Consumer, SpuriousWakeup(c)
        PROVE  NoLostWakeup'
    <2>1. Size' = Size
      BY <1>5 DEF SpuriousWakeup, ringVars, Size
    <2>2. Cardinality(woken') = Cardinality(woken) + 1
      BY <1>5, WokenCount DEF SpuriousWakeup, TypeOK
    <2>3. QED
      BY <1>0, <1>5, <2>1, <2>2 DEF SpuriousWakeup
  <1>6. CASE UnblockAll
    BY <1>6 DEF UnblockAll
  <1>7. CASE Initialize \/ UNCHANGED vars
    BY <1>7 DEF Initialize, vars, Size
  <1>8. ASSUME NEW c \in Consumer, WaitFor(c)
        PROVE  NoLostWakeup'
    BY <1>2, <1>3, <1>8, TypeStep DEF WaitFor
  <1>9. ASSUME NEW c \in Consumer, Recieve(c)
        PROVE  NoLostWakeup'
    BY <1>2, <1>9 DEF Recieve
  <1>10. QED
    BY <1>1, <1>4, <1>5, <1>6, <1>7, <1>8, <1>9 DEF Next

\* No wakeup is lost, for any number of threads and any capacity: as long
\* as a thread sleeps in waitFor, each item in the ring has a woken thread.
THEOREM WakeupsSuffice == Spec => []NoLostWakeup
  <1>1. Init => NoLostWakeup
    BY DEF Init, NoLostWakeup
  <1>2. QED
    BY <1>1, NoLostWakeupStep, TypeCorrect, CapacityRespected, PTL DEF Spec

-----------------------------------------------------------------------------
(* The ring as a queue                                                      *)

\* The counters wrap at a multiple of the capacity.
CapaDivides == \E q \in Nat : Modulus = Capa * q

\* A number is its quotient times the divisor plus its remainder.
LEMMA DivMod ==
  ASSUME NEW c \in Nat \ {0}, NEW x \in Nat
  PROVE  \E q \in Nat : x = c * q + (x % c) /\ x % c \in 0 .. c - 1
  <1>1. x \div c \in Nat /\ x % c \in 0 .. c - 1 /\ x = c * (x \div c) + (x % c)
    OBVIOUS
  <1>2. QED
    BY <1>1

\* A positive multiple is not smaller than what it is a multiple of.
LEMMA Larger ==
  ASSUME NEW c \in Nat, NEW d \in Int, d >= 1
  PROVE  c * d >= c
  <1>1. c * d = c * (d - 1) + c
    OBVIOUS
  <1>2. c * (d - 1) >= 0
    OBVIOUS
  <1>3. QED
    BY <1>1, <1>2

\* Numbers that leave the same remainder are equal or far apart.
LEMMA FarApart ==
  ASSUME NEW c \in Nat \ {0}, NEW p \in Nat, NEW q \in Nat, NEW d \in Int,
         c * q = c * p + d, d < c
  PROVE  d <= 0
  <1>1. SUFFICES ASSUME q - p >= 1 PROVE FALSE
    <2>1. CASE p >= q
      <3>1. c * (p - q) >= 0
        BY <2>1
      <3>2. c * (p - q) = c * p - c * q
        OBVIOUS
      <3>3. QED
        BY <3>1, <3>2
    <2>2. QED
      BY <1>1, <2>1
  <1>2. c * (q - p) >= c
    BY <1>1, Larger
  <1>3. c * (q - p) = c * q - c * p
    OBVIOUS
  <1>4. QED
    BY <1>2, <1>3

\* The remainder is the only small number that differs by a multiple.
LEMMA Remainder ==
  ASSUME NEW c \in Nat \ {0}, NEW q \in Nat, NEW r \in 0 .. c - 1, NEW x \in Nat,
         x = c * q + r
  PROVE  x % c = r
  <1>1. PICK p \in Nat : x = c * p + (x % c) /\ x % c \in 0 .. c - 1
    BY DivMod
  <1>2. r - (x % c) <= 0
    BY <1>1, FarApart, c * p = c * q + (r - (x % c)), r - (x % c) < c
  <1>3. (x % c) - r <= 0
    BY <1>1, FarApart, c * q = c * p + ((x % c) - r), (x % c) - r < c
  <1>4. QED
    BY <1>1, <1>2, <1>3

\* Multiples do not change a remainder.
LEMMA AddMultiple ==
  ASSUME NEW c \in Nat \ {0}, NEW k \in Nat, NEW x \in Nat
  PROVE  (x + c * k) % c = x % c
  <1>1. PICK q \in Nat : x = c * q + (x % c) /\ x % c \in 0 .. c - 1
    BY DivMod
  <1>2. PICK r \in 0 .. c - 1 : r = x % c
    BY <1>1
  <1>3. PICK y \in Nat : y = x + c * k
    <2>1. c * k \in Nat
      OBVIOUS
    <2>2. QED
      BY <2>1
  <1>4. c * (q + k) = c * q + c * k
    OBVIOUS
  <1>5. y = c * (q + k) + r /\ q + k \in Nat
    BY <1>1, <1>2, <1>3, <1>4
  <1>6. y % c = r
    BY <1>5, Remainder
  <1>7. QED
    BY <1>2, <1>3, <1>6

\* Sequences as the functions they are
LEMMA AppendIs ==
  ASSUME NEW S, NEW s \in Seq(S), NEW v \in S
  PROVE  Append(s, v) = [i \in 1 .. Len(s) + 1 |-> IF i <= Len(s) THEN s[i] ELSE v]
  <1>1. Append(s, v) \in [1 .. Len(s) + 1 -> S] /\ Len(s) \in Nat
    BY AppendProperties, LenProperties
  <1>2. ASSUME NEW i \in 1 .. Len(s) + 1
        PROVE  Append(s, v)[i] = IF i <= Len(s) THEN s[i] ELSE v
    BY <1>1, AppendProperties
  <1>3. QED
    BY <1>1, <1>2

LEMMA TailIs ==
  ASSUME NEW S, NEW s \in Seq(S), s # <<>>
  PROVE  Tail(s) = [i \in 1 .. Len(s) - 1 |-> s[i + 1]]
  <1>1. Tail(s) \in [1 .. Len(s) - 1 -> S]
    BY HeadTailProperties, LenProperties
  <1>2. \A i \in 1 .. Len(s) - 1 : Tail(s)[i] = s[i + 1]
    BY HeadTailProperties
  <1>3. QED
    BY <1>1, <1>2

-----------------------------------------------------------------------------
\* A counter that has wrapped selects the slot it would without wrapping.
LEMMA SlotWraps ==
  ASSUME CapaDivides, NEW x \in Nat
  PROVE  Slot(x + Modulus) = Slot(x)
  <1>1. PICK k \in Nat : Modulus = Capa * k
    BY DEF CapaDivides
  <1>2. (x + Capa * k) % Capa = x % Capa
    BY AddMultiple, QueueConstants
  <1>3. QED
    BY <1>1, <1>2 DEF Slot

\* So the ring can be read with counters that never wrap.
LEMMA SlotOfWrapped ==
  ASSUME CapaDivides, NEW x \in Nat, x < Modulus + Modulus
  PROVE  Slot(x % Modulus) = Slot(x)
  <1>1. Modulus \in Nat \ {0}
    BY QueueConstants
  <1>2. CASE x < Modulus
    <2>1. x % Modulus = x
      BY <1>1, <1>2
    <2>2. QED
      BY <2>1
  <1>3. CASE x >= Modulus
    <2>1. x - Modulus \in 0 .. Modulus - 1 /\ x = Modulus * 1 + (x - Modulus)
      BY <1>1, <1>3
    <2>2. x % Modulus = x - Modulus
      BY <1>1, <2>1, Remainder
    <2>3. Slot((x - Modulus) + Modulus) = Slot(x - Modulus)
      BY <2>1, SlotWraps
    <2>4. (x - Modulus) + Modulus = x
      BY <1>1
    <2>5. QED
      BY <2>2, <2>3, <2>4
  <1>4. QED
    BY <1>1, <1>2, <1>3

\* Items that are in the ring at the same time have slots of their own.
LEMMA SlotsDiffer ==
  ASSUME NEW x \in Nat, NEW y \in Nat, x < y, y - x < Capa
  PROVE  Slot(x) # Slot(y)
  <1>1. PICK p \in Nat : x = Capa * p + (x % Capa) /\ x % Capa \in 0 .. Capa - 1
    BY DivMod, QueueConstants
  <1>2. PICK q \in Nat : y = Capa * q + (y % Capa) /\ y % Capa \in 0 .. Capa - 1
    BY DivMod, QueueConstants
  <1>3. SUFFICES ASSUME x % Capa = y % Capa PROVE FALSE
    BY DEF Slot
  <1>4. Capa * q = Capa * p + (y - x)
    <2>1. Capa * p \in Int /\ Capa * q \in Int
      BY QueueConstants
    <2>2. QED
      BY <1>1, <1>2, <1>3, <2>1
  <1>5. QED
    BY <1>4, FarApart, QueueConstants

-----------------------------------------------------------------------------
\* The sequence in the ring, by counters that do not wrap.
LEMMA ContentsPlain ==
  ASSUME CapaDivides, TypeOK
  PROVE  /\ Contents \in Seq(Item \cup {NoItem})
         /\ Len(Contents) = Size
         /\ Contents = [i \in 1 .. Size |-> items[Slot(tail + i - 1)]]
         /\ Size \in Nat /\ tail \in Nat /\ head \in Nat
  <1>1. Size \in 0 .. Modulus - 1 /\ tail \in 0 .. Modulus - 1 /\ head \in Nat
    BY SizeType, QueueConstants DEF TypeOK
  <1>2. ASSUME NEW i \in 1 .. Size
        PROVE  /\ Slot((tail + i - 1) % Modulus) = Slot(tail + i - 1)
               /\ items[Slot(tail + i - 1)] \in Item \cup {NoItem}
    <2>1. tail + i - 1 \in Nat /\ tail + i - 1 < Modulus + Modulus
      BY <1>1, QueueConstants
    <2>2. Slot(tail + i - 1) \in 0 .. Capa - 1
      BY <2>1, SlotType
    <2>3. QED
      BY <2>1, <2>2, SlotOfWrapped DEF TypeOK
  <1>3. Contents = [i \in 1 .. Size |-> items[Slot(tail + i - 1)]]
    BY <1>2 DEF Contents
  <1>4. Contents \in [1 .. Size -> Item \cup {NoItem}]
    BY <1>2, <1>3
  <1>5. Size \in Nat
    BY <1>1, QueueConstants
  <1>6. Contents \in Seq(Item \cup {NoItem}) /\ Len(Contents) = Size
    BY <1>4, <1>5
  <1>7. QED
    BY <1>1, <1>3, <1>5, <1>6, QueueConstants

\* The same of the state after a step
LEMMA ContentsAfter ==
  CapaDivides /\ TypeOK'
    => Contents' = [i \in 1 .. Size' |-> items'[Slot(tail' + i - 1)]]
  <1>1. CapaDivides /\ TypeOK => Contents = [i \in 1 .. Size |-> items[Slot(tail + i - 1)]]
    BY ContentsPlain
  <1>2. CapaDivides' <=> CapaDivides
    BY DEF CapaDivides
  <1>3. (CapaDivides /\ TypeOK)' => (Contents = [i \in 1 .. Size |-> items[Slot(tail + i - 1)]])'
    BY <1>1, PTL
  <1>4. QED
    BY <1>2, <1>3 DEF Slot

\* The slot an offer writes to is the one behind the youngest item.
LEMMA HeadSlot ==
  ASSUME CapaDivides, TypeOK
  PROVE  Slot(head) = Slot(tail + Size)
  <1>1. head \in Nat /\ tail \in Nat /\ Modulus \in Nat
    BY QueueConstants DEF TypeOK
  <1>2. CASE head >= tail
    BY <1>1, <1>2, tail + Size = head DEF Size
  <1>3. CASE head < tail
    <2>1. tail + Size = head + Modulus
      BY <1>1, <1>3 DEF Size
    <2>2. QED
      BY <1>1, <2>1, SlotWraps
  <1>4. QED
    BY <1>1, <1>2, <1>3

\* An accepted item comes after those in the ring and overwrites none.
LEMMA OfferPuts ==
  ASSUME CapaDivides, TypeOK, TypeOK', SizeWithinCapa,
         NEW v \in Item, NEW r \in Reserve, Offer(v, r)
  PROVE  Fifo!Put(v)
  <1>0. Size \in 0 .. Modulus - 1 /\ capa \in {0, Capa} /\ tail \in Nat /\ r \in Nat
    BY SizeType, QueueConstants DEF TypeOK
  <1>1. Size < Capa /\ Size < capa
    BY <1>0, QueueConstants DEF Offer, Remaining
  <1>2. Size' = Size + 1 /\ tail' = tail
    BY <1>0, <1>1, QueueConstants, SizeAfterOffer DEF Offer
  <1>3. Contents' = [i \in 1 .. Size + 1 |-> items'[Slot(tail + i - 1)]]
    <2>1. Contents' = [i \in 1 .. Size' |-> items'[Slot(tail' + i - 1)]]
      BY ContentsAfter
    <2>2. QED
      BY <1>2, <2>1
  <1>4. ASSUME NEW i \in 1 .. Size
        PROVE  items'[Slot(tail + i - 1)] = items[Slot(tail + i - 1)]
    <2>1. Slot(tail + i - 1) # Slot(tail + Size)
      BY <1>0, <1>1, SlotsDiffer, tail + i - 1 \in Nat, tail + Size \in Nat,
         tail + i - 1 < tail + Size, (tail + Size) - (tail + i - 1) < Capa, QueueConstants
    <2>2. Slot(tail + i - 1) \in 0 .. Capa - 1
      BY <1>0, SlotType, tail + i - 1 \in Nat
    <2>3. QED
      BY <2>1, <2>2, HeadSlot DEF Offer, TypeOK
  <1>5. items'[Slot(tail + Size)] = v
    <2>1. Slot(tail + Size) \in 0 .. Capa - 1
      BY <1>0, SlotType, QueueConstants, tail + Size \in Nat
    <2>2. QED
      BY <2>1, HeadSlot DEF Offer, TypeOK
  <1>6. Contents' = Append(Contents, v)
    <2>1. Append(Contents, v) =
            [i \in 1 .. Size + 1 |-> IF i <= Size THEN Contents[i] ELSE v]
      BY ContentsPlain, AppendIs, v \in Item \cup {NoItem}
    <2>2. ASSUME NEW i \in 1 .. Size + 1
          PROVE  items'[Slot(tail + i - 1)] = IF i <= Size THEN Contents[i] ELSE v
      <3>1. CASE i <= Size
        BY <1>0, <1>4, <3>1, ContentsPlain
      <3>2. CASE i = Size + 1
        BY <1>0, <1>5, <3>2, tail + i - 1 = tail + Size
      <3>3. QED
        BY <1>0, <3>1, <3>2
    <2>3. QED
      BY <1>3, <2>1, <2>2
  <1>7. QED
    BY <1>1, <1>6, ContentsPlain DEF Fifo!Put, Offer

\* Who takes an item takes the oldest, and leaves the others as they are.
LEMMA TakeFrontTakes ==
  ASSUME CapaDivides, TypeOK, TypeOK', NEW c \in Consumer, TakeFront(c)
  PROVE  Fifo!Take(c)
  <1>0. Size \in Nat /\ Size > 0 /\ tail \in 0 .. Modulus - 1 /\ Modulus \in Nat
    BY SizeType, QueueConstants DEF TypeOK, TakeFront
  <1>1. Size' = Size - 1
    BY <1>0, SizeAfterTake DEF TakeFront
  <1>2. Contents' = [i \in 1 .. Size - 1 |-> items[Slot(Inc(tail) + i - 1)]]
    <2>1. Contents' = [i \in 1 .. Size' |-> items'[Slot(tail' + i - 1)]]
      BY ContentsAfter
    <2>2. tail' = Inc(tail) /\ items' = items
      BY DEF TakeFront
    <2>3. QED
      BY <1>1, <2>1, <2>2
  <1>3. ASSUME NEW i \in 1 .. Size - 1
        PROVE  Slot(Inc(tail) + i - 1) = Slot(tail + i)
    <2>1. CASE tail = Modulus - 1
      <3>1. Inc(tail) + i - 1 = i - 1 /\ tail + i = (i - 1) + Modulus /\ i - 1 \in Nat
        BY <1>0, <2>1 DEF Inc
      <3>2. QED
        BY <3>1, SlotWraps
    <2>2. CASE tail # Modulus - 1
      <3>1. Inc(tail) + i - 1 = tail + i
        BY <1>0, <2>2 DEF Inc
      <3>2. QED
        BY <3>1
    <2>3. QED
      BY <2>1, <2>2
  <1>4. Contents # <<>> /\ Head(Contents) = items[Slot(tail)]
    BY <1>0, ContentsPlain, 1 \in 1 .. Size, tail + 1 - 1 = tail
  <1>5. Tail(Contents) = [i \in 1 .. Size - 1 |-> Contents[i + 1]]
    BY <1>4, ContentsPlain, TailIs
  <1>6. ASSUME NEW i \in 1 .. Size - 1
        PROVE  Contents[i + 1] = items[Slot(tail + i)]
    BY <1>0, ContentsPlain, i + 1 \in 1 .. Size, tail + (i + 1) - 1 = tail + i
  <1>7. Contents' = Tail(Contents)
    BY <1>2, <1>3, <1>5, <1>6
  <1>8. QED
    BY <1>4, <1>7 DEF Fifo!Take, TakeFront

\* Every step of the ring is a step of the queue, or does not touch it.
LEMMA FifoStep ==
  ASSUME CapaDivides, TypeOK, TypeOK', SizeWithinCapa, [Next]_vars
  PROVE  [Fifo!Next]_(Fifo!fifoVars)
  <1>1. ASSUME NEW v \in Item, NEW r \in Reserve, Offer(v, r)
        PROVE  Fifo!Next
    BY <1>1, OfferPuts DEF Fifo!Next
  <1>2. ASSUME NEW c \in Consumer, TakeFront(c)
        PROVE  Fifo!Next
    BY <1>2, TakeFrontTakes DEF Fifo!Next
  <1>3. CASE Initialize
    <2>1. Contents' = Contents
      BY <1>3 DEF Initialize, Contents, Size, Slot
    <2>2. QED
      BY <1>3, <2>1 DEF Initialize, Fifo!Next, Fifo!Open
  <1>4. CASE UNCHANGED <<ringVars, got>>
    <2>1. Contents' = Contents
      BY <1>4 DEF ringVars, Contents, Size, Slot
    <2>2. QED
      BY <1>4, <2>1 DEF ringVars, Fifo!fifoVars
  <1>5. ASSUME [Next]_vars, ~Initialize,
               ~(\E v \in Item, r \in Reserve : Offer(v, r)),
               ~(\E c \in Consumer : TakeFront(c))
        PROVE  UNCHANGED <<ringVars, got>>
    BY <1>5 DEF Next, Recieve, WaitFor, Resume, SpuriousWakeup, UnblockAll,
                vars, ringVars
  <1>6. QED
    BY <1>1, <1>2, <1>3, <1>4, <1>5

\* The ring buffer is a bounded first-in first-out queue, for every capacity,
\* number of threads and set of values: what offer accepts, recieve and
\* waitFor hand out once and in the same order, over any wrap-around of the
\* counters that does not fall inside the ring.
THEOREM RingIsFifo ==
  ASSUME CapaDivides
  PROVE  Spec => ImplementsFifo
  <1>1. Init => Fifo!Init
    <2>1. SUFFICES ASSUME Init PROVE Fifo!Init
      OBVIOUS
    <2>2. Size = 0
      BY <2>1 DEF Init, Size
    <2>3. Contents = <<>>
      BY <2>2 DEF Contents
    <2>4. QED
      BY <2>1, <2>3 DEF Init, Fifo!Init
  <1>2. CapaDivides /\ TypeOK /\ TypeOK' /\ SizeWithinCapa /\ [Next]_vars
          => [Fifo!Next]_(Fifo!fifoVars)
    BY FifoStep
  <1>3. QED
    BY <1>1, <1>2, TypeCorrect, CapacityRespected, PTL
       DEF Spec, ImplementsFifo, Fifo!Spec
=============================================================================
