---------------------------- MODULE BoundedQueue ----------------------------
(***************************************************************************)
(* util::bounded_queue<T> (util/bounded_queue.h): a ring buffer with two   *)
(* free-running unsigned counters, a mutex and one condition variable.     *)
(*                                                                         *)
(* Every public operation holds mutex_ from its first read to its last     *)
(* write, so each is one step; the exception is waitFor, which releases    *)
(* the mutex inside cv_.wait.  `waiters' are the threads blocked in        *)
(* cv_.wait, `woken' those whose wait has ended and that compete for the   *)
(* mutex again.  notify_one releases one waiter of the library's choice;   *)
(* cv_.wait may also return on its own.                                    *)
(***************************************************************************)
EXTENDS Naturals, FiniteSets, Sequences

CONSTANTS Consumer,  \* threads that call recieve and waitFor
          Item,      \* the values that are passed
          NoItem,    \* the value of a slot that was never written
          Reserve,   \* the values of offer's second argument
          Capa,      \* the size given to initialize()
          Modulus    \* the number of values of an unsigned int counter

ASSUME QueueConstants ==
  /\ IsFiniteSet(Consumer)
  /\ NoItem \notin Item
  /\ Reserve \subseteq Nat
  /\ Capa \in Nat \ {0}
  /\ Modulus \in Nat
  /\ Capa < Modulus

VARIABLES items,    \* the ring: slot -> value
          head,     \* counter of accepted items, wraps at Modulus
          tail,     \* counter of taken items, wraps at Modulus
          capa,     \* 0 until initialize(), then Capa
          waiters,  \* threads blocked in cv_.wait
          woken,    \* threads returning from cv_.wait
          got       \* the last item each consumer has taken

ringVars == <<items, head, tail, capa>>
vars == <<items, head, tail, capa, waiters, woken, got>>

Inc(counter) == IF counter = Modulus - 1 THEN 0 ELSE counter + 1

\* head_ - tail_ in unsigned arithmetic
Size == IF head >= tail THEN head - tail ELSE (head + Modulus) - tail

Remaining == capa - Size

Slot(counter) == counter % Capa

-----------------------------------------------------------------------------

Init ==
  /\ items = [s \in 0 .. Capa - 1 |-> NoItem]
  /\ head = 0
  /\ tail = 0
  /\ capa = 0
  /\ waiters = {}
  /\ woken = {}
  /\ got = [c \in Consumer |-> NoItem]

Initialize ==
  /\ capa = 0
  /\ capa' = Capa
  /\ UNCHANGED <<items, head, tail, waiters, woken, got>>

\* Mutation of NotifyOne: the waiters are never told.
NotifyNobody == UNCHANGED <<waiters, woken>>

NotifyOne ==
  IF waiters = {}
  THEN UNCHANGED <<waiters, woken>>
  ELSE \E w \in waiters : /\ waiters' = waiters \ {w}
                          /\ woken' = woken \cup {w}

\* Mutation of Offer: a waiter is told only when the ring was empty.
OfferNotifiesWhenEmpty(v, reserve) ==
  /\ Remaining > reserve
  /\ items' = [items EXCEPT ![Slot(head)] = v]
  /\ head' = Inc(head)
  /\ IF Size = 0 THEN NotifyOne ELSE NotifyNobody
  /\ UNCHANGED <<tail, capa, got>>

\* An offer that finds too little room returns false and changes nothing.
Offer(v, reserve) ==
  /\ Remaining > reserve
  /\ items' = [items EXCEPT ![Slot(head)] = v]
  /\ head' = Inc(head)
  /\ NotifyOne
  /\ UNCHANGED <<tail, capa, got>>

\* The item leaves the ring; the slot keeps its (moved-from) content.
TakeFront(c) ==
  /\ Size > 0
  /\ got' = [got EXCEPT ![c] = items[Slot(tail)]]
  /\ tail' = Inc(tail)
  /\ UNCHANGED <<items, head, capa>>

Idle(c) == c \notin waiters \cup woken

\* A recieve of an empty queue returns false and changes nothing.
Recieve(c) ==
  /\ Idle(c)
  /\ TakeFront(c)
  /\ UNCHANGED <<waiters, woken>>

\* waitFor as far as its return or its first cv_.wait
WaitFor(c) ==
  /\ Idle(c)
  /\ \/ /\ TakeFront(c)
        /\ UNCHANGED <<waiters, woken>>
     \/ /\ Size = 0
        /\ waiters' = waiters \cup {c}
        /\ UNCHANGED <<ringVars, woken, got>>

\* Mutation of Resume: waitFor with an `if' in place of its `while'.
ResumeWithoutTest(c) ==
  /\ c \in woken
  /\ woken' = woken \ {c}
  /\ got' = [got EXCEPT ![c] = items[Slot(tail)]]
  /\ tail' = Inc(tail)
  /\ UNCHANGED <<items, head, capa, waiters>>

\* waitFor after cv_.wait returned: the loop tests size() again
Resume(c) ==
  /\ c \in woken
  /\ woken' = woken \ {c}
  /\ \/ /\ TakeFront(c)
        /\ UNCHANGED waiters
     \/ /\ Size = 0
        /\ waiters' = waiters \cup {c}
        /\ UNCHANGED <<ringVars, got>>

SpuriousWakeup(c) ==
  /\ c \in waiters
  /\ waiters' = waiters \ {c}
  /\ woken' = woken \cup {c}
  /\ UNCHANGED <<ringVars, got>>

UnblockAll ==
  /\ waiters' = {}
  /\ woken' = woken \cup waiters
  /\ UNCHANGED <<ringVars, got>>

Next ==
  \/ Initialize
  \/ \E v \in Item, r \in Reserve : Offer(v, r)
  \/ \E c \in Consumer : \/ Recieve(c)
                         \/ WaitFor(c)
                         \/ Resume(c)
                         \/ SpuriousWakeup(c)
  \/ UnblockAll

Spec == Init /\ [][Next]_vars

\* A thread that may take the mutex eventually does; nothing obliges anybody
\* to call the queue, and no spurious wakeup is promised.
FairSpec == Spec /\ \A c \in Consumer : WF_vars(Resume(c))

-----------------------------------------------------------------------------
\* Types of the state.
TypeOK ==
  /\ items \in [0 .. Capa - 1 -> Item \cup {NoItem}]
  /\ head \in 0 .. Modulus - 1
  /\ tail \in 0 .. Modulus - 1
  /\ capa \in {0, Capa}
  /\ waiters \subseteq Consumer
  /\ woken \subseteq Consumer
  /\ waiters \cap woken = {}
  /\ got \in [Consumer -> Item \cup {NoItem}]

\* The assertion in size(): the ring never holds more than its capacity,
\* whatever the counters' wrap-around and before initialize() as well.
SizeWithinCapa == Size <= capa

\* No lost wakeup: while some thread sleeps in cv_.wait, every item in the
\* ring has a thread of its own on its way to take it.  One notify_one per
\* accepted item is enough although items may be stolen by other callers.
NoLostWakeup == waiters # {} => Size <= Cardinality(woken)

\* A waiter is served: if there are items and a thread is inside waitFor,
\* then eventually some item is taken.
WaitingThreadIsServed ==
  \A k \in 0 .. Modulus - 1 :
    (tail = k /\ Size > 0 /\ waiters \cup woken # {}) ~> (tail # k)

\* The ring read as a sequence, oldest item first.
Contents == [i \in 1 .. Size |-> items[Slot((tail + i - 1) % Modulus)]]

Fifo == INSTANCE FifoQueue WITH queue <- Contents

\* The ring is a bounded FIFO queue: accepted items come out once each, in
\* the order of the offers, and unblock_all or a wakeup moves none of them.
\* It needs counters that wrap at a multiple of the capacity.
ImplementsFifo == Fifo!Spec
=============================================================================
