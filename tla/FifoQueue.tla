------------------------------ MODULE FifoQueue ------------------------------
(***************************************************************************)
(* What util::bounded_queue<T> promises its users: a bounded first-in      *)
(* first-out queue that hands every accepted item to exactly one caller.   *)
(* BoundedQueue, the ring buffer with wrapping counters, implements it.    *)
(***************************************************************************)
EXTENDS Naturals, Sequences

CONSTANTS Consumer,  \* threads that take items
          Item,      \* the values that are passed
          NoItem,    \* a consumer that has taken nothing yet
          Capa       \* the size given to initialize()

VARIABLES queue,  \* the accepted items nobody has taken, oldest first
          capa,   \* 0 until initialize(), then Capa
          got     \* the last item each consumer has taken

fifoVars == <<queue, capa, got>>

Init ==
  /\ queue = <<>>
  /\ capa = 0
  /\ got = [c \in Consumer |-> NoItem]

Open ==
  /\ capa = 0
  /\ capa' = Capa
  /\ UNCHANGED <<queue, got>>

Put(v) ==
  /\ Len(queue) < capa
  /\ queue' = Append(queue, v)
  /\ UNCHANGED <<capa, got>>

Take(c) ==
  /\ queue # <<>>
  /\ got' = [got EXCEPT ![c] = Head(queue)]
  /\ queue' = Tail(queue)
  /\ UNCHANGED capa

Next ==
  \/ Open
  \/ \E v \in Item : Put(v)
  \/ \E c \in Consumer : Take(c)

Spec == Init /\ [][Next]_fifoVars
==============================================================================
