--------------------------- MODULE MCBoundedQueue ---------------------------
(***************************************************************************)
(* Instance of BoundedQueue for TLC.  Modulus stands for 2^32 and is small *)
(* so that both counters wrap many times within the state space.           *)
(***************************************************************************)
EXTENDS BoundedQueue

CONSTANTS c1, c2, c3, x, y

MCConsumer == {c1, c2, c3}
MCItem == {x, y}
MCReserve == {0, 1}
=============================================================================
