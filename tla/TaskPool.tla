------------------------------- MODULE TaskPool -------------------------------
(***************************************************************************)
(* What the training executor promises to the thread that feeds it: each   *)
(* submitted trainer is processed once and handed back once.               *)
(***************************************************************************)
CONSTANT Task

VARIABLE stage  \* Task -> "idle", "pending" (handed over) or "ready"

Init == stage = [t \in Task |-> "idle"]

Move(t, from, to) ==
  /\ stage[t] = from
  /\ stage' = [stage EXCEPT ![t] = to]

Submit(t) == Move(t, "idle", "pending")
Process(t) == Move(t, "pending", "ready")
Collect(t) == Move(t, "ready", "idle")

Next == \E t \in Task : Submit(t) \/ Process(t) \/ Collect(t)

Spec == Init /\ [][Next]_stage
===============================================================================
