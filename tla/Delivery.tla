------------------------------- MODULE Delivery -------------------------------
(***************************************************************************)
(* What the outbox promises for an audit task, without rows, batches or    *)
(* processes: a submitted task is delivered once or lost, and stays so.    *)
(* Nothing promises that it is not lost.                                   *)
(***************************************************************************)
CONSTANT Tasks

VARIABLE fate  \* of a task: "none", "pending", "delivered" or "lost"

\* The tasks of S, all of which were `before', are `after' now, no others.
Turn(S, before, after) ==
  /\ \A t \in S : fate[t] = before
  /\ fate' = [t \in Tasks |-> IF t \in S THEN after ELSE fate[t]]

Init == fate = [t \in Tasks |-> "none"]

Submit(t) == Turn({t}, "none", "pending")

Deliver(t) == Turn({t}, "pending", "delivered")

\* A process that stops takes the rest of its batch along.
Lose(S) == Turn(S, "pending", "lost")

Next ==
  \/ \E t \in Tasks : Submit(t) \/ Deliver(t)
  \/ \E S \in SUBSET Tasks : Lose(S)

Spec == Init /\ [][Next]_fate
=============================================================================
