--------------------------- MODULE MCOutboxPublisher ---------------------------
(***************************************************************************)
(* Values of the constants of OutboxPublisher for TLC.                     *)
(***************************************************************************)
EXTENDS OutboxPublisher

CONSTANTS p1, p2

TwoTasks == 1..2
ThreeTasks == 1..3
=============================================================================
