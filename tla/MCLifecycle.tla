------------------------------ MODULE MCLifecycle ------------------------------
(***************************************************************************)
(* Values of the constants of Lifecycle for TLC.                           *)
(***************************************************************************)
EXTENDS Lifecycle

CONSTANTS h1, h2, g1, g2
=============================================================================
