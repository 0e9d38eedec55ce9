------------------------------ MODULE MCOrderRaces ------------------------------
(***************************************************************************)
(* Values of the constants of OrderRaces for TLC: those of MCOrderStore.   *)
(***************************************************************************)
EXTENDS OrderRaces, MCOrderStore
=============================================================================
