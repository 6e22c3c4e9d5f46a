------------------------- MODULE MCFalkorSupervisor -------------------------
(***************************************************************************)
(* Instances of FalkorSupervisor: one request of each kind, so that a late *)
(* result meets every state of the circuit.                                *)
(***************************************************************************)
EXTENDS FalkorSupervisor

CONSTANTS p1, s1
=============================================================================
