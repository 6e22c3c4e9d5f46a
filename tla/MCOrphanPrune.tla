---------------------------- MODULE MCOrphanPrune ---------------------------
(* Instances of OrphanPrune for TLC: a MENTIONS of n1 and a RELATES_TO     *)
(* between n1 and n2.                                                      *)
EXTENDS OrphanPrune

CONSTANTS n1, n2, m1, f1

MCEnds == [e \in Edge |-> IF e = m1 THEN {n1} ELSE {n1, n2}]
=============================================================================
