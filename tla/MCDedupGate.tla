----------------------------- MODULE MCDedupGate ----------------------------
(* Instances of DedupGate for TLC.                                         *)
EXTENDS DedupGate

CONSTANTS e1, e2, e3, h1, h2

MCSamePayload == [e \in Episode |-> h1]
MCTwoPayloads == [e \in Episode |-> IF e = e3 THEN h2 ELSE h1]
=============================================================================
