--------------------------- MODULE MCEpisodeQueue ---------------------------
(* Instances of EpisodeQueue for TLC.                                      *)
EXTENDS EpisodeQueue, TLC

CONSTANTS e1, e2, h1

MCSamePayload == [e \in Episode |-> h1]
MCOwnPayload == [e \in Episode |-> e]
MCSymmetry == Permutations(Episode)
=============================================================================
