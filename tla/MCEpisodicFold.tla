--------------------------- MODULE MCEpisodicFold ---------------------------
(* Instances of EpisodicFold for TLC.                                      *)
EXTENDS EpisodicFold

CONSTANTS t1, t2, k1

MCOneKey == [n \in Node |-> k1]
(* Two episodes written twice each.                                        *)
MCTwoKeys == [n \in Node |-> IF n = 3 \/ n = 4 THEN 2 ELSE 1]
MCRank == [n \in Node |-> n]
Link(s, t, u) == [src |-> s, dst |-> t, uuid |-> u]

(* Two groups whose survivors mention different entities; of the second    *)
(* group the duplicate mentions nothing.                                   *)
MCGroupLinks == {Link(1, t1, 11), Link(2, t2, 21), Link(2, t2, 22),
                 Link(3, t2, 31),
                 Link(5, t1, 51), Link(5, t2, 52)}
(* One duplicate with an edge of its own.                                  *)
MCPairLinks == {Link(1, t1, 11), Link(2, t2, 21), Link(2, t1, 22)}
=============================================================================
