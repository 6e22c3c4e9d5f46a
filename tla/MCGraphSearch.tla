---------------------------- MODULE MCGraphSearch ---------------------------
(* Instances of GraphSearch for TLC: requests whose facts overlap, one     *)
(* with more facts than are embedded, one with a fact twice, one without   *)
(* facts and one whose seeds do not exist.                                 *)
EXTENDS GraphSearch

CONSTANTS r1, r2, r3, r4, t1, t2, t3

MCFacts == [c \in Request |-> CASE c = r1 -> <<t1, t2, t1>>
                               [] c = r2 -> <<t2, t2>>
                               [] c = r3 -> <<t3>>
                               [] OTHER -> <<>>]
MCQuery == [c \in Request |-> IF c = r1 THEN t3 ELSE t1]
MCKnown == Request \ {r4}
MCClose == {<<t3, t2>>, <<t1, t2>>, <<t1, t3>>}
MCWanted == [c \in Request |-> Text \ {t3}]
=============================================================================
