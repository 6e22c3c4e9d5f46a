--------------------------- MODULE MCMemorySearch ---------------------------
(* Instances of MemorySearch for TLC: more edges than a limit, one without *)
(* a vector, found in orders that put it first, between and last.          *)
EXTENDS MemorySearch, TLC

CONSTANTS r1, r2, t1, t2, g1, g2, g3

MCAsks == [r \in Request |-> IF r = r1 THEN {t1} ELSE {t1, t2}]
MCLimit == [r \in Request |-> IF r = r1 THEN 1 ELSE 2]
MCClose == {<<t1, g1>>, <<t1, g2>>, <<t2, g2>>, <<t2, g3>>}
MCRanked == {<<>>, <<g2, g1>>, <<g3, g1>>, <<g1, g3, g2>>}
MCSymmetry == Permutations(Address)
=============================================================================
