---------------------------- MODULE MCEntityMerge ---------------------------
(* Instances of EntityMerge for TLC.  Entities 1, 2 and 3 have one name:   *)
(* 3 restates 2 and 2 restates 1, but 3 does not restate 1.                *)
EXTENDS EntityMerge

CONSTANTS p1, f1, f2

MCNameOf == [n \in Entity |-> IF n = 4 THEN "other" ELSE "one"]
MCTokensOf == [n \in Entity |->
    CASE n = 1 -> 2..11 [] n = 2 -> 1..10 [] n = 3 -> 1..9 [] n = 4 -> 1..9]
MCRank == [n \in Entity |-> n]
Says(s, d, u) == [src |-> s, dst |-> d, fact |-> NoFact, uuid |-> u, invalid |-> FALSE]
States(s, f, d, u, i) == [src |-> s, dst |-> d, fact |-> f, uuid |-> u, invalid |-> i]

(* Every kind of edge there is.                                            *)
MCLinks == {Says(p1, 1, 11), Says(p1, 2, 12), Says(p1, 3, 13),
            States(2, f1, 4, 21, FALSE), States(3, f1, 4, 22, FALSE),
            States(3, f2, 4, 23, FALSE), States(2, f1, 3, 24, FALSE)}
(* Few enough to run on: a mention, parallel facts, a self-loop to be.     *)
MCRunLinks == {Says(p1, 2, 12), States(2, f1, 4, 21, FALSE), States(3, f1, 4, 22, FALSE),
               States(3, f2, 4, 23, FALSE), States(2, f1, 3, 24, FALSE)}
(* Two edges between nodes that become one, and a superseded fact.         *)
MCLoops == {States(2, f1, 3, 24, FALSE), States(2, f2, 3, 25, FALSE)}
MCInvalid == {States(3, f1, 4, 22, TRUE)}
(* A duplicate fact away from the nodes that merge.                        *)
MCAway == {States(2, f1, 3, 24, FALSE), States(4, f1, 1, 22, FALSE), States(4, f1, 1, 23, FALSE)}
=============================================================================
