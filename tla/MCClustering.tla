---------------------------- MODULE MCClustering ----------------------------
(* Instances of Clustering for TLC: every graph of five nodes, and of      *)
(* three nodes every spelling of the edges, with and without a loop; read  *)
(* with a snapshot of the five, of three of them, and of none.             *)
EXTENDS Clustering

MCSnapshots == {{}, 1..3, 1..5}
FiveGraphs == SUBSET {p \in (1..5) \X (1..5) : p[1] < p[2]}
ThreeSpelled ==
    {R \cup L : R \in SUBSET {p \in (1..3) \X (1..3) : p[1] # p[2]},
                L \in {{}, {<<2, 2>>}}}
MCRelations == FiveGraphs \cup ThreeSpelled
=============================================================================
