----------------------------- MODULE Clustering -----------------------------
(***************************************************************************)
(* Phase 1 of the dream: synchronous label propagation over the entities   *)
(* of a snapshot (pipeline/dream_phases.py), a measurement that writes     *)
(* nothing (pipeline/dream_apply.py).                                      *)
(*                                                                         *)
(* Entities are numbered in the order of their uuids, so the seed label,   *)
(* the rank of a node in that order, is the node itself.                   *)
(***************************************************************************)
EXTENDS Naturals, FiniteSets, Sequences, FiniteSetsExt

CONSTANTS
    Snapshots,  \* sets of entities a snapshot may hold
    Relations,  \* sets of directed pairs its relations may have as ends
    MinDegrees, \* values of cluster_min_degree
    MaxRounds   \* max_rounds of cluster_graph

ASSUME ClusteringAssumption ==
    /\ \A S \in Snapshots : S \subseteq Nat /\ IsFiniteSet(S)
    /\ \A R \in Relations : R \subseteq Nat \X Nat
    /\ MinDegrees \subseteq Nat
    /\ MaxRounds \in Nat \ {0}

VARIABLES
    stage,      \* where the run is
    entities,   \* the nodes of the snapshot
    adj,        \* their neighbours
    minDegree,  \* the threshold below which a node is pinned
    labels,     \* the labels of the round
    trail       \* the labels of every round so far, before any resolution

vars == <<stage, entities, adj, minDegree, labels, trail>>

Stage == {"reading", "sweeping", "converged", "cycled", "exhausted", "failed"}

TypeOK ==
    /\ stage \in Stage
    /\ adj \in [entities -> SUBSET entities]
    /\ \A u \in entities : \A v \in adj[u] : u # v /\ u \in adj[v]
    /\ labels \in [entities -> entities]
    /\ trail # <<>> /\ \A i \in 1..Len(trail) : trail[i] \in [entities -> entities]

Init ==
    /\ stage = "reading"
    /\ entities = {} /\ adj = <<>> /\ labels = <<>>
    /\ trail = <<<<>>>>
    /\ minDegree \in MinDegrees

-----------------------------------------------------------------------------
(* Undirected; edges to nodes outside the snapshot and loops are dropped.  *)
BuildAdjacency(E, R) ==
    [u \in E |-> {v \in E \ {u} : {<<u, v>>, <<v, u>>} \cap R # {}}]

Pinned == {u \in entities : Cardinality(adj[u]) < minDegree}

(* The nodes a search from u reaches: those of every set that has u and    *)
(* the neighbours of its own.                                              *)
Reachable(u) ==
    {v \in entities :
        \A C \in SUBSET entities :
            u \in C /\ (\A w \in C : adj[w] \subseteq C) => v \in C}

(* The smallest uuid of each node's connected component.                   *)
Component == [u \in entities |-> Min(Reachable(u))]

(* The neighbours that vote.                                               *)
Voters(u) == adj[u] \ Pinned

Tally(l, u, k) == Cardinality({v \in Voters(u) : l[v] = k})

(* The most frequent label among the voters, the smallest of those.        *)
Winner(l, u) ==
    LET heard == {l[v] : v \in Voters(u)}
    IN  Min({k \in heard : \A j \in heard : Tally(l, u, k) >= Tally(l, u, j)})

Sweep(l) ==
    [u \in entities |->
        IF u \in Pinned \/ Voters(u) = {} THEN l[u] ELSE Winner(l, u)]

(* Mutant: the oscillating nodes of all components are one group.          *)
Group_All(u) == 0

(* The group of oscillating nodes u belongs to.                            *)
Group(u) == Component[u]

(* Every oscillating node takes the label of the one with the smallest     *)
(* uuid in its component.                                                  *)
ResolveCycle(l, oscillating) ==
    [u \in entities |->
        IF u \in oscillating
        THEN l[Min({v \in oscillating : Group(v) = Group(u)})]
        ELSE l[u]]

-----------------------------------------------------------------------------
ReadSnapshot(E, R) ==
    /\ stage = "reading"
    /\ entities' = E
    /\ adj' = BuildAdjacency(E, R)
    /\ labels' = [u \in E |-> u]
    /\ trail' = <<labels'>>
    /\ stage' = IF E = {} THEN "converged" ELSE "sweeping"
    /\ UNCHANGED minDegree

(* No connection, or one of the snapshot's queries failed.                 *)
ReadFails ==
    /\ stage = "reading"
    /\ stage' = "failed"
    /\ UNCHANGED <<entities, adj, minDegree, labels, trail>>

(* Mutant: only a fixed point ends the loop.                               *)
Seen_Never(l) == FALSE

(* Mutant: the labels in use are compared, not who has them.               *)
Seen_InUse(l) ==
    \E i \in 1..Len(trail) :
        {trail[i][u] : u \in entities} = {l[u] : u \in entities}

Seen(l) == \E i \in 1..Len(trail) : trail[i] = l

Unchanged(l) == l = trail[Len(trail)]

Swept(l, s) ==
    /\ stage = "sweeping"
    /\ stage' = s
    /\ trail' = Append(trail, l)
    /\ UNCHANGED <<entities, adj, minDegree>>

Converge ==
    /\ Unchanged(Sweep(labels))
    /\ Swept(Sweep(labels), "converged")
    /\ UNCHANGED labels

FindCycle ==
    LET new == Sweep(labels)
    IN  /\ ~Unchanged(new) /\ Seen(new)
        /\ Swept(new, "cycled")
        /\ labels' = ResolveCycle(new, {u \in entities : new[u] # labels[u]})

MoveOn ==
    LET new == Sweep(labels)
    IN  /\ ~Unchanged(new) /\ ~Seen(new)
        /\ Swept(new, IF Len(trail) = MaxRounds THEN "exhausted" ELSE "sweeping")
        /\ labels' = new

Next ==
    \/ \E E \in Snapshots, R \in Relations : ReadSnapshot(E, R)
    \/ ReadFails
    \/ Converge \/ FindCycle \/ MoveOn

Spec == Init /\ [][Next]_vars

-----------------------------------------------------------------------------
(* A community never spans two connected components, in no round and not   *)
(* after a cycle is resolved: the partition would describe a graph that    *)
(* does not exist (cluster_graph, oversized).  A pinned node keeps its own *)
(* label and nobody takes it over (pinned).                                *)
WithinComponents ==
    LET component == Component
    IN  \A u, v \in entities :
            /\ labels[u] = labels[v] => component[u] = component[v]
            /\ u \in Pinned /\ u # v => labels[u] # labels[v]

(* A repeated vector of labels is the one before the last, so the nodes    *)
(* the last round changed are all those that oscillate (cluster_graph      *)
(* compares with the last round only).                                     *)
CyclesHaveLengthTwo ==
    stage = "cycled" =>
        /\ Len(trail) > 2
        /\ trail[Len(trail)] = trail[Len(trail) - 2]

(* The trail is the orbit of the sweep, and only its last vector may have  *)
(* been there before: what converged would never move again, what cycled   *)
(* would repeat itself for ever, and what was stopped had max_rounds       *)
(* sweeps that were all different (cluster_graph).                         *)
TrailIsOrbit ==
    LET last == Len(trail)
    IN  /\ \A i \in 1..(last - 1) : trail[i + 1] = Sweep(trail[i])
        /\ \A i, j \in 1..last : i < j /\ trail[i] = trail[j] =>
                j = last /\ stage \in {"converged", "cycled"}
        /\ stage = "converged" => labels = trail[last] /\ Sweep(labels) = labels
        /\ stage = "cycled" => \E i \in 1..(last - 2) : trail[i] = trail[last]
        /\ stage = "exhausted" => last = MaxRounds + 1 /\ labels = trail[last]

(* The loop ends by itself, never at max_rounds, where the partition would *)
(* depend on where the sweep stopped (cluster_graph, "rounds").            *)
EndsByItself == stage # "exhausted"

(* After a cycle is resolved a further sweep leaves the partition as it is *)
(* (_resolve_cycle: "the partition stops moving").                         *)
ResolvedIsFixed ==
    stage = "cycled" =>
        LET next == Sweep(labels)
        IN  \A u, v \in entities : (labels[u] = labels[v]) <=> (next[u] = next[v])

(* With no node pinned, the nodes of a component end in one community      *)
(* (connected_components: no variant "can split a connected component").   *)
ComponentsStayWhole ==
    stage \in {"converged", "cycled"} /\ Pinned = {} =>
        LET component == Component
        IN  \A u, v \in entities :
                component[u] = component[v] => labels[u] = labels[v]
=============================================================================
