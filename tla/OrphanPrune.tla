----------------------------- MODULE OrphanPrune ----------------------------
(***************************************************************************)
(* Phase 3 of the dream: delete the :Entity nodes that no edge references  *)
(* and that have no summary (pipeline/dream_phases.py decides which,       *)
(* pipeline/dream_apply.py deletes them one by one).                       *)
(*                                                                         *)
(* The plan is made from three reads, one after the other, and each node   *)
(* takes three more queries; ingestion, the edges phase 2 drops and other  *)
(* runs come in between.  What a run reports of each node it planned to    *)
(* delete is kept, and beside it what it really deleted.                   *)
(***************************************************************************)
EXTENDS Naturals, FiniteSets

CONSTANTS
    Entity,      \* uuids of :Entity nodes, those still to be ingested too
    Edge,        \* the edges ingestion creates
    Mention,     \* those of them that are MENTIONS
    Ends,        \* the entities at the ends of each edge
    Run,         \* processes that run the dream
    NoNode,      \* no node is being looked at
    MaxFailures  \* bound on the number of queries that fail

ASSUME PruneAssumption ==
    /\ Mention \subseteq Edge /\ Ends \in [Edge -> SUBSET Entity]
    /\ NoNode \notin Entity
    /\ MaxFailures \in Nat

VARIABLES
    born,     \* the entities ingested so far (history)
    nodes,    \* the :Entity nodes in the graph
    text,     \* those with a summary that is not blank
    edges,    \* the edges in the graph
    told,     \* the edges ingested so far (history)
    pc,       \* per run, its next query
    forced,   \* per run, force: may it write
    todo,     \* per run, the nodes it still means to delete
    node,     \* per run, the node it is looking at
    outcome,  \* per run, what it counts for each node it is done with
    took,     \* per run, the nodes it really deleted (history)
    failures

graph == <<born, nodes, text, edges, told>>
local == <<pc, forced, todo, node, outcome, took>>
vars == <<graph, local, failures>>

Pc == {"idle", "mentions", "relations", "exists", "orphan", "delete"}
Count == {"none", "deleted", "referenced", "gone", "error"}
NoOutcome == [n \in Entity |-> "none"]

TypeOK ==
    /\ nodes \subseteq born /\ born \subseteq Entity /\ text \subseteq nodes
    /\ edges \subseteq told /\ told \subseteq Edge
    /\ pc \in [Run -> Pc] /\ forced \in [Run -> BOOLEAN]
    /\ todo \in [Run -> SUBSET Entity]
    /\ node \in [Run -> Entity \cup {NoNode}]
    /\ outcome \in [Run -> [Entity -> Count]]
    /\ took \in [Run -> SUBSET Entity]
    /\ failures \in 0..MaxFailures

Init ==
    /\ born \in SUBSET Entity /\ nodes = born /\ text \in SUBSET nodes
    /\ told \in SUBSET {e \in Edge : Ends[e] \subseteq nodes} /\ edges = told
    /\ pc = [r \in Run |-> "idle"]
    /\ forced = [r \in Run |-> FALSE]
    /\ todo = [r \in Run |-> {}]
    /\ node = [r \in Run |-> NoNode]
    /\ outcome = [r \in Run |-> NoOutcome]
    /\ took = [r \in Run |-> {}]
    /\ failures = 0

-----------------------------------------------------------------------------
EndsOf(S) == UNION {Ends[e] : e \in S}

(* NOT (v)--()                                                             *)
Orphan(n) == n \notin EndsOf(edges)

(* Mutant: the edges are not looked at again.                              *)
Deletable_Stale(n) == n \in nodes

(* What the statement that deletes matches.                                *)
Deletable(n) == n \in nodes /\ Orphan(n)

At(r, l) == pc[r] = l
GoTo(r, l) == pc' = [pc EXCEPT ![r] = l]
MayFail == failures < MaxFailures /\ failures' = failures + 1

Idle(r) == GoTo(r, "idle") /\ todo' = [todo EXCEPT ![r] = {}]

(* The snapshot's entities; those with a summary are never planned.        *)
Start(r, f) ==
    /\ At(r, "idle")
    /\ forced' = [forced EXCEPT ![r] = f]
    /\ todo' = [todo EXCEPT ![r] = nodes \ text]
    /\ outcome' = [outcome EXCEPT ![r] = NoOutcome]
    /\ took' = [took EXCEPT ![r] = {}]
    /\ GoTo(r, "mentions")
    /\ UNCHANGED <<graph, node, failures>>

ReadMentions(r) ==
    /\ At(r, "mentions")
    /\ todo' = [todo EXCEPT ![r] = @ \ EndsOf(edges \cap Mention)]
    /\ GoTo(r, "relations")
    /\ UNCHANGED <<graph, forced, node, outcome, took, failures>>

(* Without force the plan is only reported.                                *)
ReadRelations(r) ==
    /\ At(r, "relations")
    /\ LET plan == todo[r] \ EndsOf(edges \ Mention)
       IN  IF forced[r] /\ plan # {}
           THEN GoTo(r, "exists") /\ todo' = [todo EXCEPT ![r] = plan]
           ELSE Idle(r)
    /\ UNCHANGED <<graph, forced, node, outcome, took, failures>>

(* A read that fails ends the run: FAILED.                                 *)
SnapshotFails(r) ==
    /\ At(r, "mentions") \/ At(r, "relations")
    /\ MayFail /\ Idle(r)
    /\ UNCHANGED <<graph, forced, node, outcome, took>>

(* n is done with; on to the next one, or back with the counters.          *)
Done(r, n, c) ==
    /\ outcome' = [outcome EXCEPT ![r] =
            [m \in Entity |-> IF m = n THEN c ELSE outcome[r][m]]]
    /\ node' = [node EXCEPT ![r] = NoNode]
    /\ todo' = [todo EXCEPT ![r] = @ \ {n}]
    /\ GoTo(r, IF todo[r] = {n} THEN "idle" ELSE "exists")

CheckExists(r) ==
    \E n \in todo[r] :
        /\ At(r, "exists")
        /\ IF n \in nodes
           THEN /\ node' = [node EXCEPT ![r] = n] /\ GoTo(r, "orphan")
                /\ UNCHANGED <<todo, outcome>>
           ELSE Done(r, n, "gone")
        /\ UNCHANGED <<graph, forced, took, failures>>

CheckOrphan(r) ==
    /\ At(r, "orphan")
    /\ IF Deletable(node[r])
       THEN GoTo(r, "delete") /\ UNCHANGED <<todo, node, outcome>>
       ELSE Done(r, node[r], "referenced")
    /\ UNCHANGED <<graph, forced, took, failures>>

Take(r) ==
    LET gone == {n \in {node[r]} : Deletable(n)}
    IN  /\ nodes' = nodes \ gone /\ text' = text \ gone
        /\ took' = [took EXCEPT ![r] = @ \cup gone]
        /\ UNCHANGED <<born, edges, told>>

(* Mutant: what is counted is looked up after the DELETE.                  *)
Delete_CountsAfter(r) ==
    /\ At(r, "delete") /\ Take(r)
    /\ Done(r, node[r], IF node[r] \in nodes' THEN "referenced" ELSE "gone")
    /\ UNCHANGED <<forced, failures>>

(* DETACH DELETE, if the node still has no edge; counted in any case.      *)
Delete(r) ==
    /\ At(r, "delete") /\ Take(r) /\ Done(r, node[r], "deleted")
    /\ UNCHANGED <<forced, failures>>

(* A query fails: a count, or the DELETE, which may yet have been done.    *)
QueryFails(r) ==
    /\ MayFail
    /\ \/ \E n \in todo[r] :
            At(r, "exists") /\ Done(r, n, "error") /\ UNCHANGED <<graph, took>>
       \/ At(r, "orphan") /\ Done(r, node[r], "error") /\ UNCHANGED <<graph, took>>
       \/ /\ At(r, "delete") /\ Done(r, node[r], "error")
          /\ Take(r) \/ UNCHANGED <<graph, took>>
    /\ UNCHANGED <<forced>>

(* Ingestion: a node, with a summary or without, a summary, or an edge.    *)
AddEntity(n) ==
    /\ n \notin born
    /\ born' = born \cup {n} /\ nodes' = nodes \cup {n}
    /\ text' \in {text, text \cup {n}}
    /\ UNCHANGED <<edges, told, local, failures>>

Summarize(n) ==
    /\ n \in nodes \ text
    /\ text' = text \cup {n}
    /\ UNCHANGED <<born, nodes, edges, told, local, failures>>

AddLink(e) ==
    /\ e \notin told /\ Ends[e] \subseteq nodes
    /\ edges' = edges \cup {e} /\ told' = told \cup {e}
    /\ UNCHANGED <<born, nodes, text, local, failures>>

(* Phase 2 of some run deletes a RELATES_TO (self-loop or duplicate).      *)
DropLink(e) ==
    /\ e \in edges \ Mention
    /\ edges' = edges \ {e}
    /\ UNCHANGED <<born, nodes, text, told, local, failures>>

Proceed(r) ==
    \/ ReadMentions(r) \/ ReadRelations(r) \/ CheckExists(r)
    \/ CheckOrphan(r) \/ Delete(r)
Next ==
    \/ \E r \in Run, f \in BOOLEAN : Start(r, f)
    \/ \E r \in Run : Proceed(r) \/ SnapshotFails(r) \/ QueryFails(r)
    \/ \E n \in Entity : AddEntity(n) \/ Summarize(n)
    \/ \E e \in Edge : AddLink(e) \/ DropLink(e)

Spec == Init /\ [][Next]_vars

-----------------------------------------------------------------------------
(* No edge ever loses an end: a node that gains an edge between the plan   *)
(* and the deletion is left alone (dream_apply, "re-checks NOT (n)--() in  *)
(* the SAME statement that deletes").                                      *)
EdgesKeepEnds == \A e \in edges : Ends[e] \subseteq nodes

(* A run tells every node it deleted, unless the query's answer was lost:  *)
(* nothing goes that the counters call referenced or gone.                 *)
TakenIsTold ==
    \A r \in Run : \A n \in took[r] : outcome[r][n] \in {"deleted", "error"}

(* A summary is never deleted (dream_phases, "It deletes only nodes that   *)
(* are unreferenced **and** carry no summary text").                       *)
TextStays == [][\A r \in Run : (took'[r] \ took[r]) \cap text = {}]_vars

(* What a run counts as deleted it deleted (_EXISTS_COUNT, "those are      *)
(* different outcomes and collapsing them silently hides a race").         *)
DeletedIsTrue ==
    \A r \in Run : \A n \in Entity : outcome[r][n] = "deleted" => n \in took[r]
=============================================================================
