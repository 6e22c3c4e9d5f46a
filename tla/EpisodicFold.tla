---------------------------- MODULE EpisodicFold ----------------------------
(***************************************************************************)
(* Phase 2b of the dream: fold the :Episodic nodes with the same name and  *)
(* content into the oldest of them (pipeline/dedup.py plans the fold,      *)
(* pipeline/dedup_apply.py apply_episodic_plan carries it out).            *)
(*                                                                         *)
(* FalkorDB has no transaction over several queries, so each query is a    *)
(* step of its own, and the process may die or a query fail after any of   *)
(* them.  The nightly cron, the MCP tool and the CLI each start a run in a *)
(* process of their own and nothing keeps two of them apart.               *)
(*                                                                         *)
(* A MENTIONS edge is its two endpoints and its uuid: while an edge moves  *)
(* to the survivor the old and the new edge carry the same uuid, which     *)
(* FalkorDB allows.  Two edges that agree in all three are one member of   *)
(* the set: every query that reads or deletes one takes the other too.     *)
(***************************************************************************)
EXTENDS Naturals, FiniteSets

CONSTANTS
    Node,        \* uuids of :Episodic nodes, those still to be ingested too
    Target,      \* uuids of :Entity nodes
    Edge,        \* uuids of MENTIONS edges
    KeyOf,       \* name and SHA-1 of the content of each node
    Rank,        \* the order of (created_at, uuid)
    Links,       \* the MENTIONS edges the ingestion of each node creates
    Run,         \* processes that run the dream
    NoEdge,      \* no edge is being moved
    MaxRuns,     \* runs are counted up to here, and go on
    MaxCrashes,  \* bound on the number of crashes
    MaxFailures  \* bound on the number of queries that fail

Mention == [src : Node, dst : Target, uuid : Edge]

ASSUME NodeAssumption ==
    /\ Rank \in [Node -> Nat]
    /\ \A m, n \in Node : Rank[m] = Rank[n] => m = n
ASSUME LinkAssumption ==
    /\ Links \subseteq Mention
    /\ \A d, e \in Links : d.uuid = e.uuid => d = e
    /\ NoEdge \notin Mention
ASSUME BoundAssumption ==
    /\ MaxRuns \in Nat \ {0, 1}
    /\ MaxCrashes \in Nat /\ MaxFailures \in Nat

VARIABLES
    born,      \* the nodes ingested so far (history)
    nodes,     \* the :Episodic nodes in the graph
    edges,     \* the MENTIONS edges in the graph
    undo,      \* the rows of dream_episodic_undo_log
    pc,        \* per run, its next query
    redirect,  \* per run, the plan: a survivor for each victim
    rows,      \* per run, the victims' edges as it read them
    drop,      \* per run, the uuids of the redundant edges
    todo,      \* per run, the edges still to be moved
    moving,    \* per run, the edge whose copy has just been created
    runs,
    crashes,
    failures

graph == <<born, nodes, edges>>
budget == <<runs, crashes, failures>>
vars == <<graph, undo, pc, redirect, rows, drop, todo, moving, budget>>

Pc == {"idle", "read", "survivors", "drop", "create", "unlink",
       "undo", "record", "delete"}
NoPlan == [v \in {} |-> v]
Plans == UNION {[V -> Node] : V \in SUBSET Node}

TypeOK ==
    /\ born \subseteq Node /\ nodes \subseteq born
    /\ edges \subseteq Mention
    /\ undo \subseteq [victim : Node, mentions : SUBSET Target]
    /\ pc \in [Run -> Pc]
    /\ redirect \in [Run -> Plans]
    /\ rows \in [Run -> SUBSET Mention]
    /\ drop \in [Run -> SUBSET Edge]
    /\ todo \in [Run -> SUBSET Mention]
    /\ moving \in [Run -> Mention \cup {NoEdge}]
    /\ runs \in 0..MaxRuns
    /\ crashes \in 0..MaxCrashes
    /\ failures \in 0..MaxFailures

LinksOf(n) == {e \in Links : e.src = n}

Init ==
    /\ born \in SUBSET Node
    /\ nodes = born
    /\ edges = UNION {LinksOf(n) : n \in born}
    /\ undo = {}
    /\ pc = [r \in Run |-> "idle"]
    /\ redirect = [r \in Run |-> NoPlan]
    /\ rows = [r \in Run |-> {}]
    /\ drop = [r \in Run |-> {}]
    /\ todo = [r \in Run |-> {}]
    /\ moving = [r \in Run |-> NoEdge]
    /\ runs = 0 /\ crashes = 0 /\ failures = 0

-----------------------------------------------------------------------------
Group(n) == {m \in nodes : KeyOf[m] = KeyOf[n]}

(* _pick_episodic_survivor: the earliest created_at, then the lowest uuid. *)
Survivor(n) ==
    CHOOSE s \in Group(n) : \A m \in Group(n) : Rank[s] <= Rank[m]

Victims == {v \in nodes : Survivor(v) # v}

(* plan_episodic_exact_dups                                                *)
Plan == [v \in Victims |-> Survivor(v)]

Redirected(r) == DOMAIN redirect[r]
SurvivorsOf(r) == {redirect[r][v] : v \in Redirected(r)}

(* Mutant: only the victim's own second edge counts as a duplicate.        *)
Place_OfVictim(r, e) == <<e.src, e.dst>>

(* Where an edge of a victim would come to lie.                            *)
Place(r, e) == <<redirect[r][e.src], e.dst>>

(* Mutant: what any survivor mentions counts for all of them.              *)
Held_ByAnySurvivor(r) ==
    SurvivorsOf(r) \X {e.dst : e \in {d \in edges : d.src \in SurvivorsOf(r)}}

(* surv_targets: what the survivors mention already.                       *)
Held(r) == {<<e.src, e.dst>> : e \in {d \in edges : d.src \in SurvivorsOf(r)}}

(* The choices of rows to move: of the victims' rows at a place that is    *)
(* not held, one, the first one in the order of the reply.  All the others *)
(* are redundant: within a victim, among the victims, or with the survivor.*)
Moves(r, held) ==
    LET Open == {e \in rows[r] : Place(r, e) \notin held}
    IN  {M \in SUBSET Open :
            /\ \A d, e \in M : Place(r, d) = Place(r, e) => d = e
            /\ \A e \in Open : \E d \in M : Place(r, d) = Place(r, e)}

(* to_drop + survivor_dedupe + intra_victim_dup_edges                      *)
Redundant(r, moved) == {e.uuid : e \in rows[r] \ moved}

(* Mutant: read the edges when the undo row is built, after the moves.     *)
Logged_Late(r, v) == {e.dst : e \in {d \in edges : d.src = v}}

(* "mentions" in the undo row of v: the edges as they were first read.     *)
Logged(r, v) == {e.dst : e \in {d \in rows[r] : d.src = v}}

MayFail == failures < MaxFailures /\ failures' = failures + 1

At(r, l) == pc[r] = l
GoTo(r, l) == pc' = [pc EXCEPT ![r] = l]
Return(r) ==
    /\ GoTo(r, "idle")
    /\ redirect' = [redirect EXCEPT ![r] = NoPlan]
    /\ rows' = [rows EXCEPT ![r] = {}]
    /\ drop' = [drop EXCEPT ![r] = {}]
    /\ todo' = [todo EXCEPT ![r] = {}]
    /\ moving' = [moving EXCEPT ![r] = NoEdge]

-----------------------------------------------------------------------------
(* load_graph_snapshot and the plan; without a victim nothing follows.     *)
Start(r) ==
    /\ At(r, "idle") /\ Victims # {}
    /\ redirect' = [redirect EXCEPT ![r] = Plan]
    /\ GoTo(r, "read")
    /\ runs' = IF runs < MaxRuns THEN runs + 1 ELSE runs
    /\ UNCHANGED <<graph, undo, rows, drop, todo, moving, crashes, failures>>

(* _VICTIM_MENTIONS_Q; without a row the run is refused.                   *)
ReadVictims(r) ==
    LET found == {e \in edges : e.src \in Redirected(r)}
    IN  /\ At(r, "read")
        /\ IF found = {} THEN Return(r)
           ELSE /\ rows' = [rows EXCEPT ![r] = found]
                /\ GoTo(r, "survivors")
                /\ UNCHANGED <<redirect, drop, todo, moving>>
        /\ UNCHANGED <<graph, undo, budget>>

ReadVictimsFails(r) ==
    /\ At(r, "read") /\ MayFail
    /\ Return(r)
    /\ UNCHANGED <<graph, undo, runs, crashes>>

Partition(r, held) ==
    \E moved \in Moves(r, held) :
        /\ todo' = [todo EXCEPT ![r] = moved]
        /\ drop' = [drop EXCEPT ![r] = Redundant(r, moved)]
        /\ GoTo(r, "drop")

(* _SURVIVOR_MENTIONS_Q                                                    *)
ReadSurvivors(r) ==
    /\ At(r, "survivors")
    /\ Partition(r, Held(r))
    /\ UNCHANGED <<graph, undo, redirect, rows, moving, budget>>

(* The exception is noted, and the survivors pass for bare.                *)
ReadSurvivorsFails(r) ==
    /\ At(r, "survivors") /\ MayFail
    /\ Partition(r, {})
    /\ UNCHANGED <<graph, undo, redirect, rows, moving, runs, crashes>>

(* _delete_mentions_by_uuid: the uuid alone selects the edges.             *)
Drop(r) ==
    /\ At(r, "drop")
    /\ edges' = {e \in edges : e.uuid \notin drop[r]}
    /\ GoTo(r, "create")
    /\ UNCHANGED <<born, nodes, undo, redirect, rows, drop, todo, moving, budget>>

DropFails(r) ==
    /\ At(r, "drop") /\ MayFail
    /\ GoTo(r, "create")
    /\ UNCHANGED <<graph, undo, redirect, rows, drop, todo, moving, runs, crashes>>

(* The edge on the survivor: the same target, the same uuid.               *)
Moved(r, e) == [e EXCEPT !.src = redirect[r][e.src]]

(* Mutant: the endpoints are read from properties MENTIONS does not have.  *)
CreateEdge_MatchesNothing(r) ==
    \E e \in todo[r] :
        /\ At(r, "create")
        /\ todo' = [todo EXCEPT ![r] = @ \ {e}]
        /\ UNCHANGED <<graph, undo, pc, redirect, rows, drop, moving, budget>>

(* CREATE on the survivor; if that is gone the row is left alone.          *)
CreateEdge(r) ==
    \E e \in todo[r] :
        /\ At(r, "create")
        /\ todo' = [todo EXCEPT ![r] = @ \ {e}]
        /\ IF redirect[r][e.src] \in nodes
           THEN /\ edges' = edges \cup {Moved(r, e)}
                /\ moving' = [moving EXCEPT ![r] = e]
                /\ GoTo(r, "unlink")
           ELSE UNCHANGED <<edges, moving, pc>>
        /\ UNCHANGED <<born, nodes, undo, redirect, rows, drop, budget>>

CreateEdgeFails(r) ==
    \E e \in todo[r] :
        /\ At(r, "create") /\ MayFail
        /\ todo' = [todo EXCEPT ![r] = @ \ {e}]
        /\ UNCHANGED <<graph, undo, pc, redirect, rows, drop, moving, runs, crashes>>

Continue(r) == moving' = [moving EXCEPT ![r] = NoEdge] /\ GoTo(r, "create")

(* Delete the victim's edge, by its endpoints and its uuid.                *)
Unlink(r) ==
    /\ At(r, "unlink")
    /\ edges' = edges \ {moving[r]}
    /\ Continue(r)
    /\ UNCHANGED <<born, nodes, undo, redirect, rows, drop, todo, budget>>

UnlinkFails(r) ==
    /\ At(r, "unlink") /\ MayFail
    /\ Continue(r)
    /\ UNCHANGED <<graph, undo, redirect, rows, drop, todo, runs, crashes>>

RowsDone(r) ==
    /\ At(r, "create") /\ todo[r] = {}
    /\ GoTo(r, "undo")
    /\ UNCHANGED <<graph, undo, redirect, rows, drop, todo, moving, budget>>

(* _build_episodic_undo_rows reads the victims; one that is gone is a      *)
(* missing row, and then nothing is deleted.                               *)
BuildUndo(r) ==
    /\ At(r, "undo")
    /\ IF Redirected(r) \subseteq nodes
       THEN GoTo(r, "record") /\ UNCHANGED <<redirect, rows, drop, todo, moving>>
       ELSE Return(r)
    /\ UNCHANGED <<graph, undo, budget>>

(* record_episodic_undo_sync: one transaction, all the rows.               *)
RecordUndo(r) ==
    /\ At(r, "record")
    /\ undo' = undo \cup
            {[victim |-> v, mentions |-> Logged(r, v)] : v \in Redirected(r)}
    /\ GoTo(r, "delete")
    /\ UNCHANGED <<graph, redirect, rows, drop, todo, moving, budget>>

(* Mutant: a failing undo_writer is noted and the deletion goes on.        *)
UndoFails_GoesOn(r) ==
    /\ At(r, "undo") \/ At(r, "record")
    /\ MayFail
    /\ GoTo(r, "delete")
    /\ UNCHANGED <<graph, undo, redirect, rows, drop, todo, moving, runs, crashes>>

UndoFails(r) ==
    /\ At(r, "undo") \/ At(r, "record")
    /\ MayFail
    /\ Return(r)
    /\ UNCHANGED <<graph, undo, runs, crashes>>

(* DETACH DELETE the victims that mention nothing any more.                *)
DeleteVictims(r) ==
    /\ At(r, "delete")
    /\ nodes' = nodes \ {v \in Redirected(r) : \A e \in edges : e.src # v}
    /\ Return(r)
    /\ UNCHANGED <<born, edges, undo, budget>>

DeleteVictimsFails(r) ==
    /\ At(r, "delete") /\ MayFail
    /\ Return(r)
    /\ UNCHANGED <<graph, undo, runs, crashes>>

(* The process dies; a later run is a fresh process.                       *)
Crash(r) ==
    /\ ~At(r, "idle") /\ crashes < MaxCrashes
    /\ crashes' = crashes + 1
    /\ Return(r)
    /\ UNCHANGED <<graph, undo, runs, failures>>

(* The worker ingests an episode: the node and its MENTIONS edges.         *)
Ingest(n) ==
    /\ n \notin born
    /\ born' = born \cup {n}
    /\ nodes' = nodes \cup {n}
    /\ edges' = edges \cup LinksOf(n)
    /\ UNCHANGED <<undo, pc, redirect, rows, drop, todo, moving, budget>>

Proceed(r) ==
    \/ ReadVictims(r) \/ ReadSurvivors(r) \/ Drop(r) \/ CreateEdge(r)
    \/ Unlink(r) \/ RowsDone(r) \/ BuildUndo(r) \/ RecordUndo(r)
    \/ DeleteVictims(r)
Fails(r) ==
    \/ ReadVictimsFails(r) \/ ReadSurvivorsFails(r) \/ DropFails(r)
    \/ CreateEdgeFails(r) \/ UnlinkFails(r) \/ UndoFails(r)
    \/ DeleteVictimsFails(r)
Next ==
    \/ \E r \in Run : Start(r) \/ Proceed(r) \/ Fails(r) \/ Crash(r)
    \/ \E n \in Node : Ingest(n)

Spec == Init /\ [][Next]_vars

(* A run that is under way goes on, and the cron starts one every night.   *)
FairSpec ==
    Spec /\ \A r \in Run : WF_vars(Start(r)) /\ WF_vars(Proceed(r))

-----------------------------------------------------------------------------
Ingested == UNION {LinksOf(n) : n \in born}

(* An entity an episode mentioned is still mentioned by an episode with    *)
(* that name and content: a fold loses no MENTIONS, whatever it drops as   *)
(* redundant (dedup_apply.py, "Redirects CREATE the new edge BEFORE        *)
(* deleting the old one").                                                 *)
MentionsSurvive ==
    \A i \in Ingested : \E e \in edges :
        KeyOf[e.src] = KeyOf[i.src] /\ e.dst = i.dst

(* One process folds, run after run, and nothing went wrong yet.           *)
Undisturbed == failures = 0 /\ crashes = 0

(* MENTIONS survive every run that nothing disturbs, while episodes arrive,*)
(* and also the first run in which a query fails or the process dies.      *)
FoldKeepsMentions == Undisturbed \/ runs <= 1 => MentionsSurvive

Gone == born \ nodes

(* What was written more than once is never lost altogether: runs that     *)
(* plan from different snapshots, while episodes arrive, do not fold two   *)
(* nodes into each other (the survivor policy of _pick_episodic_survivor). *)
GroupsStay ==
    \A n \in born : Group(n) # {}

(* A node is deleted only after an undo row for it is stored, whatever     *)
(* fails or dies on the way (apply_episodic_plan, "a HARD PRECONDITION for *)
(* deleting the victim nodes").                                            *)
DeletedIsLogged ==
    \A n \in Gone : \E u \in undo : u.victim = n

(* The undo rows of a deleted node name every entity it ever mentioned, so *)
(* that a restore brings the memory back whole (_build_episodic_undo_rows, *)
(* "Capture each victim's full state so the delete can be undone").        *)
UndoRestores ==
    \A n \in Gone : \A e \in LinksOf(n) :
        \E u \in undo : u.victim = n /\ e.dst \in u.mentions

(* Undisturbed runs, one after the other, leave no deleted node without    *)
(* undo rows that restore it.                                              *)
FoldIsUndoable == Undisturbed => UndoRestores

(* No two edges of a survivor lead to the same entity because of a move    *)
(* (apply_episodic_plan, "so the survivor never holds two rows to the same *)
(* target even momentarily").                                              *)
NoMovedDuplicate ==
    \A r \in Run : At(r, "unlink") =>
        \A e \in edges : e.src = redirect[r][moving[r].src]
                         /\ e.dst = moving[r].dst => e.uuid = moving[r].uuid

(* While no query has failed, no move makes a duplicate.                   *)
MovesAddNoDuplicate == failures = 0 => NoMovedDuplicate

(* Without failures every duplicate that mentions something is folded in   *)
(* the end: parallel edges, shared targets and edges of the survivor do not*)
(* keep a victim alive (dedup_apply.py, of its first version: "the phase   *)
(* never converged").  What may stay for ever are duplicates that mention  *)
(* nothing: a run without a single MENTIONS among its victims is refused   *)
(* ("refusing to delete nodes whose edges were never seen").               *)
DuplicatesFold ==
    []Undisturbed =>
        <>[](\A v \in Victims :
                LinksOf(v) = {} /\ \A e \in edges : e.src # v)
=============================================================================
