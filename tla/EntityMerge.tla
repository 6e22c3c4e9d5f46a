----------------------------- MODULE EntityMerge ----------------------------
(***************************************************************************)
(* Phase 2 of the dream: merge the :Entity nodes that have one name and    *)
(* nearly the same summary (pipeline/dedup.py plan_dedup decides which,    *)
(* pipeline/dedup_apply.py apply_plan rewires the graph).                  *)
(*                                                                         *)
(* A plan folds the best pair of a name again and again; each step of that *)
(* loop is a step here, and root follows the chain A -> B -> C as it grows *)
(* (_root_map).  Applying it takes one query after the other: the MENTIONS *)
(* of the victims, their RELATES_TO, the collapse of equal facts, and last *)
(* the victims that have no edge left.  As in EpisodicFold the process may *)
(* die or a query fail in between, and several processes may run at once.  *)
(*                                                                         *)
(* Both kinds of edges are records of one set; a MENTIONS edge starts at   *)
(* an episode and states no fact.                                          *)
(***************************************************************************)
EXTENDS Naturals, FiniteSets

CONSTANTS
    Entity,      \* uuids of :Entity nodes, those still to be ingested too
    Episode,     \* uuids of :Episodic nodes
    Fact,        \* the facts RELATES_TO edges state
    NoFact,      \* what a MENTIONS edge states
    Uuid,        \* uuids of edges
    NameOf,      \* the name of each entity
    TokensOf,    \* the word tokens of the summary of each entity
    Rank,        \* the order of (-len(summary), created_at, uuid)
    Threshold,   \* pipeline.dream.dedup_threshold, in percent
    Links,       \* the edges ingestion creates
    Run,         \* processes that run the dream
    NoEdge,      \* no edge is being moved
    MaxRuns,     \* bound on the number of runs
    MaxCrashes,  \* bound on the number of crashes
    MaxFailures  \* bound on the number of queries that fail

Mention == [src : Episode, dst : Entity, fact : {NoFact}, uuid : Uuid,
            invalid : {FALSE}]
Relation == [src : Entity, dst : Entity, fact : Fact, uuid : Uuid,
             invalid : BOOLEAN]
Link == Mention \cup Relation

ASSUME EntityAssumption ==
    /\ Rank \in [Entity -> Nat]
    /\ \A m, n \in Entity : Rank[m] = Rank[n] => m = n
    /\ Episode \cap Entity = {}
ASSUME LinkAssumption ==
    /\ Links \subseteq Link /\ NoEdge \notin Link
    /\ \A d, e \in Links : d.uuid = e.uuid => d = e
ASSUME BoundAssumption ==
    /\ MaxRuns \in Nat /\ MaxCrashes \in Nat /\ MaxFailures \in Nat

VARIABLES
    born,     \* the entities ingested so far (history)
    told,     \* the edges ingested so far (history)
    nodes,    \* the :Entity nodes in the graph
    edges,    \* the MENTIONS and RELATES_TO edges in the graph
    pc,       \* per run, its phase
    rest,     \* per run, the nodes of its snapshot that are not folded
    root,     \* per run, the survivor of each victim
    todo,     \* per run, the rows of the phase still to be moved
    moving,   \* per run, the row whose redirected edge was just created
    runs,
    crashes,
    failures

graph == <<born, told, nodes, edges>>
local == <<pc, rest, root, todo, moving>>
budget == <<runs, crashes, failures>>
vars == <<graph, local, budget>>

Pc == {"idle", "plan", "mentions", "relations", "delete"}
NoPlan == [v \in {} |-> v]
Plans == UNION {[V -> Entity] : V \in SUBSET Entity}

TypeOK ==
    /\ born \subseteq Entity /\ nodes \subseteq born
    /\ told \subseteq Links /\ edges \subseteq Link
    /\ pc \in [Run -> Pc]
    /\ rest \in [Run -> SUBSET Entity]
    /\ root \in [Run -> Plans]
    /\ todo \in [Run -> SUBSET Link]
    /\ moving \in [Run -> Link \cup {NoEdge}]
    /\ runs \in 0..MaxRuns
    /\ crashes \in 0..MaxCrashes
    /\ failures \in 0..MaxFailures

Connects(e, S) == e.src \in Episode \cup S /\ e.dst \in S

Init ==
    /\ born \in SUBSET Entity
    /\ told = {e \in Links : Connects(e, born)}
    /\ nodes = born /\ edges = told
    /\ pc = [r \in Run |-> "idle"]
    /\ rest = [r \in Run |-> {}]
    /\ root = [r \in Run |-> NoPlan]
    /\ todo = [r \in Run |-> {}]
    /\ moving = [r \in Run |-> NoEdge]
    /\ runs = 0 /\ crashes = 0 /\ failures = 0

-----------------------------------------------------------------------------
(* jaccard as a fraction; two empty summaries count as identical.          *)
Common(a, b) ==
    IF TokensOf[a] \cup TokensOf[b] = {} THEN 1
    ELSE Cardinality(TokensOf[a] \cap TokensOf[b])
Together(a, b) ==
    IF TokensOf[a] \cup TokensOf[b] = {} THEN 1
    ELSE Cardinality(TokensOf[a] \cup TokensOf[b])

(* Two nodes of one name whose summaries reach the threshold.              *)
Reaches(a, b) ==
    /\ NameOf[a] = NameOf[b]
    /\ 100 * Common(a, b) >= Threshold * Together(a, b)

(* _pick_survivor: the longest summary, then the oldest, then the uuid.    *)
Keeper(a, b) == IF Rank[a] < Rank[b] THEN a ELSE b

Pairs(S) == {p \in S \X S : Rank[p[1]] < Rank[p[2]] /\ Reaches(p[1], p[2])}

(* The pairs with the highest score; the first of them in the order of the *)
(* reply is folded.                                                        *)
Best(S) ==
    {p \in Pairs(S) : \A q \in Pairs(S) :
        Common(q[1], q[2]) * Together(p[1], p[2])
            <= Common(p[1], p[2]) * Together(q[1], q[2])}

Victims(r) == DOMAIN root[r]
Root(r, n) == IF n \in Victims(r) THEN root[r][n] ELSE n

(* v is folded into k, and with it what was folded into v.                 *)
Folded(r, v, k) ==
    [n \in Victims(r) \cup {v} |-> IF Root(r, n) = v THEN k ELSE root[r][n]]

IsMention(e) == e.src \in Episode

(* The edge as it is created anew: apply_plan carries over the fact, but   *)
(* not invalid_at.                                                         *)
Redirected(r, e) ==
    [src |-> Root(r, e.src), dst |-> Root(r, e.dst),
     fact |-> e.fact, uuid |-> e.uuid, invalid |-> FALSE]
Touched(r, e) == e.dst \in Victims(r) \/ e.src \in Victims(r)
SelfLoop(r, e) == Root(r, e.src) = Root(r, e.dst)

MayFail == failures < MaxFailures /\ failures' = failures + 1
At(r, l) == pc[r] = l
GoTo(r, l) == pc' = [pc EXCEPT ![r] = l]
NextRow(r) == At(r, "mentions") \/ At(r, "relations")
RowsDone(r) == todo[r] = {} /\ moving[r] = NoEdge

-----------------------------------------------------------------------------
(* load_graph_snapshot; only a snapshot with a pair to fold leads anywhere.*)
Start(r) ==
    /\ At(r, "idle") /\ runs < MaxRuns /\ Pairs(nodes) # {}
    /\ rest' = [rest EXCEPT ![r] = nodes]
    /\ GoTo(r, "plan")
    /\ runs' = runs + 1
    /\ UNCHANGED <<graph, root, todo, moving, crashes, failures>>

(* plan_dedup: fold the best pair of what is left.                         *)
Fold(r) ==
    /\ At(r, "plan")
    /\ \E p \in Best(rest[r]) :
        LET k == Keeper(p[1], p[2])
            v == CHOOSE n \in {p[1], p[2]} : n # k
        IN  /\ root' = [root EXCEPT ![r] = Folded(r, v, k)]
            /\ rest' = [rest EXCEPT ![r] = @ \ {v}]
    /\ UNCHANGED <<graph, pc, todo, moving, budget>>

MentionRows(r) == {e \in edges : IsMention(e) /\ e.dst \in Victims(r)}
RelationRows(r) == {e \in edges : ~IsMention(e) /\ Touched(r, e)}

(* Phase A begins; a read that fails passes for a read without rows.       *)
ReadMentions(r) ==
    /\ At(r, "plan") /\ Pairs(rest[r]) = {}
    /\ todo' = [todo EXCEPT ![r] = MentionRows(r)]
    /\ GoTo(r, "mentions")
    /\ UNCHANGED <<graph, rest, root, moving, budget>>

ReadMentionsFails(r) ==
    /\ At(r, "plan") /\ Pairs(rest[r]) = {} /\ MayFail
    /\ GoTo(r, "mentions")
    /\ UNCHANGED <<graph, rest, root, todo, moving, runs, crashes>>

(* Phase B                                                                 *)
ReadRelations(r) ==
    /\ At(r, "mentions") /\ RowsDone(r)
    /\ todo' = [todo EXCEPT ![r] = RelationRows(r)]
    /\ GoTo(r, "relations")
    /\ UNCHANGED <<graph, rest, root, moving, budget>>

ReadRelationsFails(r) ==
    /\ At(r, "mentions") /\ RowsDone(r) /\ MayFail
    /\ GoTo(r, "relations")
    /\ UNCHANGED <<graph, rest, root, todo, moving, runs, crashes>>

Take(r, e) ==
    /\ e \in todo[r] /\ moving[r] = NoEdge
    /\ todo' = [todo EXCEPT ![r] = @ \ {e}]

(* CREATE the MENTIONS at the survivor; its DELETE follows only if the     *)
(* CREATE matched both endpoints.                                          *)
CreateMention(r) ==
    \E e \in todo[r] :
        /\ At(r, "mentions") /\ Take(r, e)
        /\ IF Root(r, e.dst) \in nodes
           THEN /\ edges' = edges \cup {Redirected(r, e)}
                /\ moving' = [moving EXCEPT ![r] = e]
           ELSE UNCHANGED <<edges, moving>>
        /\ UNCHANGED <<born, told, nodes, pc, rest, root, budget>>

(* Mutant: skip the edge, as Phase A does with rows it need not move.      *)
DropSelfLoop_Skips(r) ==
    \E e \in todo[r] :
        /\ At(r, "relations") /\ Take(r, e) /\ SelfLoop(r, e)
        /\ UNCHANGED <<graph, pc, rest, root, moving, budget>>

(* An edge whose two ends become one node is deleted.                      *)
DropSelfLoop(r) ==
    \E e \in todo[r] :
        /\ At(r, "relations") /\ Take(r, e) /\ SelfLoop(r, e)
        /\ edges' = edges \ {e}
        /\ UNCHANGED <<born, told, nodes, pc, rest, root, moving, budget>>

(* CREATE the RELATES_TO, if both ends are there; its DELETE follows in    *)
(* any case.                                                               *)
CreateRelation(r) ==
    \E e \in todo[r] :
        /\ At(r, "relations") /\ Take(r, e) /\ ~SelfLoop(r, e)
        /\ edges' = IF {Root(r, e.src), Root(r, e.dst)} \subseteq nodes
                    THEN edges \cup {Redirected(r, e)} ELSE edges
        /\ moving' = [moving EXCEPT ![r] = e]
        /\ UNCHANGED <<born, told, nodes, pc, rest, root, budget>>

(* A CREATE or the DELETE of a self-loop fails: on to the next row.        *)
RowFails(r) ==
    \E e \in todo[r] :
        /\ NextRow(r) /\ Take(r, e) /\ MayFail
        /\ UNCHANGED <<graph, pc, rest, root, moving, runs, crashes>>

(* DELETE the old edge, by its endpoints and its uuid.                     *)
Unlink(r) ==
    /\ NextRow(r) /\ moving[r] # NoEdge
    /\ edges' = edges \ {moving[r]}
    /\ moving' = [moving EXCEPT ![r] = NoEdge]
    /\ UNCHANGED <<born, told, nodes, pc, rest, root, todo, budget>>

UnlinkFails(r) ==
    /\ NextRow(r) /\ moving[r] # NoEdge /\ MayFail
    /\ moving' = [moving EXCEPT ![r] = NoEdge]
    /\ UNCHANGED <<graph, pc, rest, root, todo, runs, crashes>>

(* Mutant: the facts are not part of what makes two edges equal.           *)
SameFact_EndsOnly(d, e) ==
    ~IsMention(d) /\ ~IsMention(e) /\ d.src = e.src /\ d.dst = e.dst

(* Two RELATES_TO edges with the same ends and the same fact.              *)
SameFact(d, e) ==
    ~IsMention(d) /\ ~IsMention(e) /\ d.src = e.src /\ d.dst = e.dst /\ d.fact = e.fact

(* Of the edges that state one fact one stays, whichever comes first.      *)
Collapsed ==
    {kept \in SUBSET edges :
        /\ \A e \in edges : IsMention(e) => e \in kept
        /\ \A e \in edges : ~IsMention(e) => \E d \in kept : SameFact(d, e)
        /\ \A d, e \in kept : SameFact(d, e) => d = e}

(* Phase C, over the whole graph.                                          *)
Collapse(r) ==
    /\ At(r, "relations") /\ RowsDone(r)
    /\ edges' \in Collapsed
    /\ GoTo(r, "delete")
    /\ UNCHANGED <<born, told, nodes, rest, root, todo, moving, budget>>

CollapseFails(r) ==
    /\ At(r, "relations") /\ RowsDone(r) /\ MayFail
    /\ GoTo(r, "delete")
    /\ UNCHANGED <<graph, rest, root, todo, moving, runs, crashes>>

Return(r) ==
    /\ GoTo(r, "idle")
    /\ rest' = [rest EXCEPT ![r] = {}]
    /\ root' = [root EXCEPT ![r] = NoPlan]
    /\ todo' = [todo EXCEPT ![r] = {}]
    /\ moving' = [moving EXCEPT ![r] = NoEdge]

(* Mutant: (v)-->() instead of (v)--().                                    *)
Bare_Outgoing(n) == \A e \in edges : e.src # n

Bare(n) == \A e \in edges : e.src # n /\ e.dst # n

(* Mutant: DETACH DELETE takes what edges are left with it.                *)
DeleteVictims_Detach(r) ==
    /\ At(r, "delete")
    /\ nodes' = nodes \ Victims(r)
    /\ edges' = {e \in edges : ~Touched(r, e)}
    /\ Return(r)
    /\ UNCHANGED <<born, told, budget>>

(* Phase D: the victims that have no edge left.                            *)
DeleteVictims(r) ==
    /\ At(r, "delete")
    /\ nodes' = nodes \ {v \in Victims(r) : Bare(v)}
    /\ Return(r)
    /\ UNCHANGED <<born, told, edges, budget>>

DeleteVictimsFails(r) ==
    /\ At(r, "delete") /\ MayFail
    /\ Return(r)
    /\ UNCHANGED <<graph, runs, crashes>>

Crash(r) ==
    /\ ~At(r, "idle") /\ crashes < MaxCrashes
    /\ crashes' = crashes + 1
    /\ Return(r)
    /\ UNCHANGED <<graph, runs, failures>>

(* The worker ingests an episode: a new entity, or an edge.                *)
AddEntity(n) ==
    /\ n \notin born
    /\ born' = born \cup {n} /\ nodes' = nodes \cup {n}
    /\ UNCHANGED <<told, edges, local, budget>>

AddLink(e) ==
    /\ e \notin told /\ Connects(e, nodes)
    /\ told' = told \cup {e} /\ edges' = edges \cup {e}
    /\ UNCHANGED <<born, nodes, local, budget>>

Proceed(r) ==
    \/ Fold(r) \/ ReadMentions(r) \/ CreateMention(r) \/ ReadRelations(r)
    \/ DropSelfLoop(r) \/ CreateRelation(r) \/ Unlink(r) \/ Collapse(r)
    \/ DeleteVictims(r)
Fails(r) ==
    \/ ReadMentionsFails(r) \/ ReadRelationsFails(r) \/ RowFails(r)
    \/ UnlinkFails(r) \/ CollapseFails(r) \/ DeleteVictimsFails(r)
Next ==
    \/ \E r \in Run : Start(r) \/ Proceed(r) \/ Fails(r) \/ Crash(r)
    \/ \E n \in Entity : AddEntity(n)
    \/ \E e \in Links : AddLink(e)

Spec == Init /\ [][Next]_vars

(* A run that is under way goes on, and the cron starts one every night.   *)
FairSpec ==
    Spec /\ \A r \in Run : WF_vars(Start(r)) /\ WF_vars(Proceed(r))

-----------------------------------------------------------------------------
Named(e, i) ==
    e.dst \in Entity /\ NameOf[e.dst] = NameOf[i.dst]

(* A MENTIONS edge never disappears: it stays, under its uuid, at an       *)
(* entity of the same name (apply_plan, Phase A, "CREATE first, DELETE     *)
(* second", and the DELETE only if the CREATE matched).                    *)
MentionsKept ==
    \A i \in told : IsMention(i) =>
        \E e \in edges : e.src = i.src /\ e.uuid = i.uuid /\ Named(e, i)

(* A fact never disappears, unless both of its ends are entities of one    *)
(* name (Phases B and C: redirected or collapsed, never lost).             *)
RelationsKept ==
    \A i \in told : ~IsMention(i) /\ NameOf[i.src] # NameOf[i.dst] =>
        \E e \in edges : /\ ~IsMention(e) /\ e.fact = i.fact /\ Named(e, i)
                         /\ NameOf[e.src] = NameOf[i.src]

(* No edge ends in a node that is not there (Phase D, "once provably       *)
(* empty", while other runs create edges).                                 *)
NothingDangles == \A e \in edges : Connects(e, nodes)

(* The entity with the longest summary of a name is never merged away,     *)
(* however many runs work on plans out of date (_pick_survivor, "never     *)
(* discards text the loser's summary already had").                        *)
LongestStays ==
    \A n \in born : n \in nodes \/
        \E m \in nodes : NameOf[m] = NameOf[n] /\ Rank[m] < Rank[n]

(* With failures that end every pair above the threshold is merged at last *)
(* (plan_dedup, "a cluster of three near-identical summaries collapses to  *)
(* one survivor rather than two"; apply_plan leaves no victim with edges). *)
PairsMerge == <>[](Pairs(nodes) = {})

(* A merge joins only summaries that restate each other (dedup.py, "it     *)
(* merges only nodes whose summaries are near-restatements of each other").*)
MergesAreSimilar ==
    \A r \in Run : \A v \in Victims(r) : Reaches(v, root[r][v])

(* A fact that was superseded stays superseded (the searches filter by     *)
(* invalid_at IS NULL; mcp/server.py, "filters out soft-deleted facts").   *)
InvalidStaysInvalid ==
    \A i \in told : i.invalid => \A e \in edges : e.uuid = i.uuid => e.invalid

(* When a run is about to delete its victims no episode mentions one of    *)
(* its survivors twice (plan_dedup counts the second one as dropped).      *)
MentionsCollapse ==
    \A r \in Run : At(r, "delete") =>
        \A d, e \in edges :
            IsMention(d) /\ d.src = e.src /\ d.dst = e.dst
            /\ (\E v \in Victims(r) : root[r][v] = d.dst) => d = e

(* Phase C deletes no duplicate that was there before the merge and that   *)
(* it did not touch (apply_plan, "drop duplicate edges the move may have   *)
(* created").                                                              *)
CollapseStaysLocal ==
    [][\A r \in Run : At(r, "relations") /\ pc'[r] = "delete" =>
            \A e \in edges \ edges' :
                \E v \in Victims(r) : root[r][v] \in {e.src, e.dst}]_vars

(* _rel_key and _collisions: the edges that collapse according to the plan.*)
DropKey(r, e) ==
    IF SelfLoop(r, e) THEN <<NoFact, e.src, e.dst>>
    ELSE <<e.fact, Root(r, e.src), Root(r, e.dst)>>
DropGroups(r) ==
    LET known == {e \in edges : ~IsMention(e)}
    IN  {{d \in known : DropKey(r, d) = DropKey(r, e)} : e \in RelationRows(r)}

(* A planned collapse of RELATES_TO concerns no self-loop (DedupPlan, of   *)
(* relations_to_drop: "EXCLUDES self-loops, which have their own counter").*)
DropsExcludeSelfLoops ==
    \A r \in Run : At(r, "plan") /\ Pairs(rest[r]) = {} =>
        \A G \in DropGroups(r) :
            Cardinality(G) > 1 => \A e \in G : ~SelfLoop(r, e)
=============================================================================
