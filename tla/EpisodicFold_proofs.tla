------------------------ MODULE EpisodicFold_proofs -------------------------
(***************************************************************************)
(* What no interleaving of runs, crash, failure or arrival can break in    *)
(* EpisodicFold: a group of equal episodes keeps a node, and a node goes   *)
(* only after its undo row is stored.                                      *)
(*                                                                         *)
(* The argument for the first: every plan sends a victim to an older node  *)
(* of its group, so whatever is gone was younger than something that was   *)
(* there, and the oldest node ever ingested of a group is never a victim,  *)
(* also not of a plan whose snapshot is out of date.                       *)
(*                                                                         *)
(* What several processes do break holds for one (the second part): its    *)
(* rows are all the edges of its victims, edges have uuids of their own,   *)
(* so that a deletion by uuid takes what it means, and whatever is dropped *)
(* or moved has a twin that stays.                                         *)
(***************************************************************************)
EXTENDS EpisodicFold, WellFoundedInduction, TLAPS

(* A plan names nodes that were ingested, and leads to older ones.         *)
PlansLeadBack ==
    \A r \in Run : \A v \in Redirected(r) :
        /\ v \in born /\ redirect[r][v] \in born
        /\ KeyOf[redirect[r][v]] = KeyOf[v]
        /\ Rank[redirect[r][v]] < Rank[v]

(* What is gone was younger than another node of its group.                *)
GoneWereYounger ==
    \A n \in Gone : \E m \in born : KeyOf[m] = KeyOf[n] /\ Rank[m] < Rank[n]

(* The rows a run works on belong to its victims.                          *)
RowsOfVictims ==
    \A r \in Run :
        /\ \A e \in rows[r] : e.src \in Redirected(r)
        /\ todo[r] \subseteq rows[r]
        /\ pc[r] \in {"idle", "read"} => rows[r] = {}

(* A run that may delete has stored the undo row of each of its victims.   *)
LoggedFirst ==
    \A r \in Run : At(r, "delete") =>
        \A v \in Redirected(r) : \E u \in undo : u.victim = v

IInv ==
    /\ TypeOK
    /\ PlansLeadBack
    /\ GoneWereYounger
    /\ RowsOfVictims
    /\ LoggedFirst
    /\ DeletedIsLogged

(* A set of nodes has an oldest one.                                       *)
LEMMA Oldest ==
    ASSUME NEW S \in SUBSET Node, S # {}
    PROVE  \E s \in S : \A m \in S : Rank[s] <= Rank[m]
<1> DEFINE Less == OpToRel(<, Nat)
           Ranks == {Rank[m] : m \in S}
<1>1. IsWellFoundedOn(Less, Nat)
  BY NatLessThanWellFounded
<1>2. Ranks \subseteq Nat /\ Ranks # {}
  BY NodeAssumption
<1>3. \A x, y \in Nat : y < x => <<y, x>> \in Less
  BY DEF OpToRel
<1> HIDE DEF Less, Ranks
<1>4. PICK x \in Ranks : \A y \in Ranks : ~(<<y, x>> \in Less)
  BY <1>1, <1>2, WFMin
<1>5. ASSUME NEW y \in Ranks
      PROVE  x <= y
  <2>1. x \in Nat /\ y \in Nat
    BY <1>2
  <2>2. ~(y < x)
    BY <1>3, <1>4, <2>1
  <2> QED
    BY <2>1, <2>2
<1> QED
  BY <1>4, <1>5 DEF Ranks

(* The plan redirects victims to the oldest node of their group.           *)
LEMMA PlanIsSound ==
    ASSUME TypeOK
    PROVE  /\ Plan \in Plans
           /\ \A v \in DOMAIN Plan : 
                /\ v \in nodes /\ Plan[v] \in nodes
                /\ KeyOf[Plan[v]] = KeyOf[v] /\ Rank[Plan[v]] < Rank[v]
<1>1. ASSUME NEW n \in nodes
      PROVE  /\ Survivor(n) \in Group(n)
             /\ \A m \in Group(n) : Rank[Survivor(n)] <= Rank[m]
  <2>1. n \in Group(n) /\ Group(n) \subseteq nodes
    BY DEF Group
  <2>2. Group(n) \in SUBSET Node
    BY <2>1 DEF TypeOK
  <2> QED
    BY <2>1, <2>2, Oldest DEF Survivor
<1>2. ASSUME NEW v \in Victims
      PROVE  /\ v \in nodes /\ Survivor(v) \in nodes
             /\ KeyOf[Survivor(v)] = KeyOf[v] /\ Rank[Survivor(v)] < Rank[v]
  <2>1. v \in nodes /\ Survivor(v) # v
    BY DEF Victims
  <2>2. Survivor(v) \in Group(v) /\ v \in Group(v)
    BY <1>1, <2>1 DEF Group
  <2>3. Rank[Survivor(v)] <= Rank[v]
    BY <1>1, <2>1, <2>2
  <2>4. Survivor(v) \in nodes /\ KeyOf[Survivor(v)] = KeyOf[v]
    BY <2>2 DEF Group
  <2>5. v \in Node /\ Survivor(v) \in Node
    BY <2>1, <2>4 DEF TypeOK
  <2>6. Rank[v] \in Nat /\ Rank[Survivor(v)] \in Nat /\ Rank[Survivor(v)] # Rank[v]
    BY <2>1, <2>5, NodeAssumption
  <2> QED
    BY <2>1, <2>3, <2>4, <2>6
<1>3. Victims \subseteq Node
  BY DEF Victims, TypeOK
<1>4. Plan \in [Victims -> Node]
  BY <1>2, <1>3 DEF Plan, TypeOK
<1> QED
  BY <1>2, <1>3, <1>4 DEF Plan, Plans

-----------------------------------------------------------------------------
USE BoundAssumption

LEMMA NoPlanIsPlan == NoPlan \in Plans /\ DOMAIN NoPlan = {}
<1>1. NoPlan \in [{} -> Node]
  BY DEF NoPlan
<1>2. {} \in SUBSET Node
  OBVIOUS
<1> QED
  BY <1>1, <1>2 DEF Plans

(* A run that gives up or is done forgets its plan.                        *)
LEMMA ReturnKeeps ==
    ASSUME IInv, NEW r \in Run, Return(r), UNCHANGED <<graph, undo>>,
           runs' = runs, crashes' \in 0..MaxCrashes, failures' \in 0..MaxFailures
    PROVE  IInv'
<1> USE DEF IInv, Return, GoTo, graph
<1>1. NoPlan \in Plans /\ DOMAIN NoPlan = {}
  BY NoPlanIsPlan
<1>2. TypeOK'
  BY <1>1 DEF TypeOK, Pc
<1>3. \A q \in Run : q # r =>
        pc'[q] = pc[q] /\ redirect'[q] = redirect[q] /\ rows'[q] = rows[q] /\ todo'[q] = todo[q]
  BY DEF TypeOK
<1>4. pc'[r] = "idle" /\ redirect'[r] = NoPlan /\ rows'[r] = {} /\ todo'[r] = {}
  BY DEF TypeOK
<1>5. PlansLeadBack'
  BY <1>1, <1>3, <1>4 DEF PlansLeadBack, Redirected
<1>6. GoneWereYounger' /\ DeletedIsLogged'
  BY DEF GoneWereYounger, DeletedIsLogged, Gone
<1>7. RowsOfVictims'
  BY <1>3, <1>4 DEF RowsOfVictims, Redirected
<1>8. LoggedFirst'
  BY <1>3, <1>4 DEF LoggedFirst, Redirected, At
<1> QED
  BY <1>2, <1>5, <1>6, <1>7, <1>8

(* A step of a run within its plan.                                        *)
LEMMA WorkKeeps ==
    ASSUME IInv, NEW r \in Run, UNCHANGED <<born, nodes, undo, redirect>>,
           TypeOK',
           \A q \in Run : /\ pc'[q] = "delete" => pc[q] = "delete"
                          /\ todo'[q] \subseteq rows'[q]
                          /\ pc'[q] \in {"idle", "read"} => rows'[q] = {}
                          /\ \A e \in rows'[q] : e.src \in Redirected(q)
    PROVE  IInv'
<1> USE DEF IInv
<1>1. PlansLeadBack'
  BY DEF PlansLeadBack, Redirected
<1>2. GoneWereYounger' /\ DeletedIsLogged'
  BY DEF GoneWereYounger, DeletedIsLogged, Gone
<1>3. RowsOfVictims'
  BY DEF RowsOfVictims, Redirected
<1>4. LoggedFirst'
  BY DEF LoggedFirst, Redirected, At
<1> QED
  BY <1>1, <1>2, <1>3, <1>4

LEMMA StartKeeps ==
    ASSUME IInv, NEW r \in Run, Start(r)
    PROVE  IInv'
<1> USE DEF IInv, Start, GoTo, graph
<1>1. Plan \in Plans
  BY PlanIsSound
<1>2. TypeOK'
  BY <1>1 DEF TypeOK, Pc
<1>3. \A q \in Run : q # r => pc'[q] = pc[q] /\ redirect'[q] = redirect[q]
  BY DEF TypeOK
<1>4. pc'[r] = "read" /\ redirect'[r] = Plan
  BY DEF TypeOK
<1>5. PlansLeadBack'
  <2>1. \A v \in DOMAIN Plan :
            /\ v \in born /\ Plan[v] \in born
            /\ KeyOf[Plan[v]] = KeyOf[v] /\ Rank[Plan[v]] < Rank[v]
    BY PlanIsSound DEF TypeOK
  <2> QED
    BY <1>3, <1>4, <2>1 DEF PlansLeadBack, Redirected
<1>6. GoneWereYounger' /\ DeletedIsLogged'
  BY DEF GoneWereYounger, DeletedIsLogged, Gone
<1>7. RowsOfVictims'
  <2>1. rows'[r] = {} /\ todo'[r] \subseteq rows'[r]
    BY DEF RowsOfVictims, At
  <2> QED
    BY <1>3, <1>4, <2>1 DEF RowsOfVictims, Redirected
<1>8. LoggedFirst'
  BY <1>3, <1>4 DEF LoggedFirst, Redirected, At
<1> QED
  BY <1>2, <1>5, <1>6, <1>7, <1>8

LEMMA ReadVictimsKeeps ==
    ASSUME IInv, NEW r \in Run, ReadVictims(r)
    PROVE  IInv'
<1> USE DEF GoTo, graph, budget
<1> DEFINE found == {e \in edges : e.src \in Redirected(r)}
<1>1. CASE found = {}
  BY <1>1, ReturnKeeps DEF ReadVictims, IInv, TypeOK
<1>2. CASE found # {}
  <2>1. rows' = [rows EXCEPT ![r] = found] /\ pc' = [pc EXCEPT ![r] = "survivors"]
    BY <1>2 DEF ReadVictims
  <2>2. UNCHANGED <<redirect, todo, born, nodes, undo, drop, moving, edges, budget>>
    BY <1>2 DEF ReadVictims
  <2>3. found \subseteq Mention /\ \A e \in found : e.src \in Redirected(r)
    BY DEF IInv, TypeOK
  <2> HIDE DEF found
  <2>4. TypeOK'
    BY <2>1, <2>2, <2>3 DEF IInv, TypeOK, Pc
  <2>5. rows[r] = {} /\ todo[r] = {}
    BY DEF ReadVictims, IInv, RowsOfVictims, At
  <2>6. \A q \in Run : /\ pc'[q] = "delete" => pc[q] = "delete"
                       /\ todo'[q] \subseteq rows'[q]
                       /\ pc'[q] \in {"idle", "read"} => rows'[q] = {}
                       /\ \A e \in rows'[q] : e.src \in Redirected(q)
    BY <2>1, <2>2, <2>3, <2>5 DEF IInv, TypeOK, RowsOfVictims
  <2> QED
    BY <2>2, <2>4, <2>6, WorkKeeps
<1> QED
  BY <1>1, <1>2

LEMMA PartitionKeeps ==
    ASSUME IInv, NEW r \in Run, NEW held, At(r, "survivors"), Partition(r, held),
           UNCHANGED <<graph, undo, redirect, rows, moving, runs, crashes>>,
           failures' \in 0..MaxFailures
    PROVE  IInv'
<1> USE DEF graph
<1>1. PICK moved \in Moves(r, held) :
        /\ todo' = [todo EXCEPT ![r] = moved]
        /\ drop' = [drop EXCEPT ![r] = Redundant(r, moved)]
        /\ pc' = [pc EXCEPT ![r] = "drop"]
  BY DEF Partition, GoTo
<1>2. moved \subseteq rows[r]
  BY DEF Moves
<1>3. rows[r] \subseteq Mention
  BY DEF IInv, TypeOK
<1>4. Redundant(r, moved) \subseteq Edge
  BY <1>3 DEF Redundant, Mention
<1>5. TypeOK'
  BY <1>1, <1>2, <1>3, <1>4 DEF IInv, TypeOK, Pc
<1>6. \A q \in Run : /\ pc'[q] = "delete" => pc[q] = "delete"
                     /\ todo'[q] \subseteq rows'[q]
                     /\ pc'[q] \in {"idle", "read"} => rows'[q] = {}
                     /\ \A e \in rows'[q] : e.src \in Redirected(q)
  BY <1>1, <1>2 DEF IInv, TypeOK, RowsOfVictims
<1> QED
  BY <1>5, <1>6, WorkKeeps

(* The steps between the partition and the undo row.                       *)
Works(r) ==
    /\ edges' \subseteq Mention
    /\ todo' \in {todo} \cup {[todo EXCEPT ![r] = @ \ {e}] : e \in todo[r]}
    /\ pc' \in {pc} \cup {[pc EXCEPT ![r] = l] : l \in Pc \ {"idle", "read", "delete"}}
    /\ moving' \in {moving} \cup {[moving EXCEPT ![r] = e] : e \in todo[r] \cup {NoEdge}}
    /\ failures' \in 0..MaxFailures
    /\ UNCHANGED <<born, nodes, undo, redirect, rows, drop, runs, crashes>>

LEMMA WorksKeeps ==
    ASSUME IInv, NEW r \in Run, Works(r)
    PROVE  IInv'
<1>1. todo[r] \subseteq rows[r] /\ rows[r] \subseteq Mention
  BY DEF IInv, TypeOK, RowsOfVictims
<1>2. todo' \in [Run -> SUBSET Mention] /\ \A q \in Run : todo'[q] \subseteq todo[q]
  BY DEF Works, IInv, TypeOK
<1>3. moving' \in [Run -> Mention \cup {NoEdge}]
  BY <1>1 DEF Works, IInv, TypeOK
<1>4. /\ pc' \in [Run -> Pc]
      /\ \A q \in Run : pc'[q] \in {"idle", "read", "delete"} => pc'[q] = pc[q]
  BY DEF Works, IInv, TypeOK
<1>5. TypeOK'
  BY <1>2, <1>3, <1>4 DEF Works, IInv, TypeOK
<1>6. \A q \in Run : /\ pc'[q] = "delete" => pc[q] = "delete"
                     /\ todo'[q] \subseteq rows'[q]
                     /\ pc'[q] \in {"idle", "read"} => rows'[q] = {}
                     /\ \A e \in rows'[q] : e.src \in Redirected(q)
  BY <1>2, <1>4 DEF Works, IInv, RowsOfVictims
<1> QED
  BY <1>5, <1>6, WorkKeeps DEF Works

LEMMA EdgeSteps ==
    ASSUME IInv, NEW r \in Run,
           \/ Drop(r) \/ DropFails(r) \/ CreateEdge(r) \/ CreateEdgeFails(r)
           \/ Unlink(r) \/ UnlinkFails(r) \/ RowsDone(r)
    PROVE  Works(r)
<1> USE DEF Works, GoTo, Pc, graph, budget, MayFail
<1>1. CASE Drop(r) \/ DropFails(r)
  BY <1>1 DEF Drop, DropFails, IInv, TypeOK
<1>2. CASE CreateEdge(r)
  <2>1. PICK e \in todo[r] :
          /\ todo' = [todo EXCEPT ![r] = @ \ {e}]
          /\ IF redirect[r][e.src] \in nodes
             THEN /\ edges' = edges \cup {Moved(r, e)}
                  /\ moving' = [moving EXCEPT ![r] = e]
                  /\ pc' = [pc EXCEPT ![r] = "unlink"]
             ELSE UNCHANGED <<edges, moving, pc>>
          /\ UNCHANGED <<born, nodes, undo, redirect, rows, drop, budget>>
    BY <1>2 DEF CreateEdge
  <2>2. e \in Mention /\ redirect[r][e.src] \in Node
    BY DEF IInv, TypeOK, RowsOfVictims, PlansLeadBack
  <2>3. Moved(r, e) \in Mention
    BY <2>2 DEF Moved, Mention
  <2> QED
    BY <2>1, <2>3 DEF IInv, TypeOK
<1>3. CASE CreateEdgeFails(r)
  <2>1. PICK e \in todo[r] : todo' = [todo EXCEPT ![r] = @ \ {e}]
    BY <1>3 DEF CreateEdgeFails
  <2>2. /\ UNCHANGED <<graph, undo, pc, redirect, rows, drop, moving, runs, crashes>>
        /\ failures' \in 0..MaxFailures
    BY <1>3 DEF CreateEdgeFails, IInv, TypeOK
  <2> QED
    BY <2>1, <2>2 DEF IInv, TypeOK
<1>4. CASE Unlink(r) \/ UnlinkFails(r)
  BY <1>4 DEF Unlink, UnlinkFails, Continue, IInv, TypeOK
<1>5. CASE RowsDone(r)
  BY <1>5 DEF RowsDone, IInv, TypeOK
<1> QED
  BY <1>1, <1>2, <1>3, <1>4, <1>5

LEMMA BuildUndoKeeps ==
    ASSUME IInv, NEW r \in Run, BuildUndo(r)
    PROVE  IInv'
<1>1. CASE Redirected(r) \subseteq nodes
  <2>1. Works(r)
    BY <1>1 DEF BuildUndo, Works, GoTo, Pc, graph, budget, IInv, TypeOK
  <2> QED
    BY <2>1, WorksKeeps
<1>2. CASE ~(Redirected(r) \subseteq nodes)
  BY <1>2, ReturnKeeps DEF BuildUndo, graph, budget, IInv, TypeOK
<1> QED
  BY <1>1, <1>2

LEMMA RecordUndoKeeps ==
    ASSUME IInv, NEW r \in Run, RecordUndo(r)
    PROVE  IInv'
<1> USE DEF RecordUndo, GoTo, graph, budget
<1> DEFINE new == {[victim |-> v, mentions |-> Logged(r, v)] : v \in Redirected(r)}
<1>1. Redirected(r) \subseteq Node
  BY DEF IInv, PlansLeadBack, TypeOK
<1>2. ASSUME NEW v \in Redirected(r)
      PROVE  Logged(r, v) \subseteq Target
  BY DEF Logged, IInv, TypeOK, Mention
<1>3. new \subseteq [victim : Node, mentions : SUBSET Target]
  BY <1>1, <1>2
<1>4. undo' = undo \cup new
  OBVIOUS
<1>5. ASSUME NEW v \in Redirected(r)
      PROVE  \E u \in new : u.victim = v
  <2> WITNESS [victim |-> v, mentions |-> Logged(r, v)] \in new
  <2> QED
    OBVIOUS
<1> HIDE DEF new
<1>6. TypeOK'
  BY <1>3, <1>4 DEF IInv, TypeOK, Pc
<1>7. PlansLeadBack' /\ GoneWereYounger'
  BY DEF IInv, PlansLeadBack, GoneWereYounger, Redirected, Gone
<1>8. RowsOfVictims'
  BY DEF IInv, TypeOK, RowsOfVictims, Redirected
<1>9. LoggedFirst'
  <2>1. \A q \in Run : q # r => pc'[q] = pc[q]
    BY DEF IInv, TypeOK
  <2> QED
    BY <1>4, <1>5, <2>1 DEF IInv, LoggedFirst, Redirected, At
<1>10. DeletedIsLogged'
  BY <1>4 DEF IInv, DeletedIsLogged, Gone
<1> QED
  BY <1>6, <1>7, <1>8, <1>9, <1>10 DEF IInv

LEMMA DeleteKeeps ==
    ASSUME IInv, NEW r \in Run, DeleteVictims(r)
    PROVE  IInv'
<1> USE DEF DeleteVictims, Return, GoTo, budget
<1>1. NoPlan \in Plans /\ DOMAIN NoPlan = {}
  BY NoPlanIsPlan
<1>2. TypeOK'
  BY <1>1 DEF IInv, TypeOK, Pc
<1>3. \A q \in Run : q # r =>
        pc'[q] = pc[q] /\ redirect'[q] = redirect[q] /\ rows'[q] = rows[q] /\ todo'[q] = todo[q]
  BY DEF IInv, TypeOK
<1>4. pc'[r] = "idle" /\ redirect'[r] = NoPlan /\ rows'[r] = {} /\ todo'[r] = {}
  BY DEF IInv, TypeOK
<1>5. PlansLeadBack'
  BY <1>1, <1>3, <1>4 DEF IInv, PlansLeadBack, Redirected
<1>6. \A n \in Gone' : n \in Gone \/ n \in Redirected(r)
  BY DEF Gone
<1>7. GoneWereYounger'
  BY <1>6 DEF IInv, GoneWereYounger, PlansLeadBack
<1>8. DeletedIsLogged'
  BY <1>6 DEF IInv, DeletedIsLogged, LoggedFirst
<1>9. RowsOfVictims'
  BY <1>3, <1>4 DEF IInv, RowsOfVictims, Redirected
<1>10. LoggedFirst'
  BY <1>3, <1>4 DEF IInv, LoggedFirst, Redirected, At
<1> QED
  BY <1>2, <1>5, <1>7, <1>8, <1>9, <1>10 DEF IInv

LEMMA IngestKeeps ==
    ASSUME IInv, NEW n \in Node, Ingest(n)
    PROVE  IInv'
<1> USE DEF Ingest, budget
<1>1. LinksOf(n) \subseteq Mention
  BY LinkAssumption DEF LinksOf
<1>2. TypeOK'
  BY <1>1 DEF IInv, TypeOK
<1>3. Gone' = Gone /\ born \subseteq born'
  BY DEF Gone, IInv, TypeOK
<1>4. PlansLeadBack'
  BY <1>3 DEF IInv, PlansLeadBack, Redirected
<1>5. GoneWereYounger' /\ DeletedIsLogged'
  BY <1>3 DEF IInv, GoneWereYounger, DeletedIsLogged
<1>6. RowsOfVictims' /\ LoggedFirst'
  BY DEF IInv, RowsOfVictims, LoggedFirst, Redirected, At
<1> QED
  BY <1>2, <1>4, <1>5, <1>6 DEF IInv

-----------------------------------------------------------------------------
LEMMA Initially ==
    ASSUME Init
    PROVE  IInv
<1>1. \A n \in born : LinksOf(n) \subseteq Mention
  BY LinkAssumption DEF LinksOf
<1>2. edges \subseteq Mention
  BY <1>1 DEF Init
<1>3. TypeOK
  BY <1>2, NoPlanIsPlan DEF Init, TypeOK, Pc
<1> QED
  BY <1>3, NoPlanIsPlan DEF Init, IInv, PlansLeadBack, GoneWereYounger,
     RowsOfVictims, LoggedFirst, DeletedIsLogged, Gone, Redirected, At

LEMMA Inductive ==
    ASSUME IInv, [Next]_vars
    PROVE  IInv'
<1>1. ASSUME NEW r \in Run, Proceed(r)
      PROVE  IInv'
  <2>1. CASE ReadVictims(r)
    BY <2>1, ReadVictimsKeeps
  <2>2. CASE ReadSurvivors(r)
    BY <2>2, PartitionKeeps DEF ReadSurvivors, budget, IInv, TypeOK
  <2>3. CASE Drop(r) \/ CreateEdge(r) \/ Unlink(r) \/ RowsDone(r)
    BY <2>3, EdgeSteps, WorksKeeps
  <2>4. CASE BuildUndo(r)
    BY <2>4, BuildUndoKeeps
  <2>5. CASE RecordUndo(r)
    BY <2>5, RecordUndoKeeps
  <2>6. CASE DeleteVictims(r)
    BY <2>6, DeleteKeeps
  <2> QED
    BY <1>1, <2>1, <2>2, <2>3, <2>4, <2>5, <2>6 DEF Proceed
<1>2. ASSUME NEW r \in Run, Fails(r)
      PROVE  IInv'
  <2>1. MayFail => failures' \in 0..MaxFailures
    BY DEF MayFail, IInv, TypeOK
  <2>2. CASE ReadVictimsFails(r) \/ UndoFails(r) \/ DeleteVictimsFails(r)
    BY <2>1, <2>2, ReturnKeeps
       DEF ReadVictimsFails, UndoFails, DeleteVictimsFails, IInv, TypeOK
  <2>3. CASE ReadSurvivorsFails(r)
    BY <2>1, <2>3, PartitionKeeps DEF ReadSurvivorsFails
  <2>4. CASE DropFails(r) \/ CreateEdgeFails(r) \/ UnlinkFails(r)
    BY <2>4, EdgeSteps, WorksKeeps
  <2> QED
    BY <1>2, <2>2, <2>3, <2>4 DEF Fails
<1>3. ASSUME NEW r \in Run, Crash(r)
      PROVE  IInv'
  BY <1>3, ReturnKeeps DEF Crash, IInv, TypeOK
<1>4. CASE UNCHANGED vars
  BY <1>4 DEF vars, graph, budget, IInv, TypeOK, PlansLeadBack, GoneWereYounger,
     RowsOfVictims, LoggedFirst, DeletedIsLogged, Gone, Redirected, At
<1> QED
  BY <1>1, <1>2, <1>3, <1>4, StartKeeps, IngestKeeps DEF Next

THEOREM Invariant == Spec => []IInv
<1>1. Init => IInv
  BY Initially
<1>2. IInv /\ [Next]_vars => IInv'
  BY Inductive
<1> QED
  BY <1>1, <1>2, PTL DEF Spec

(* Every variable keeps its type (TypeOK), for any number of nodes, runs,  *)
(* crashes and failures.                                                   *)
THEOREM TypeCorrect == Spec => []TypeOK
<1>1. IInv => TypeOK
  BY DEF IInv
<1> QED
  BY <1>1, Invariant, PTL

(* No node is deleted before its undo row is stored, whatever the three    *)
(* callers of the fold do at the same time (apply_episodic_plan).          *)
THEOREM DeletedIsLoggedAlways == Spec => []DeletedIsLogged
<1>1. IInv => DeletedIsLogged
  BY DEF IInv
<1> QED
  BY <1>1, Invariant, PTL

(* A group of equal episodes never disappears, however many runs with      *)
(* plans out of date work on it (_pick_episodic_survivor).                 *)
THEOREM GroupsStayAlways == Spec => []GroupsStay
<1>1. ASSUME IInv
      PROVE  GroupsStay
  <2> SUFFICES ASSUME NEW n \in born
               PROVE  Group(n) # {}
    BY DEF GroupsStay
  <2> DEFINE all == {m \in born : KeyOf[m] = KeyOf[n]}
  <2>1. all \in SUBSET Node /\ all # {}
    BY <1>1 DEF IInv, TypeOK
  <2>2. PICK m \in all : \A x \in all : Rank[m] <= Rank[x]
    BY <2>1, Oldest
  <2>3. m \notin Gone
    <3> SUFFICES ASSUME m \in Gone
                 PROVE  FALSE
      OBVIOUS
    <3>1. PICK x \in born : KeyOf[x] = KeyOf[m] /\ Rank[x] < Rank[m]
      BY <1>1 DEF IInv, GoneWereYounger
    <3>2. x \in all
      BY <3>1
    <3>3. Rank[x] \in Nat /\ Rank[m] \in Nat
      BY <2>1, <3>2, NodeAssumption
    <3> QED
      BY <2>2, <3>1, <3>2, <3>3
  <2> QED
    BY <2>3 DEF Gone, Group
<1> QED
  BY <1>1, Invariant, PTL
-----------------------------------------------------------------------------
(* What needs that no other run is under way.                              *)
OneProcess == \E p \in Run : Run = {p}

(* A run of the only process: its victims and survivors are there, it has  *)
(* read all edges of the victims, and the edge it moves has its copy.      *)
Settled(r) ==
    /\ Redirected(r) \subseteq nodes
    /\ \A v \in Redirected(r) : redirect[r][v] \in nodes \ Redirected(r)
    /\ pc[r] \in {"survivors", "drop"} =>
           /\ rows[r] \subseteq edges
           /\ \A e \in edges : e.src \in Redirected(r) => e \in rows[r]
    /\ At(r, "drop") => drop[r] \subseteq {e.uuid : e \in Ingested}
    /\ At(r, "unlink") => moving[r] \in rows[r] /\ Moved(r, moving[r]) \in edges
    /\ \A e \in edges \cup rows[r] : \E i \in Ingested : i.uuid = e.uuid
    /\ runs = 0 => Undisturbed /\ At(r, "idle")

(* No edge lies where one is to be moved, but the copy just created.       *)
Clear(r) ==
    failures = 0 /\ pc[r] \in {"drop", "create", "unlink"} =>
        /\ \A d \in todo[r], e \in edges : <<e.src, e.dst>> # Place(r, d)
        /\ \A d, e \in todo[r] : Place(r, d) = Place(r, e) => d = e
        /\ At(r, "unlink") =>
             /\ \A d \in todo[r] : Place(r, d) # Place(r, moving[r])
             /\ \A e \in edges : <<e.src, e.dst>> = Place(r, moving[r])
                                    => e = Moved(r, moving[r])

(* Edges have uuids of their own, but for the one being moved.             *)
Apart(r) ==
    Undisturbed \/ (runs <= 1 /\ pc[r] \in {"read", "survivors", "drop"}) =>
        \A d, e \in edges : d.uuid = e.uuid =>
            \/ d = e
            \/ At(r, "unlink") /\ {d, e} \subseteq {moving[r], Moved(r, moving[r])}

Calm == Undisturbed \/ runs <= 1
Alike(d, e) == KeyOf[d.src] = KeyOf[e.src] /\ d.dst = e.dst

(* What is mentioned stays so, also without the edges about to be dropped. *)
Covered(r) ==
    Calm =>
        /\ MentionsSurvive
        /\ At(r, "drop") =>
             \A d \in edges : d.uuid \in drop[r] =>
                 \E e \in edges : e.uuid \notin drop[r] /\ Alike(e, d)

Mentions(S, n, t) == \E e \in S : e.src = n /\ e.dst = t

(* An undisturbed run leaves its victims without an edge, and knows what   *)
(* they mentioned.                                                         *)
Whole(r) ==
    Undisturbed =>
        /\ pc[r] \in {"drop", "create", "unlink"} => todo[r] \subseteq edges
        /\ At(r, "drop") =>
             /\ \A e \in todo[r] : e.uuid \notin drop[r]
             /\ \A e \in rows[r] \ todo[r] : e.uuid \in drop[r]
             /\ \A e \in edges : e.uuid \in drop[r] => e \in rows[r]
        /\ At(r, "unlink") => moving[r] \notin todo[r]
        /\ pc[r] \in {"create", "unlink", "undo", "record", "delete"} =>
             \A e \in edges : e.src \in Redirected(r) =>
                 e \in todo[r] \/ (At(r, "unlink") /\ e = moving[r])
        /\ pc[r] \in {"undo", "record", "delete"} => todo[r] = {}
        /\ \A n \in nodes : \A i \in LinksOf(n) :
             IF n \in Redirected(r) /\ pc[r] \notin {"idle", "read"}
             THEN Mentions(rows[r], n, i.dst) ELSE Mentions(edges, n, i.dst)
        /\ At(r, "delete") =>
             \A v \in Redirected(r) : \A i \in LinksOf(v) :
                 \E u \in undo : u.victim = v /\ i.dst \in u.mentions
        /\ UndoRestores

Alone(r) == Settled(r) /\ Clear(r) /\ Apart(r) /\ Covered(r) /\ Whole(r)


(* The plan of the only process leads to nodes that are no victims.        *)
LEMMA SurvivorsStay ==
    ASSUME TypeOK, NEW v \in Victims
    PROVE  Survivor(v) \in nodes \ Victims
<1>1. v \in nodes /\ Group(v) \in SUBSET Node /\ v \in Group(v)
  BY DEF Victims, Group, TypeOK
<1>2. Survivor(v) \in Group(v)
  BY <1>1, Oldest DEF Survivor
<1>3. Survivor(v) \in nodes /\ Group(Survivor(v)) = Group(v)
  BY <1>2 DEF Group
<1>4. Survivor(Survivor(v)) = Survivor(v)
  BY <1>3 DEF Survivor
<1> QED BY <1>3, <1>4 DEF Victims

(* A run that gives up after something went wrong.                         *)
LEMMA GiveUp ==
    ASSUME IInv, NEW r \in Run, Alone(r), Return(r), pc[r] # "idle",
           UNCHANGED <<graph, undo, runs>>,
           ~Undisturbed', failures # 0 => failures' # 0
    PROVE  Alone(r)'
<1>1. pc'[r] = "idle" /\ redirect'[r] = NoPlan /\ DOMAIN NoPlan = {} /\ rows'[r] = {}
  BY NoPlanIsPlan DEF IInv, TypeOK, Return, GoTo
<1>2. UNCHANGED <<born, nodes, edges>>
  BY DEF graph
<1>3. Settled(r)'
  BY <1>1, <1>2 DEF Alone, Settled, Redirected, At, Ingested
<1>4. Clear(r)' /\ Apart(r)' /\ Whole(r)'
  BY <1>1 DEF Clear, Apart, Whole
<1>5. Covered(r)'
  BY <1>1, <1>2 DEF Alone, Covered, Calm, MentionsSurvive, Ingested, At
<1> QED BY <1>3, <1>4, <1>5 DEF Alone

(* A run that found nothing to move forgets its plan.                      *)
LEMMA NothingFound ==
    ASSUME IInv, NEW r \in Run, Alone(r), Return(r), pc[r] = "read",
           UNCHANGED <<graph, undo, budget>>
    PROVE  Alone(r)'
<1>1. pc'[r] = "idle" /\ redirect'[r] = NoPlan /\ DOMAIN NoPlan = {} /\ rows'[r] = {}
  BY NoPlanIsPlan DEF IInv, TypeOK, Return, GoTo
<1>2. UNCHANGED <<born, nodes, edges, runs, crashes, failures>>
  BY DEF graph, budget
<1>3. Settled(r)'
  BY <1>1, <1>2 DEF Alone, Settled, Redirected, At, Ingested
<1>4. Clear(r)'
  BY <1>1 DEF Clear
<1>5. Apart(r)'
  BY <1>1, <1>2 DEF Alone, Apart, Undisturbed, At
<1>6. Covered(r)'
  BY <1>1, <1>2 DEF Alone, Covered, Calm, MentionsSurvive, Ingested, At, Undisturbed
<1>7. Whole(r)'
  BY <1>1, <1>2 DEF Alone, Whole, Undisturbed, At, Mentions, UndoRestores, Gone, LinksOf
<1> QED BY <1>3, <1>4, <1>5, <1>6, <1>7 DEF Alone

(* The plan is made.                                                       *)
LEMMA AloneStart ==
    ASSUME IInv, NEW r \in Run, Alone(r), Start(r)
    PROVE  Alone(r)'
<1>1. /\ pc[r] = "idle" /\ pc'[r] = "read" /\ redirect'[r] = Plan
      /\ runs \in Nat /\ runs' > 0 /\ (runs' <= 1 => runs = 0)
      /\ UNCHANGED <<born, nodes, edges, undo, rows, crashes, failures>>
  BY BoundAssumption DEF IInv, TypeOK, Start, GoTo, At, graph
<1>2. DOMAIN Plan = Victims /\ \A v \in Victims : Plan[v] \in nodes \ Victims
  BY SurvivorsStay DEF Plan, IInv
<1>3. Victims \subseteq nodes
  BY DEF Victims
<1>4. Settled(r)'
  BY <1>1, <1>2, <1>3 DEF Alone, Settled, Redirected, At, Ingested
<1>5. Clear(r)'
  BY <1>1 DEF Clear
<1>6. Apart(r)'
  <2>1. runs' <= 1 => Undisturbed
    BY <1>1 DEF Alone, Settled
  <2> QED BY <1>1, <2>1 DEF Alone, Apart, Undisturbed, At
<1>7. Covered(r)'
  <2>1. Calm' => Calm
    BY <1>1 DEF Calm, Undisturbed
  <2> QED BY <1>1, <2>1 DEF Alone, Covered, MentionsSurvive, Ingested, At
<1>8. Whole(r)'
  BY <1>1 DEF Alone, Whole, Undisturbed, At, Mentions, UndoRestores, Gone, LinksOf
<1> QED BY <1>4, <1>5, <1>6, <1>7, <1>8 DEF Alone

(* The victims' edges are read.                                            *)
LEMMA AloneRead ==
    ASSUME IInv, NEW r \in Run, Alone(r), ReadVictims(r)
    PROVE  Alone(r)'
<1> DEFINE found == {e \in edges : e.src \in Redirected(r)}
<1>1. CASE found = {}
  BY <1>1, NothingFound DEF ReadVictims, At
<1>2. CASE found # {}
  <2>1. /\ pc[r] = "read" /\ pc'[r] = "survivors" /\ rows'[r] = found
        /\ UNCHANGED <<born, nodes, edges, undo, runs, crashes, failures, redirect>>
    BY <1>2 DEF IInv, TypeOK, ReadVictims, GoTo, At, graph, budget
  <2>2. Settled(r)'
    BY <2>1 DEF Alone, Settled, Redirected, At, Ingested
  <2>3. Clear(r)'
    BY <2>1 DEF Clear
  <2>4. Apart(r)'
    BY <2>1 DEF Alone, Apart, Undisturbed, At
  <2>5. Covered(r)'
    BY <2>1 DEF Alone, Covered, MentionsSurvive, Ingested, At, Calm, Undisturbed
  <2>6. Whole(r)'
    <3> SUFFICES ASSUME Undisturbed' PROVE Whole(r)'
      BY DEF Whole
    <3>1. Undisturbed
      BY <2>1 DEF Undisturbed
    <3>2. \A n \in nodes : \A i \in LinksOf(n) : Mentions(edges, n, i.dst)
      BY <2>1, <3>1 DEF Alone, Whole
    <3>3. \A n \in Redirected(r) : \A t : Mentions(edges, n, t) => Mentions(found, n, t)
      BY DEF Mentions
    <3>4. UndoRestores'
      BY <2>1, <3>1 DEF Alone, Whole, UndoRestores, Gone, LinksOf
    <3> QED BY <2>1, <3>2, <3>3, <3>4 DEF Whole, At, Redirected, Mentions, LinksOf
  <2> QED BY <2>2, <2>3, <2>4, <2>5, <2>6 DEF Alone
<1> QED BY <1>1, <1>2

(* What a run redirects has the key of where it goes.                      *)
LEMMA PlacesAreAlike ==
    ASSUME IInv, NEW r \in Run, NEW e \in rows[r]
    PROVE  /\ e \in Mention /\ e.src \in Redirected(r) /\ redirect[r][e.src] \in SurvivorsOf(r)
           /\ KeyOf[redirect[r][e.src]] = KeyOf[e.src]
  BY DEF IInv, TypeOK, RowsOfVictims, PlansLeadBack, SurvivorsOf

(* The rows are divided into those to move and those that are redundant.   *)
LEMMA AlonePartition ==
    ASSUME IInv, NEW r \in Run, Alone(r), At(r, "survivors"),
           NEW held, Partition(r, held),
           \/ held = Held(r) /\ failures' = failures
           \/ held = {} /\ failures' # 0,
           failures = 0 \/ failures' # 0,
           UNCHANGED <<graph, undo, redirect, rows, moving, runs, crashes>>
    PROVE  Alone(r)'
<1>1. PICK moved \in Moves(r, held) :
          todo'[r] = moved /\ drop'[r] = Redundant(r, moved) /\ pc'[r] = "drop"
  BY DEF Partition, GoTo, IInv, TypeOK
<1>2. /\ UNCHANGED <<born, nodes, edges, undo, redirect, rows, runs, crashes>>
      /\ pc[r] = "survivors" /\ moved \subseteq rows[r] /\ rows[r] \subseteq edges
      /\ \A e \in edges : e.src \in Redirected(r) => e \in rows[r]
      /\ Undisturbed' => Undisturbed /\ held = Held(r)
  BY DEF Moves, graph, Alone, Settled, At, Undisturbed
<1>3. Settled(r)'
  <2>1. \A e \in edges : \E i \in Ingested : i.uuid = e.uuid
    BY DEF Alone, Settled
  <2>2. drop'[r] \subseteq {e.uuid : e \in Ingested}
    BY <1>1, <1>2, <2>1 DEF Redundant
  <2> QED BY <1>1, <1>2, <2>2 DEF Alone, Settled, Redirected, At, Ingested, Undisturbed
<1>4. Clear(r)'
  <2> SUFFICES ASSUME failures' = 0 PROVE Clear(r)'
    BY DEF Clear
  <2>1. held = Held(r)
    OBVIOUS
  <2>2. ASSUME NEW d \in moved, NEW e \in edges PROVE <<e.src, e.dst>> # Place(r, d)
    <3>1. Place(r, d) \notin Held(r)
      BY <2>1 DEF Moves
    <3>2. redirect[r][d.src] \in SurvivorsOf(r)
      BY <1>2, PlacesAreAlike
    <3> QED BY <3>1, <3>2 DEF Held, Place
  <2>3. \A d, e \in moved : Place(r, d) = Place(r, e) => d = e
    BY DEF Moves
  <2> QED BY <1>1, <1>2, <2>2, <2>3 DEF Clear, Place, At
<1>5. Apart(r)'
  BY <1>1, <1>2 DEF Alone, Apart, Undisturbed, At
<1>6. ASSUME Calm' PROVE \A d, e \in edges : d.uuid = e.uuid => d = e
  BY <1>2, <1>6 DEF Alone, Apart, Calm, Undisturbed, At
<1>7. ASSUME Calm' PROVE \A d \in edges : d.uuid \in drop'[r] => d \in rows[r] \ moved
  BY <1>1, <1>2, <1>6, <1>7 DEF Redundant
<1>8. Covered(r)'
  <2> SUFFICES ASSUME Calm' PROVE Covered(r)'
    BY DEF Covered
  <2>1. Calm
    BY <1>2 DEF Calm
  <2>2. MentionsSurvive'
    BY <1>2, <2>1 DEF Alone, Covered, MentionsSurvive, Ingested
  <2>3. ASSUME NEW d \in edges, d.uuid \in drop'[r]
        PROVE  \E e \in edges : e.uuid \notin drop'[r] /\ Alike(e, d)
    <3>1. d \in rows[r] \ moved
      BY <1>7, <2>3
    <3>2. CASE Place(r, d) \in held
      <4>1. PICK e \in edges : e.src \in SurvivorsOf(r) /\ <<e.src, e.dst>> = Place(r, d)
        BY <3>2 DEF Held
      <4>2. e.src \notin Redirected(r)
        BY <4>1 DEF Alone, Settled, SurvivorsOf
      <4>3. e \notin rows[r]
        BY <4>2 DEF IInv, RowsOfVictims
      <4>4. Alike(e, d)
        BY <3>1, <4>1, PlacesAreAlike DEF Alike, Place
      <4> QED BY <1>7, <4>3, <4>4
    <3>3. CASE Place(r, d) \notin held
      <4>1. PICK m \in moved : Place(r, m) = Place(r, d)
        BY <3>1, <3>3 DEF Moves
      <4>2. m.uuid \notin drop'[r] /\ m \in edges
        BY <1>2, <1>7
      <4>3. Alike(m, d)
        BY <1>2, <3>1, <4>1, PlacesAreAlike DEF Alike, Place
      <4> QED BY <4>2, <4>3
    <3> QED BY <3>2, <3>3
  <2> QED BY <1>2, <2>2, <2>3 DEF Covered, Alike
<1>9. Whole(r)'
  <2> SUFFICES ASSUME Undisturbed' PROVE Whole(r)'
    BY DEF Whole
  <2>1. Calm' /\ Undisturbed
    BY <1>2 DEF Calm
  <2>2. \A e \in moved : e.uuid \notin drop'[r]
    BY <1>2, <1>7, <2>1
  <2>3. \A e \in rows[r] \ moved : e.uuid \in drop'[r]
    BY <1>1 DEF Redundant
  <2>4. UndoRestores'
    BY <1>2, <2>1 DEF Alone, Whole, UndoRestores, Gone, LinksOf
  <2>5. \A n \in nodes : \A i \in LinksOf(n) :
            IF n \in Redirected(r) THEN Mentions(rows[r], n, i.dst) ELSE Mentions(edges, n, i.dst)
    BY <1>2, <2>1 DEF Alone, Whole
  <2> QED BY <1>1, <1>2, <1>7, <2>1, <2>2, <2>3, <2>4, <2>5
          DEF Whole, At, Redirected, Mentions, LinksOf
<1> QED BY <1>3, <1>4, <1>5, <1>8, <1>9 DEF Alone

(* The redundant edges go.                                                 *)
LEMMA AloneDrop ==
    ASSUME IInv, NEW r \in Run, Alone(r), Drop(r)
    PROVE  Alone(r)'
<1>1. /\ pc[r] = "drop" /\ pc'[r] = "create"
      /\ edges' = {e \in edges : e.uuid \notin drop[r]}
      /\ UNCHANGED <<born, nodes, undo, redirect, rows, todo, moving, runs, crashes, failures>>
  BY DEF IInv, TypeOK, Drop, At, GoTo, budget
<1>2. Settled(r)'
  BY <1>1 DEF Alone, Settled, Redirected, At, Ingested, Undisturbed
<1>3. Clear(r)'
  BY <1>1 DEF Alone, Clear, Place, At
<1>4. Apart(r)'
  BY <1>1 DEF Alone, Apart, Undisturbed, At
<1>5. Covered(r)'
  <2> SUFFICES ASSUME Calm' PROVE Covered(r)'
    BY DEF Covered
  <2>1. Calm
    BY <1>1 DEF Calm, Undisturbed
  <2>2. ASSUME NEW i \in Ingested PROVE \E e \in edges' : Alike(e, i)
    <3>1. PICK d \in edges : Alike(d, i)
      BY <2>1 DEF Alone, Covered, MentionsSurvive, Alike
    <3>2. CASE d.uuid \notin drop[r]
      BY <1>1, <3>1, <3>2
    <3>3. CASE d.uuid \in drop[r]
      <4>1. PICK e \in edges : e.uuid \notin drop[r] /\ Alike(e, d)
        BY <1>1, <2>1, <3>3 DEF Alone, Covered, At
      <4> QED BY <1>1, <3>1, <4>1 DEF Alike
    <3> QED BY <3>2, <3>3
  <2> QED BY <1>1, <2>2 DEF Covered, MentionsSurvive, Ingested, Alike, At
<1>6. Whole(r)'
  <2> SUFFICES ASSUME Undisturbed' PROVE Whole(r)'
    BY DEF Whole
  <2>1. Undisturbed
    BY <1>1 DEF Undisturbed
  <2>2. /\ todo[r] \subseteq edges /\ \A e \in todo[r] : e.uuid \notin drop[r]
        /\ \A e \in rows[r] \ todo[r] : e.uuid \in drop[r]
        /\ \A e \in edges : e.uuid \in drop[r] => e \in rows[r]
        /\ UndoRestores
        /\ \A n \in nodes : \A i \in LinksOf(n) :
              IF n \in Redirected(r) THEN Mentions(rows[r], n, i.dst) ELSE Mentions(edges, n, i.dst)
    BY <1>1, <2>1 DEF Alone, Whole, At
  <2>3. \A e \in edges' : e.src \in Redirected(r) => e \in todo[r]
    BY <1>1, <2>2 DEF Alone, Settled
  <2>4. \A n \in nodes \ Redirected(r) : \A t : Mentions(edges, n, t) => Mentions(edges', n, t)
    BY <1>1, <2>2 DEF Mentions, IInv, RowsOfVictims
  <2>5. UndoRestores'
    BY <1>1, <2>2 DEF UndoRestores, Gone, LinksOf
  <2> QED BY <1>1, <2>2, <2>3, <2>4, <2>5 DEF Whole, At, Redirected, Mentions, LinksOf
<1> QED BY <1>2, <1>3, <1>4, <1>5, <1>6 DEF Alone

(* The copy of an edge is created.                                         *)
LEMMA AloneCreate ==
    ASSUME IInv, NEW r \in Run, Alone(r), CreateEdge(r)
    PROVE  Alone(r)'
<1>1. PICK e \in todo[r] :
        /\ pc[r] = "create" /\ todo'[r] = todo[r] \ {e}
        /\ edges' = edges \cup {Moved(r, e)} /\ moving'[r] = e /\ pc'[r] = "unlink"
        /\ UNCHANGED <<born, nodes, undo, redirect, rows, drop, runs, crashes, failures>>
  BY DEF IInv, TypeOK, RowsOfVictims, Alone, Settled, CreateEdge, At, GoTo, budget
<1>2. /\ e \in rows[r] /\ e \in Mention /\ e.src \in Redirected(r)
      /\ redirect[r][e.src] \in nodes \ Redirected(r)
  BY PlacesAreAlike DEF IInv, RowsOfVictims, Alone, Settled
<1>3. /\ Moved(r, e).src = redirect[r][e.src] /\ Moved(r, e).dst = e.dst
      /\ Moved(r, e).uuid = e.uuid /\ Moved(r, e) \in Mention
      /\ <<Moved(r, e).src, Moved(r, e).dst>> = Place(r, e)
      /\ Moved(r, moving[r])' = Moved(r, e) /\ Place(r, moving[r])' = Place(r, e)
  BY <1>1, <1>2 DEF Moved, Mention, Place, IInv, TypeOK
<1>4. \A d, x \in edges' : d.uuid = x.uuid =>
          d.uuid = e.uuid \/ (d \in edges /\ x \in edges)
  BY <1>1, <1>3
<1>5. Settled(r)'
  <2>1. \E i \in Ingested : i.uuid = e.uuid
    BY <1>1, <1>2 DEF Alone, Settled
  <2> QED BY <1>1, <1>2, <1>3, <2>1 DEF Alone, Settled, Redirected, At, Ingested, Undisturbed
<1>6. Clear(r)'
  BY <1>1, <1>3 DEF Alone, Clear, Place, At
<1>7. Apart(r)'
  <2> SUFFICES ASSUME Undisturbed' PROVE Apart(r)'
    BY <1>1 DEF Apart
  <2>1. Undisturbed
    BY <1>1 DEF Undisturbed
  <2>2. e \in edges /\ \A d, x \in edges : d.uuid = x.uuid => d = x
    BY <1>1, <2>1 DEF Alone, Apart, Whole, At
  <2>3. \A d \in edges' : d.uuid = e.uuid => d \in {e, Moved(r, e)}
    BY <1>1, <2>2
  <2> QED BY <1>1, <1>3, <1>4, <2>2, <2>3 DEF Apart, At
<1>8. Covered(r)'
  BY <1>1 DEF Alone, Covered, Calm, MentionsSurvive, Ingested, At, Undisturbed
<1>9. Whole(r)'
  <2> SUFFICES ASSUME Undisturbed' PROVE Whole(r)'
    BY DEF Whole
  <2>1. Undisturbed
    BY <1>1 DEF Undisturbed
  <2>2. /\ todo[r] \subseteq edges /\ UndoRestores
        /\ \A x \in edges : x.src \in Redirected(r) => x \in todo[r]
        /\ \A n \in nodes : \A i \in LinksOf(n) :
              IF n \in Redirected(r) THEN Mentions(rows[r], n, i.dst) ELSE Mentions(edges, n, i.dst)
    BY <1>1, <2>1 DEF Alone, Whole, At
  <2>3. \A x \in edges' : x.src \in Redirected(r) => x \in todo'[r] \/ x = e
    BY <1>1, <1>2, <1>3, <2>2
  <2>4. UndoRestores'
    BY <1>1, <2>2 DEF UndoRestores, Gone, LinksOf
  <2> QED BY <1>1, <2>2, <2>3, <2>4 DEF Whole, At, Redirected, Mentions, LinksOf
<1> QED BY <1>5, <1>6, <1>7, <1>8, <1>9 DEF Alone

(* The original goes.                                                      *)
LEMMA AloneUnlink ==
    ASSUME IInv, NEW r \in Run, Alone(r), Unlink(r)
    PROVE  Alone(r)'
<1>1. /\ pc[r] = "unlink" /\ pc'[r] = "create"
      /\ edges' = edges \ {moving[r]}
      /\ UNCHANGED <<born, nodes, undo, redirect, rows, drop, todo, runs, crashes, failures>>
  BY DEF IInv, TypeOK, Unlink, Continue, At, GoTo, budget
<1>2. /\ moving[r] \in rows[r] /\ moving[r] \in Mention /\ moving[r].src \in Redirected(r)
      /\ redirect[r][moving[r].src] \in nodes \ Redirected(r)
      /\ Moved(r, moving[r]) \in edges
      /\ KeyOf[redirect[r][moving[r].src]] = KeyOf[moving[r].src]
  BY <1>1, PlacesAreAlike DEF Alone, Settled, At
<1>3. /\ Moved(r, moving[r]).src = redirect[r][moving[r].src]
      /\ Moved(r, moving[r]).dst = moving[r].dst /\ Moved(r, moving[r]) # moving[r]
  BY <1>2 DEF Moved, Mention
<1>4. Settled(r)'
  BY <1>1 DEF Alone, Settled, Redirected, At, Ingested, Undisturbed
<1>5. Clear(r)'
  BY <1>1 DEF Alone, Clear, Place, At
<1>6. Apart(r)'
  BY <1>1 DEF Alone, Apart, Undisturbed, At
<1>7. Covered(r)'
  <2>1. Alike(Moved(r, moving[r]), moving[r]) /\ Moved(r, moving[r]) \in edges'
    BY <1>1, <1>2, <1>3 DEF Alike
  <2>2. \A i : \A e \in edges : Alike(e, i) => \E d \in edges' : Alike(d, i)
    BY <1>1, <2>1 DEF Alike
  <2> QED BY <1>1, <2>2 DEF Alone, Covered, Calm, MentionsSurvive, Ingested, At,
             Undisturbed, Alike
<1>8. Whole(r)'
  <2> SUFFICES ASSUME Undisturbed' PROVE Whole(r)'
    BY DEF Whole
  <2>1. Undisturbed
    BY <1>1 DEF Undisturbed
  <2>2. /\ todo[r] \subseteq edges /\ moving[r] \notin todo[r] /\ UndoRestores
        /\ \A x \in edges : x.src \in Redirected(r) => x \in todo[r] \/ x = moving[r]
        /\ \A n \in nodes : \A i \in LinksOf(n) :
              IF n \in Redirected(r) THEN Mentions(rows[r], n, i.dst) ELSE Mentions(edges, n, i.dst)
    BY <1>1, <2>1 DEF Alone, Whole, At
  <2>3. \A n \in nodes \ Redirected(r) : \A t : Mentions(edges, n, t) => Mentions(edges', n, t)
    BY <1>1, <1>2 DEF Mentions
  <2>4. UndoRestores'
    BY <1>1, <2>2 DEF UndoRestores, Gone, LinksOf
  <2> QED BY <1>1, <2>2, <2>3, <2>4 DEF Whole, At, Redirected, Mentions, LinksOf
<1> QED BY <1>4, <1>5, <1>6, <1>7, <1>8 DEF Alone

(* The steps after the moves that change neither graph nor undo log.       *)
LEMMA AloneOn ==
    ASSUME IInv, NEW r \in Run, Alone(r), RowsDone(r) \/ BuildUndo(r)
    PROVE  Alone(r)'
<1>1. /\ UNCHANGED <<born, nodes, edges, undo, redirect, rows, drop, todo, moving,
                     runs, crashes, failures>>
      /\ \/ pc[r] = "create" /\ pc'[r] = "undo" /\ todo[r] = {}
         \/ pc[r] = "undo" /\ pc'[r] = "record"
  BY DEF IInv, TypeOK, RowsDone, BuildUndo, GoTo, At, graph, budget, Alone, Settled
<1>2. Settled(r)'
  BY <1>1 DEF Alone, Settled, Redirected, At, Ingested, Undisturbed
<1>3. Clear(r)' /\ Apart(r)'
  BY <1>1 DEF Alone, Clear, Apart, Undisturbed, At
<1>4. Covered(r)'
  BY <1>1 DEF Alone, Covered, MentionsSurvive, Ingested, At, Calm, Undisturbed
<1>5. Whole(r)'
  BY <1>1 DEF Alone, Whole, Undisturbed, UndoRestores, Gone, LinksOf, At, Redirected, Mentions
<1> QED BY <1>2, <1>3, <1>4, <1>5 DEF Alone

(* The undo rows are stored.                                               *)
LEMMA AloneRecord ==
    ASSUME IInv, NEW r \in Run, Alone(r), RecordUndo(r)
    PROVE  Alone(r)'
<1>1. /\ UNCHANGED <<born, nodes, edges, redirect, rows, todo, moving, runs, crashes, failures>>
      /\ pc[r] = "record" /\ pc'[r] = "delete"
      /\ undo' = undo \cup
            {[victim |-> v, mentions |-> Logged(r, v)] : v \in Redirected(r)}
  BY DEF IInv, TypeOK, RecordUndo, GoTo, At, graph, budget
<1>2. Settled(r)'
  BY <1>1 DEF Alone, Settled, Redirected, At, Ingested, Undisturbed
<1>3. Clear(r)' /\ Apart(r)'
  BY <1>1 DEF Alone, Clear, Apart, Undisturbed, At
<1>4. Covered(r)'
  BY <1>1 DEF Alone, Covered, MentionsSurvive, Ingested, At, Calm, Undisturbed
<1>5. Whole(r)'
  <2> SUFFICES ASSUME Undisturbed' PROVE Whole(r)'
    BY DEF Whole
  <2>1. Undisturbed
    BY <1>1 DEF Undisturbed
  <2>2. ASSUME NEW v \in Redirected(r), NEW i \in LinksOf(v)
        PROVE  \E u \in undo' : u.victim = v /\ i.dst \in u.mentions
    <3>1. v \in nodes
      BY DEF Alone, Settled
    <3>2. PICK d \in rows[r] : d.src = v /\ d.dst = i.dst
      BY <1>1, <2>1, <3>1 DEF Alone, Whole, Mentions
    <3>3. i.dst \in Logged(r, v)
      BY <3>2 DEF Logged
    <3>4. [victim |-> v, mentions |-> Logged(r, v)] \in undo'
      BY <1>1
    <3> QED BY <3>3, <3>4
  <2>3. UndoRestores'
    <3>1. UndoRestores /\ undo \subseteq undo'
      BY <1>1, <2>1 DEF Alone, Whole
    <3> QED BY <1>1, <3>1 DEF UndoRestores, Gone, LinksOf
  <2>4. /\ \A e \in edges : e.src \in Redirected(r) => e \in todo[r]
        /\ todo[r] = {}
        /\ \A n \in nodes : \A i \in LinksOf(n) :
              IF n \in Redirected(r) THEN Mentions(rows[r], n, i.dst) ELSE Mentions(edges, n, i.dst)
    BY <1>1, <2>1 DEF Alone, Whole, At
  <2> QED BY <1>1, <2>2, <2>3, <2>4 DEF Whole, At, Redirected, Mentions, LinksOf
<1> QED BY <1>2, <1>3, <1>4, <1>5 DEF Alone

(* The victims go.                                                         *)
LEMMA AloneDelete ==
    ASSUME IInv, NEW r \in Run, Alone(r), DeleteVictims(r)
    PROVE  Alone(r)'
<1>1. /\ pc[r] = "delete" /\ pc'[r] = "idle" /\ redirect'[r] = NoPlan /\ DOMAIN NoPlan = {}
      /\ rows'[r] = {} /\ UNCHANGED <<born, edges, undo, runs, crashes, failures>>
      /\ nodes' = nodes \ {v \in Redirected(r) : \A e \in edges : e.src # v}
  BY NoPlanIsPlan DEF IInv, TypeOK, DeleteVictims, Return, GoTo, At, budget
<1>2. Settled(r)'
  BY <1>1 DEF Alone, Settled, Redirected, At, Ingested, Undisturbed
<1>3. Clear(r)' /\ Apart(r)'
  BY <1>1 DEF Alone, Clear, Apart, Undisturbed, At
<1>4. Covered(r)'
  BY <1>1 DEF Alone, Covered, MentionsSurvive, Ingested, At, Calm, Undisturbed
<1>5. Whole(r)'
  <2> SUFFICES ASSUME Undisturbed' PROVE Whole(r)'
    BY DEF Whole
  <2>1. Undisturbed
    BY <1>1 DEF Undisturbed
  <2>2. \A e \in edges : e.src \notin Redirected(r)
    BY <1>1, <2>1 DEF Alone, Whole, At
  <2>3. nodes' = nodes \ Redirected(r)
    BY <1>1, <2>2
  <2>4. \A n \in nodes' : \A i \in LinksOf(n) : Mentions(edges, n, i.dst)
    BY <1>1, <2>1, <2>3 DEF Alone, Whole
  <2>5. UndoRestores'
    <3>1. \A n \in Gone' : n \in Gone \/ n \in Redirected(r)
      BY <1>1, <2>3 DEF Gone
    <3> QED BY <1>1, <2>1, <3>1 DEF Alone, Whole, UndoRestores, LinksOf, At
  <2> QED BY <1>1, <2>4, <2>5 DEF Whole, At, Mentions, LinksOf
<1> QED BY <1>2, <1>3, <1>4, <1>5 DEF Alone

(* A query fails and the run goes on.                                      *)
LEMMA AloneFails ==
    ASSUME IInv, NEW r \in Run, Alone(r),
           DropFails(r) \/ CreateEdgeFails(r) \/ UnlinkFails(r)
    PROVE  Alone(r)'
<1>1. /\ UNCHANGED <<born, nodes, edges, undo, redirect, rows, runs, crashes>>
      /\ pc[r] \in {"drop", "create", "unlink"} /\ pc'[r] = "create"
      /\ failures \in Nat /\ failures' = failures + 1
  BY DEF IInv, TypeOK, DropFails, CreateEdgeFails, UnlinkFails, Continue, GoTo, At,
         graph, MayFail
<1>2. failures' # 0
  BY <1>1
<1>3. Settled(r)'
  BY <1>1 DEF Alone, Settled, Redirected, At, Ingested, Undisturbed
<1>4. Clear(r)' /\ Apart(r)' /\ Whole(r)'
  BY <1>1, <1>2 DEF Clear, Apart, Whole, Undisturbed
<1>5. Covered(r)'
  <2>1. Calm' => Calm
    BY <1>1, <1>2 DEF Calm, Undisturbed
  <2> QED BY <1>1, <2>1 DEF Alone, Covered, MentionsSurvive, Ingested, At
<1> QED BY <1>3, <1>4, <1>5 DEF Alone

(* An episode arrives: its node is no victim, its uuids are new.           *)
LEMMA AloneIngest ==
    ASSUME IInv, NEW r \in Run, Alone(r), NEW n \in Node, Ingest(n)
    PROVE  Alone(r)'
<1>1. /\ n \notin born /\ born' = born \cup {n} /\ nodes' = nodes \cup {n}
      /\ edges' = edges \cup LinksOf(n)
      /\ UNCHANGED <<undo, pc, redirect, rows, drop, todo, moving, runs, crashes, failures>>
  BY DEF Ingest, budget
<1>2. /\ \A e \in LinksOf(n) : e \in Mention /\ e.src = n
      /\ \A d, e \in LinksOf(n) : d.uuid = e.uuid => d = e
      /\ \A i \in Ingested : \A e \in LinksOf(n) : i.uuid # e.uuid
  BY <1>1, LinkAssumption DEF LinksOf, Ingested
<1>3. Ingested' = Ingested \cup LinksOf(n)
  BY <1>1 DEF Ingested, LinksOf
<1>4. n \notin Redirected(r) /\ \A v \in Redirected(r) : redirect[r][v] # n
  BY <1>1 DEF IInv, PlansLeadBack
<1>5. /\ \A e \in edges \cup rows[r] : \E i \in Ingested : i.uuid = e.uuid
      /\ \A d \in edges \cup rows[r] : \A e \in LinksOf(n) : d.uuid # e.uuid
  BY <1>2 DEF Alone, Settled
<1>6. Settled(r)'
  BY <1>1, <1>2, <1>3, <1>4, <1>5 DEF Alone, Settled, Redirected, At, Undisturbed, Moved
<1>7. Clear(r)'
  <2>1. \A d \in rows[r] : \A e \in LinksOf(n) : <<e.src, e.dst>> # Place(r, d)
    BY <1>2, <1>4, PlacesAreAlike DEF Place
  <2>2. todo[r] \subseteq rows[r] /\ (At(r, "unlink") => moving[r] \in rows[r])
    BY DEF IInv, RowsOfVictims, Alone, Settled
  <2> QED BY <1>1, <2>1, <2>2 DEF Alone, Clear, Place, At, Moved
<1>8. Apart(r)'
  BY <1>1, <1>2, <1>5 DEF Alone, Apart, At, Moved, Undisturbed
<1>9. Covered(r)'
  <2> SUFFICES ASSUME Calm' PROVE Covered(r)'
    BY DEF Covered
  <2>1. MentionsSurvive'
    <3>1. MentionsSurvive
      BY <1>1 DEF Alone, Covered, Calm, Undisturbed
    <3> QED BY <1>1, <1>3, <3>1 DEF MentionsSurvive
  <2>2. ASSUME At(r, "drop"), NEW d \in edges', d.uuid \in drop[r]
        PROVE  \E e \in edges' : e.uuid \notin drop[r] /\ Alike(e, d)
    <3>1. d \in edges
      BY <1>1, <1>2, <2>2 DEF Alone, Settled
    <3> QED BY <1>1, <2>2, <3>1 DEF Alone, Covered, Calm, Undisturbed
  <2> QED BY <1>1, <2>1, <2>2 DEF Covered, At, Alike
<1>10. Whole(r)'
  <2> SUFFICES ASSUME Undisturbed' PROVE Whole(r)'
    BY DEF Whole
  <2>1. Undisturbed
    BY <1>1 DEF Undisturbed
  <2>2. At(r, "drop") => \A e \in LinksOf(n) : e.uuid \notin drop[r]
    BY <1>2 DEF Alone, Settled
  <2>3. ASSUME NEW m \in nodes', NEW i \in LinksOf(m)
        PROVE  IF m \in Redirected(r) /\ pc[r] \notin {"idle", "read"}
               THEN Mentions(rows[r], m, i.dst) ELSE Mentions(edges', m, i.dst)
    <3>1. CASE m = n
      BY <1>1, <1>2, <1>4, <3>1 DEF Mentions
    <3>2. CASE m # n
      BY <1>1, <2>1, <3>2 DEF Alone, Whole, Mentions
    <3> QED BY <3>1, <3>2
  <2>4. UndoRestores'
    <3>1. Gone' \subseteq Gone
      BY <1>1 DEF Gone
    <3> QED BY <1>1, <2>1, <3>1 DEF Alone, Whole, UndoRestores, LinksOf
  <2>5. \A e \in LinksOf(n) : e.src \notin Redirected(r)
    BY <1>2, <1>4
  <2> QED BY <1>1, <2>1, <2>2, <2>3, <2>4, <2>5
          DEF Alone, Whole, At, Redirected, Mentions, LinksOf
<1> QED BY <1>6, <1>7, <1>8, <1>9, <1>10 DEF Alone

(* All steps, when there is no other process.                              *)
LEMMA AloneInductive ==
    ASSUME OneProcess, IInv, NEW r \in Run, Alone(r), [Next]_vars
    PROVE  Alone(r)'
<1>1. CASE Start(r)
  BY <1>1, AloneStart
<1>2. CASE Proceed(r)
  <2>1. CASE ReadVictims(r)
    BY <2>1, AloneRead
  <2>2. CASE ReadSurvivors(r)
    BY <2>2, AlonePartition DEF ReadSurvivors, budget
  <2>3. CASE Drop(r) \/ CreateEdge(r) \/ Unlink(r)
    BY <2>3, AloneDrop, AloneCreate, AloneUnlink
  <2>4. CASE RowsDone(r) \/ BuildUndo(r) \/ RecordUndo(r) \/ DeleteVictims(r)
    BY <2>4, AloneOn, AloneRecord, AloneDelete
  <2> QED BY <1>2, <2>1, <2>2, <2>3, <2>4 DEF Proceed
<1>3. CASE Fails(r)
  <2>1. MayFail => failures' # 0
    BY DEF MayFail, IInv, TypeOK
  <2>2. CASE ReadVictimsFails(r) \/ UndoFails(r) \/ DeleteVictimsFails(r)
    BY <2>1, <2>2, GiveUp
       DEF ReadVictimsFails, UndoFails, DeleteVictimsFails, At, Undisturbed
  <2>3. CASE ReadSurvivorsFails(r)
    BY <2>1, <2>3, AlonePartition DEF ReadSurvivorsFails
  <2>4. CASE DropFails(r) \/ CreateEdgeFails(r) \/ UnlinkFails(r)
    BY <2>4, AloneFails
  <2> QED BY <1>3, <2>2, <2>3, <2>4 DEF Fails
<1>4. CASE Crash(r)
  <2>1. crashes' # 0
    BY <1>4 DEF Crash, IInv, TypeOK
  <2> QED BY <1>4, <2>1, GiveUp DEF Crash, At, Undisturbed
<1>5. CASE \E n \in Node : Ingest(n)
  BY <1>5, AloneIngest
<1>6. CASE UNCHANGED vars
  <2>1. UNCHANGED <<born, nodes, edges, undo, pc, redirect, rows, drop, todo, moving,
                    runs, crashes, failures>>
    BY <1>6 DEF vars, graph, budget
  <2>2. Settled(r)'
    BY <2>1 DEF Alone, Settled, Redirected, At, Ingested, Undisturbed, Moved
  <2>3. Clear(r)' /\ Apart(r)'
    BY <2>1 DEF Alone, Clear, Apart, Undisturbed, At, Moved, Place
  <2>4. Covered(r)'
    BY <2>1 DEF Alone, Covered, MentionsSurvive, Ingested, At, Calm, Undisturbed
  <2>5. Whole(r)'
    BY <2>1 DEF Alone, Whole, Undisturbed, UndoRestores, Gone, LinksOf, At, Redirected, Mentions
  <2> QED BY <2>2, <2>3, <2>4, <2>5 DEF Alone
<1>7. \A q \in Run : q = r
  BY DEF OneProcess
<1> QED BY <1>1, <1>2, <1>3, <1>4, <1>5, <1>6, <1>7 DEF Next

LEMMA AloneInitially ==
    ASSUME Init, NEW r \in Run
    PROVE  Alone(r)
<1>1. pc[r] = "idle" /\ edges = Ingested /\ nodes = born /\ rows[r] = {} /\ runs = 0
      /\ Undisturbed /\ Redirected(r) = {}
  BY NoPlanIsPlan DEF Init, Ingested, Undisturbed, Redirected
<1>2. Settled(r)
  BY <1>1 DEF Settled, At
<1>3. Clear(r) /\ Apart(r)
  BY <1>1, LinkAssumption DEF Clear, Apart, At, Ingested, LinksOf
<1>4. Covered(r)
  BY <1>1 DEF Covered, MentionsSurvive, At
<1>5. Whole(r)
  BY <1>1 DEF Whole, At, Mentions, UndoRestores, Gone, Ingested, LinksOf
<1> QED BY <1>2, <1>3, <1>4, <1>5 DEF Alone

(* The invariant of the only process.                                      *)
THEOREM AloneAlways ==
    ASSUME OneProcess
    PROVE  Spec => [](\A r \in Run : Alone(r))
<1>1. Init => \A r \in Run : Alone(r)
  BY AloneInitially
<1>2. IInv /\ (\A r \in Run : Alone(r)) /\ [Next]_vars => (\A r \in Run : Alone(r))'
  BY AloneInductive
<1> QED BY <1>1, <1>2, Invariant, PTL DEF Spec

(* The edge a single process creates meets no other edge of the survivor   *)
(* to the same entity, as long as no query failed (apply_episodic_plan).   *)
THEOREM MovesAddNoDuplicateAlways ==
    ASSUME OneProcess
    PROVE  Spec => []MovesAddNoDuplicate
<1>1. IInv /\ (\A r \in Run : Alone(r)) => MovesAddNoDuplicate
  <2> SUFFICES ASSUME IInv, NEW r \in Run, Alone(r), failures = 0, At(r, "unlink"),
                      NEW e \in edges, e.src = redirect[r][moving[r].src], e.dst = moving[r].dst
               PROVE  e.uuid = moving[r].uuid
    BY DEF MovesAddNoDuplicate, NoMovedDuplicate
  <2>1. moving[r] \in rows[r]
    BY DEF Alone, Settled
  <2>2. moving[r] \in Mention
    BY <2>1, PlacesAreAlike
  <2>3. e = Moved(r, moving[r])
    BY DEF Alone, Clear, Place, At
  <2> QED BY <2>2, <2>3 DEF Moved, Mention
<1> QED BY <1>1, AloneAlways, Invariant, PTL

(* A single process loses no MENTIONS: not in undisturbed runs, and not in *)
(* the first one that fails or dies anywhere (apply_episodic_plan).        *)
THEOREM FoldKeepsMentionsAlways ==
    ASSUME OneProcess
    PROVE  Spec => []FoldKeepsMentions
<1>1. (\A r \in Run : Alone(r)) => FoldKeepsMentions
  BY DEF OneProcess, Alone, Covered, Calm, FoldKeepsMentions
<1> QED BY <1>1, AloneAlways, PTL

(* Undisturbed runs of a single process leave undo rows that restore all   *)
(* a deleted node ever mentioned (_build_episodic_undo_rows).              *)
THEOREM FoldIsUndoableAlways ==
    ASSUME OneProcess
    PROVE  Spec => []FoldIsUndoable
<1>1. (\A r \in Run : Alone(r)) => FoldIsUndoable
  BY DEF OneProcess, Alone, Whole, FoldIsUndoable
<1> QED BY <1>1, AloneAlways, PTL
=============================================================================
