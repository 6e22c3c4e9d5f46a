------------------------- MODULE EntityMerge_proofs -------------------------
(***************************************************************************)
(* What no interleaving of runs, crash, failure or arrival can break in    *)
(* EntityMerge.  Every fold leads to a better node of the same name, where *)
(* better is the order of _pick_survivor: a MENTIONS edge therefore only   *)
(* ever moves to better nodes, and while the old edge waits for its DELETE *)
(* there is one with the same uuid at a better node, also when another run *)
(* moves that one on.  The best node of a name is never a victim.  The     *)
(* last part assumes one process, and shows that no fact is lost.          *)
(***************************************************************************)
EXTENDS EntityMerge, WellFoundedInduction, TLAPS

USE EntityAssumption, BoundAssumption

(* A plan and its unfolded rest name nodes that were ingested, and a       *)
(* victim is sent to a better node of its name.                            *)
PlansLeadUp ==
    \A r \in Run :
        /\ rest[r] \subseteq born
        /\ \A v \in Victims(r) :
            /\ v \in born /\ root[r][v] \in born
            /\ NameOf[root[r][v]] = NameOf[v]
            /\ Rank[root[r][v]] < Rank[v]

(* The rows of a phase are of its kind and end at a victim.                *)
RowsFit ==
    \A r \in Run :
        /\ pc[r] \in {"idle", "plan"} => todo[r] = {} /\ moving[r] = NoEdge
        /\ pc[r] = "mentions" =>
            /\ \A e \in todo[r] : IsMention(e) /\ e.dst \in Victims(r)
            /\ moving[r] # NoEdge => IsMention(moving[r])
        /\ pc[r] = "relations" =>
            /\ \A e \in todo[r] : ~IsMention(e)
            /\ moving[r] # NoEdge => ~IsMention(moving[r])
        /\ pc[r] = "delete" => moving[r] = NoEdge

(* d is e, or what became of e: the same MENTIONS at a better node.        *)
Above(d, e) ==
    /\ IsMention(d) /\ d.src = e.src /\ d.uuid = e.uuid
    /\ NameOf[d.dst] = NameOf[e.dst]
    /\ Rank[d.dst] <= Rank[e.dst]

(* Before a MENTIONS edge is unlinked it has a copy at a better node.      *)
CopyFirst ==
    \A r \in Run : moving[r] # NoEdge /\ IsMention(moving[r]) =>
        \E d \in edges : Above(d, moving[r]) /\ d.dst # moving[r].dst

(* What is gone was worse than another node of its name.                   *)
GoneWereWorse ==
    \A n \in born \ nodes :
        \E m \in born : NameOf[m] = NameOf[n] /\ Rank[m] < Rank[n]

IInv ==
    /\ TypeOK
    /\ PlansLeadUp
    /\ RowsFit
    /\ CopyFirst
    /\ GoneWereWorse
    /\ MentionsKept
    /\ NothingDangles

-----------------------------------------------------------------------------
LEMMA Kinds ==
    ASSUME NEW e \in Link
    PROVE  /\ e.dst \in Entity /\ e.uuid \in Uuid
           /\ IsMention(e) <=> e \in Mention
           /\ ~IsMention(e) <=> e \in Relation
           /\ ~IsMention(e) => e.src \in Entity
  BY DEF Link, Mention, Relation, IsMention

LEMMA RootIsEntity ==
    ASSUME IInv, NEW r \in Run, NEW n \in Entity
    PROVE  Root(r, n) \in Entity
  BY DEF IInv, PlansLeadUp, TypeOK, Root

LEMMA EpisodeIsRoot ==
    ASSUME IInv, NEW r \in Run, NEW p \in Episode
    PROVE  Root(r, p) = p
<1>1. p \notin Entity
  OBVIOUS
<1>2. Victims(r) \subseteq Entity
  BY DEF IInv, PlansLeadUp, TypeOK
<1> QED
  BY <1>1, <1>2 DEF Root

LEMMA RedirectedMention ==
    ASSUME IInv, NEW r \in Run, NEW e \in Mention
    PROVE  /\ Redirected(r, e) \in Mention
           /\ Redirected(r, e).src = e.src
           /\ Redirected(r, e).dst = Root(r, e.dst)
           /\ Redirected(r, e).uuid = e.uuid
<1>1. e.src \in Episode /\ e.dst \in Entity
  BY DEF Mention
<1>2. Root(r, e.src) = e.src /\ Root(r, e.dst) \in Entity
  BY <1>1, EpisodeIsRoot, RootIsEntity
<1> QED
  BY <1>1, <1>2 DEF Redirected, Mention

LEMMA RedirectedRelation ==
    ASSUME IInv, NEW r \in Run, NEW e \in Relation
    PROVE  /\ Redirected(r, e) \in Relation
           /\ Redirected(r, e).src = Root(r, e.src)
           /\ Redirected(r, e).dst = Root(r, e.dst)
<1>1. e.src \in Entity /\ e.dst \in Entity
  BY DEF Relation
<1>2. Root(r, e.src) \in Entity /\ Root(r, e.dst) \in Entity
  BY <1>1, RootIsEntity
<1> QED
  BY <1>1, <1>2 DEF Redirected, Relation

LEMMA AboveIsTransitive ==
    ASSUME NEW c \in Link, NEW d \in Link, NEW e \in Link,
           Above(c, d), Above(d, e)
    PROVE  Above(c, e)
<1>1. Rank[c.dst] \in Nat /\ Rank[d.dst] \in Nat /\ Rank[e.dst] \in Nat
  BY Kinds
<1> QED
  BY <1>1 DEF Above

LEMMA AboveItself ==
    ASSUME NEW e \in Link, IsMention(e)
    PROVE  Above(e, e)
<1>1. Rank[e.dst] \in Nat
  BY Kinds
<1> QED
  BY <1>1 DEF Above

(* When no MENTIONS edge loses what is above it, all that was kept is kept.*)
LEMMA KeptWhenAbove ==
    ASSUME IInv, TypeOK',
           \A e \in edges : IsMention(e) => \E d \in edges' : Above(d, e),
           \A i \in told' \ told : i \in edges'
    PROVE  MentionsKept'
<1> SUFFICES ASSUME NEW i \in told', IsMention(i)
             PROVE  \E e \in edges' : e.src = i.src /\ e.uuid = i.uuid /\ Named(e, i)
  BY DEF MentionsKept, Named, IsMention
<1>1. i \in Link
  BY LinkAssumption DEF TypeOK
<1>2. CASE i \in told
  <2>1. PICK e \in edges : e.src = i.src /\ e.uuid = i.uuid /\ Named(e, i)
    BY <1>2 DEF IInv, MentionsKept
  <2>2. IsMention(e)
    BY <2>1 DEF IsMention
  <2>3. PICK d \in edges' : Above(d, e)
    BY <2>2
  <2>4. d \in Link
    BY DEF TypeOK
  <2> QED
    BY <2>1, <2>3, <2>4, Kinds DEF Above, Named
<1>3. CASE i \notin told
  <2>1. i \in edges' /\ i.dst \in Entity
    BY <1>1, <1>3, Kinds
  <2> QED
    BY <2>1 DEF Named
<1> QED
  BY <1>2, <1>3

(* The same for the copies of the edges that are about to be unlinked.     *)
LEMMA CopiedWhenAbove ==
    ASSUME IInv, NEW r \in Run, moving[r] # NoEdge, IsMention(moving[r]),
           \A e \in edges : IsMention(e) => \E d \in edges' : Above(d, e) /\ d \in Link
    PROVE  \E d \in edges' : Above(d, moving[r]) /\ d.dst # moving[r].dst
<1> DEFINE m == moving[r]
<1>1. m \in Link
  BY DEF IInv, TypeOK
<1>2. PICK e \in edges : Above(e, m) /\ e.dst # m.dst
  BY DEF IInv, CopyFirst
<1>3. e \in Link /\ IsMention(e)
  BY <1>2 DEF IInv, TypeOK, Above
<1>4. PICK d \in edges' : Above(d, e) /\ d \in Link
  BY <1>3
<1>5. Above(d, m)
  BY <1>1, <1>2, <1>3, <1>4, AboveIsTransitive
<1>6. Rank[e.dst] # Rank[m.dst]
  <2>1. e.dst \in Entity /\ m.dst \in Entity
    BY <1>1, <1>3, Kinds
  <2> QED
    BY <1>2, <2>1
<1>7. d.dst # m.dst
  <2>1. Rank[d.dst] \in Nat /\ Rank[e.dst] \in Nat /\ Rank[m.dst] \in Nat
    BY <1>1, <1>3, <1>4, Kinds
  <2> QED
    BY <1>2, <1>4, <1>6, <2>1 DEF Above
<1> QED
  BY <1>5, <1>7

-----------------------------------------------------------------------------
LEMMA NoPlanIsPlan == NoPlan \in Plans /\ DOMAIN NoPlan = {}
<1>1. NoPlan \in [{} -> Entity]
  BY DEF NoPlan
<1>2. {} \in SUBSET Entity
  OBVIOUS
<1> QED
  BY <1>1, <1>2 DEF Plans

(* A step that leaves the graph alone and starts no move.                  *)
LEMMA LocalStep ==
    ASSUME IInv, TypeOK', PlansLeadUp', RowsFit', UNCHANGED graph,
           \A r \in Run : moving'[r] \in {moving[r], NoEdge}
    PROVE  IInv'
<1> USE DEF graph
<1>1. CopyFirst'
  BY DEF IInv, CopyFirst, IsMention, Above
<1>2. GoneWereWorse'
  BY DEF IInv, GoneWereWorse
<1>3. MentionsKept' /\ NothingDangles'
  BY DEF IInv, MentionsKept, NothingDangles, IsMention, Named, Connects
<1> QED
  BY <1>1, <1>2, <1>3 DEF IInv

LEMMA ReturnIsLocal ==
    ASSUME IInv, NEW r \in Run, Return(r)
    PROVE  /\ pc' \in [Run -> Pc] /\ rest' \in [Run -> SUBSET Entity]
           /\ root' \in [Run -> Plans] /\ todo' \in [Run -> SUBSET Link]
           /\ moving' \in [Run -> Link \cup {NoEdge}]
           /\ RowsFit'
           /\ born \subseteq born' => PlansLeadUp'
           /\ \A q \in Run : moving'[q] \in {moving[q], NoEdge}
<1> USE DEF Return, GoTo
<1>1. NoPlan \in Plans /\ DOMAIN NoPlan = {}
  BY NoPlanIsPlan
<1>2. /\ pc' \in [Run -> Pc] /\ rest' \in [Run -> SUBSET Entity]
      /\ root' \in [Run -> Plans] /\ todo' \in [Run -> SUBSET Link]
      /\ moving' \in [Run -> Link \cup {NoEdge}]
  BY <1>1 DEF IInv, TypeOK, Pc
<1>3. \A q \in Run : q # r =>
        /\ pc'[q] = pc[q] /\ rest'[q] = rest[q] /\ root'[q] = root[q]
        /\ todo'[q] = todo[q] /\ moving'[q] = moving[q]
  BY DEF IInv, TypeOK
<1>4. /\ pc'[r] = "idle" /\ rest'[r] = {} /\ root'[r] = NoPlan
      /\ todo'[r] = {} /\ moving'[r] = NoEdge
  BY DEF IInv, TypeOK
<1>5. RowsFit'
  BY <1>3, <1>4 DEF IInv, RowsFit, IsMention, Victims
<1>6. born \subseteq born' => PlansLeadUp'
  BY <1>1, <1>3, <1>4 DEF IInv, PlansLeadUp, Victims
<1>7. \A q \in Run : moving'[q] \in {moving[q], NoEdge}
  BY <1>3, <1>4
<1> QED
  BY <1>2, <1>5, <1>6, <1>7

LEMMA ReturnStep ==
    ASSUME IInv, NEW r \in Run, Return(r), UNCHANGED graph, runs' = runs,
           crashes' \in 0..MaxCrashes, failures' \in 0..MaxFailures
    PROVE  IInv'
<1>1. TypeOK'
  BY ReturnIsLocal DEF IInv, TypeOK, graph
<1> QED
  BY <1>1, ReturnIsLocal, LocalStep DEF graph

LEMMA StartStep ==
    ASSUME IInv, NEW r \in Run, Start(r)
    PROVE  IInv'
<1> USE DEF Start, GoTo, graph
<1>1. TypeOK'
  BY DEF IInv, TypeOK, Pc
<1>2. PlansLeadUp'
  BY DEF IInv, TypeOK, PlansLeadUp, Victims
<1>3. RowsFit'
  BY DEF IInv, TypeOK, RowsFit, At, IsMention, Victims
<1> QED
  BY <1>1, <1>2, <1>3, LocalStep

LEMMA FoldStep ==
    ASSUME IInv, NEW r \in Run, Fold(r)
    PROVE  IInv'
<1> USE DEF graph, budget
<1>1. PICK p \in Best(rest[r]) :
        LET k == Keeper(p[1], p[2])
            v == CHOOSE n \in {p[1], p[2]} : n # k
        IN  /\ root' = [root EXCEPT ![r] = Folded(r, v, k)]
            /\ rest' = [rest EXCEPT ![r] = @ \ {v}]
  BY DEF Fold
<1> DEFINE k == Keeper(p[1], p[2])
           v == CHOOSE n \in {p[1], p[2]} : n # k
<1>2. /\ p[1] \in rest[r] /\ p[2] \in rest[r] /\ Rank[p[1]] < Rank[p[2]]
      /\ NameOf[p[1]] = NameOf[p[2]]
  BY DEF Best, Pairs, Reaches
<1>3. rest[r] \subseteq born /\ born \subseteq Entity
  BY DEF IInv, PlansLeadUp, TypeOK
<1>4. k = p[1] /\ p[1] # p[2]
  BY <1>2, <1>3 DEF Keeper
<1>5. v = p[2]
  BY <1>4
<1>6. /\ k \in born /\ v \in born /\ NameOf[k] = NameOf[v] /\ Rank[k] < Rank[v]
      /\ root' = [root EXCEPT ![r] = Folded(r, v, k)]
      /\ rest' = [rest EXCEPT ![r] = @ \ {v}]
  BY <1>1, <1>2, <1>3, <1>4, <1>5
<1> HIDE DEF k, v
<1>7. DOMAIN Folded(r, v, k) = Victims(r) \cup {v}
  BY DEF Folded
<1>8. ASSUME NEW n \in Victims(r) \cup {v}
      PROVE  /\ n \in born /\ Folded(r, v, k)[n] \in born
             /\ NameOf[Folded(r, v, k)[n]] = NameOf[n]
             /\ Rank[Folded(r, v, k)[n]] < Rank[n]
  <2>1. Folded(r, v, k)[n] = IF Root(r, n) = v THEN k ELSE root[r][n]
    BY DEF Folded
  <2>2. CASE n \in Victims(r)
    <3>1. /\ n \in born /\ root[r][n] \in born /\ Root(r, n) = root[r][n]
          /\ NameOf[root[r][n]] = NameOf[n] /\ Rank[root[r][n]] < Rank[n]
      BY <2>2 DEF IInv, PlansLeadUp, Root
    <3>2. Rank[k] \in Nat /\ Rank[v] \in Nat /\ Rank[n] \in Nat
      BY <1>3, <1>6, <3>1
    <3> QED
      BY <1>6, <2>1, <3>1, <3>2
  <2>3. CASE n \notin Victims(r)
    BY <1>6, <2>1, <2>3 DEF Root
  <2> QED
    BY <2>2, <2>3
<1>9. Folded(r, v, k) \in Plans
  <2>1. Victims(r) \cup {v} \in SUBSET Entity
    BY <1>3, <1>8
  <2>2. Folded(r, v, k) \in [Victims(r) \cup {v} -> Entity]
    BY <1>3, <1>7, <1>8 DEF Folded
  <2> QED
    BY <2>1, <2>2 DEF Plans
<1>10. UNCHANGED <<graph, pc, todo, moving, budget>> /\ At(r, "plan")
  BY DEF Fold
<1>11. TypeOK'
  BY <1>6, <1>9, <1>10 DEF IInv, TypeOK
<1>12. \A q \in Run : q # r => root'[q] = root[q] /\ rest'[q] = rest[q]
  BY <1>6 DEF IInv, TypeOK
<1>13. root'[r] = Folded(r, v, k) /\ rest'[r] \subseteq rest[r]
  BY <1>6 DEF IInv, TypeOK
<1>14. PlansLeadUp'
  BY <1>3, <1>7, <1>8, <1>10, <1>12, <1>13 DEF IInv, PlansLeadUp, Victims
<1>15. RowsFit'
  BY <1>10, <1>12 DEF IInv, RowsFit, Victims, IsMention, At
<1> QED
  BY <1>10, <1>11, <1>14, <1>15, LocalStep

(* The steps that read rows, fail, or end a loop.                          *)
LEMMA ReadStep ==
    ASSUME IInv, NEW r \in Run,
           \/ ReadMentions(r) \/ ReadMentionsFails(r)
           \/ ReadRelations(r) \/ ReadRelationsFails(r)
           \/ RowFails(r) \/ UnlinkFails(r) \/ CollapseFails(r)
    PROVE  IInv'
<1> USE DEF graph, budget
<1>1. MayFail => failures' \in 0..MaxFailures
  BY DEF MayFail, IInv, TypeOK
<1>2. MentionRows(r) \subseteq Link /\ RelationRows(r) \subseteq Link
  BY DEF MentionRows, RelationRows, IInv, TypeOK
<1>3. UNCHANGED graph /\ UNCHANGED <<rest, root, runs, crashes>>
  BY DEF ReadMentions, ReadMentionsFails, ReadRelations, ReadRelationsFails,
     RowFails, UnlinkFails, CollapseFails
<1>4. PlansLeadUp'
  BY <1>3 DEF IInv, PlansLeadUp, Victims
<1>5. CASE ReadMentions(r) \/ ReadMentionsFails(r)
  <2>1. /\ pc[r] = "plan" /\ pc' = [pc EXCEPT ![r] = "mentions"]
        /\ UNCHANGED moving /\ failures' \in 0..MaxFailures
        /\ \/ UNCHANGED todo
           \/ todo' = [todo EXCEPT ![r] = MentionRows(r)]
    BY <1>1, <1>5 DEF ReadMentions, ReadMentionsFails, GoTo, At, IInv, TypeOK
  <2>2. TypeOK'
    BY <1>2, <1>3, <2>1 DEF IInv, TypeOK, Pc
  <2>3. RowsFit'
    BY <1>3, <2>1 DEF IInv, TypeOK, RowsFit, IsMention, Victims, MentionRows
  <2> QED
    BY <1>3, <1>4, <2>1, <2>2, <2>3, LocalStep
<1>6. CASE ReadRelations(r) \/ ReadRelationsFails(r)
  <2>1. /\ pc[r] = "mentions" /\ pc' = [pc EXCEPT ![r] = "relations"]
        /\ todo[r] = {} /\ moving[r] = NoEdge
        /\ UNCHANGED moving /\ failures' \in 0..MaxFailures
        /\ \/ UNCHANGED todo
           \/ todo' = [todo EXCEPT ![r] = RelationRows(r)]
    BY <1>1, <1>6 DEF ReadRelations, ReadRelationsFails, GoTo, At, RowsDone, IInv, TypeOK
  <2>2. TypeOK'
    BY <1>2, <1>3, <2>1 DEF IInv, TypeOK, Pc
  <2>3. RowsFit'
    BY <1>3, <2>1 DEF IInv, TypeOK, RowsFit, IsMention, Victims, RelationRows
  <2> QED
    BY <1>3, <1>4, <2>1, <2>2, <2>3, LocalStep
<1>7. CASE RowFails(r)
  <2>1. PICK e \in todo[r] : todo' = [todo EXCEPT ![r] = @ \ {e}]
    BY <1>7 DEF RowFails, Take
  <2>2. UNCHANGED <<pc, moving>> /\ failures' \in 0..MaxFailures
    BY <1>1, <1>7 DEF RowFails
  <2>3. TypeOK'
    BY <1>3, <2>1, <2>2 DEF IInv, TypeOK
  <2>4. \A q \in Run : todo'[q] \subseteq todo[q]
    BY <2>1 DEF IInv, TypeOK
  <2>5. RowsFit'
    BY <1>3, <2>2, <2>4 DEF IInv, RowsFit, IsMention, Victims
  <2> QED
    BY <1>3, <1>4, <2>2, <2>3, <2>5, LocalStep
<1>8. CASE UnlinkFails(r)
  <2>1. /\ moving' = [moving EXCEPT ![r] = NoEdge]
        /\ UNCHANGED <<pc, todo>> /\ failures' \in 0..MaxFailures
    BY <1>1, <1>8 DEF UnlinkFails
  <2>2. TypeOK'
    BY <1>3, <2>1 DEF IInv, TypeOK
  <2>3. \A q \in Run : moving'[q] \in {moving[q], NoEdge}
    BY <2>1 DEF IInv, TypeOK
  <2>4. RowsFit'
    BY <1>3, <2>1, <2>3 DEF IInv, RowsFit, IsMention, Victims
  <2> QED
    BY <1>3, <1>4, <2>2, <2>3, <2>4, LocalStep
<1>9. CASE CollapseFails(r)
  <2>1. /\ moving[r] = NoEdge /\ pc' = [pc EXCEPT ![r] = "delete"]
        /\ UNCHANGED <<todo, moving>> /\ failures' \in 0..MaxFailures
    BY <1>1, <1>9 DEF CollapseFails, GoTo, RowsDone
  <2>2. TypeOK'
    BY <1>3, <2>1 DEF IInv, TypeOK, Pc
  <2>3. RowsFit'
    BY <1>3, <2>1 DEF IInv, TypeOK, RowsFit, IsMention, Victims
  <2> QED
    BY <1>3, <1>4, <2>1, <2>2, <2>3, LocalStep
<1> QED
  BY <1>5, <1>6, <1>7, <1>8, <1>9

(* A row of a phase that its run works on.                                 *)
LEMMA RowIsLink ==
    ASSUME IInv, NEW r \in Run, NEW e \in todo[r]
    PROVE  e \in Link
  BY DEF IInv, TypeOK

(* What a step that takes a row does to the run.                           *)
Takes(r, e) ==
    /\ todo' = [todo EXCEPT ![r] = @ \ {e}]
    /\ moving' \in {moving, [moving EXCEPT ![r] = e]}
    /\ UNCHANGED <<born, told, nodes, pc, rest, root, budget>>

LEMMA TakesKeeps ==
    ASSUME IInv, NEW r \in Run, NEW e \in todo[r], Takes(r, e), edges' \subseteq Link,
           \/ pc[r] = "mentions" /\ IsMention(e)
           \/ pc[r] = "relations" /\ ~IsMention(e)
    PROVE  TypeOK' /\ PlansLeadUp' /\ RowsFit' /\ GoneWereWorse'
<1> USE DEF Takes, budget
<1>1. e \in Link
  BY RowIsLink
<1>2. TypeOK'
  BY <1>1 DEF IInv, TypeOK
<1>3. PlansLeadUp' /\ GoneWereWorse'
  BY DEF IInv, PlansLeadUp, Victims, GoneWereWorse
<1>4. \A q \in Run : /\ todo'[q] \subseteq todo[q]
                     /\ q # r => moving'[q] = moving[q]
                     /\ moving'[r] \in {moving[r], e}
  BY DEF IInv, TypeOK
<1>5. RowsFit'
  BY <1>4 DEF IInv, RowsFit, IsMention, Victims
<1> QED
  BY <1>2, <1>3, <1>5

LEMMA CreateMentionStep ==
    ASSUME IInv, NEW r \in Run, CreateMention(r)
    PROVE  IInv'
<1> USE DEF budget
<1>1. PICK e \in todo[r] :
        /\ At(r, "mentions") /\ Take(r, e)
        /\ IF Root(r, e.dst) \in nodes
           THEN /\ edges' = edges \cup {Redirected(r, e)}
                /\ moving' = [moving EXCEPT ![r] = e]
           ELSE UNCHANGED <<edges, moving>>
        /\ UNCHANGED <<born, told, nodes, pc, rest, root, budget>>
  BY DEF CreateMention
<1> DEFINE c == Redirected(r, e)
<1>2. /\ e \in Link /\ IsMention(e) /\ e.dst \in Victims(r) /\ pc[r] = "mentions"
      /\ e \in Mention /\ e.dst \in Entity
  <2>1. e \in Link /\ pc[r] = "mentions"
    BY <1>1, RowIsLink DEF At
  <2>2. IsMention(e) /\ e.dst \in Victims(r)
    BY <2>1 DEF IInv, RowsFit
  <2> QED
    BY <2>1, <2>2, Kinds
<1>3. /\ c \in Mention /\ c.src = e.src /\ c.dst = Root(r, e.dst) /\ c.uuid = e.uuid
  BY <1>2, RedirectedMention
<1> HIDE DEF c
<1>4. Takes(r, e) /\ edges \subseteq edges' /\ edges' \subseteq Link
  BY <1>1, <1>3 DEF Takes, Take, c, IInv, TypeOK, Link
<1>5. TypeOK' /\ PlansLeadUp' /\ RowsFit' /\ GoneWereWorse'
  BY <1>2, <1>4, TakesKeeps
<1>6. MentionsKept'
  BY <1>1, <1>4 DEF IInv, MentionsKept, IsMention, Named
<1>7. NothingDangles'
  <2>1. CASE Root(r, e.dst) \in nodes
    <3>1. Connects(c, nodes)
      BY <1>2, <1>3, <2>1 DEF Connects, IsMention
    <3> QED
      BY <1>1, <2>1, <3>1 DEF c, IInv, NothingDangles, Connects
  <2>2. CASE Root(r, e.dst) \notin nodes
    BY <1>1, <2>2 DEF IInv, NothingDangles, Connects
  <2> QED
    BY <2>1, <2>2
<1>8. CopyFirst'
  <2> SUFFICES ASSUME NEW q \in Run, moving'[q] # NoEdge, IsMention(moving'[q])
               PROVE  \E d \in edges' : Above(d, moving'[q]) /\ d.dst # moving'[q].dst
    BY DEF CopyFirst, IsMention, Above
  <2>1. CASE moving'[q] = moving[q]
    BY <1>4, <2>1 DEF IInv, CopyFirst
  <2>2. CASE moving'[q] # moving[q]
    <3>1. q = r /\ moving'[q] = e /\ c \in edges'
      BY <1>1, <2>2 DEF c, IInv, TypeOK
    <3>2. /\ c.dst = root[r][e.dst]
          /\ NameOf[c.dst] = NameOf[e.dst] /\ Rank[c.dst] < Rank[e.dst]
      BY <1>2, <1>3 DEF Root, IInv, PlansLeadUp
    <3>3. Rank[c.dst] \in Nat /\ Rank[e.dst] \in Nat
      BY <1>2, <1>3 DEF Mention
    <3>4. IsMention(c)
      BY <1>2, <1>3 DEF IsMention
    <3>5. Above(c, e) /\ c.dst # e.dst
      BY <1>3, <3>2, <3>3, <3>4 DEF Above
    <3> QED
      BY <3>1, <3>5
  <2> QED
    BY <2>1, <2>2
<1> QED
  BY <1>5, <1>6, <1>7, <1>8 DEF IInv

(* Any step that keeps something above every MENTIONS edge and starts to   *)
(* move none.                                                              *)
LEMMA EdgeStep ==
    ASSUME IInv, TypeOK', PlansLeadUp', RowsFit', GoneWereWorse', NothingDangles',
           \A i \in told' \ told : i \in edges',
           \A r \in Run : \/ moving'[r] \in {moving[r], NoEdge}
                          \/ ~IsMention(moving'[r]),
           \A e \in edges : IsMention(e) => \E d \in edges' : Above(d, e)
    PROVE  IInv'
<1>1. MentionsKept'
  BY KeptWhenAbove
<1>2. CopyFirst'
  <2> SUFFICES ASSUME NEW r \in Run, moving'[r] # NoEdge, IsMention(moving'[r])
               PROVE  \E d \in edges' : Above(d, moving'[r]) /\ d.dst # moving'[r].dst
    BY DEF CopyFirst, IsMention, Above
  <2>1. moving'[r] = moving[r]
    OBVIOUS
  <2>2. \A e \in edges : IsMention(e) => \E d \in edges' : Above(d, e) /\ d \in Link
    BY DEF TypeOK
  <2> QED
    BY <2>1, <2>2, CopiedWhenAbove
<1> QED
  BY <1>1, <1>2 DEF IInv

LEMMA StaysAbove ==
    ASSUME IInv, NEW E, \A e \in edges : IsMention(e) => e \in E
    PROVE  \A e \in edges : IsMention(e) => \E d \in E : Above(d, e)
  BY AboveItself DEF IInv, TypeOK

LEMMA CreateRelationStep ==
    ASSUME IInv, NEW r \in Run, CreateRelation(r)
    PROVE  IInv'
<1> USE DEF budget
<1>1. PICK e \in todo[r] :
        /\ At(r, "relations") /\ Take(r, e)
        /\ edges' = IF {Root(r, e.src), Root(r, e.dst)} \subseteq nodes
                    THEN edges \cup {Redirected(r, e)} ELSE edges
        /\ moving' = [moving EXCEPT ![r] = e]
        /\ UNCHANGED <<born, told, nodes, pc, rest, root, budget>>
  BY DEF CreateRelation
<1> DEFINE c == Redirected(r, e)
<1>2. e \in Relation /\ ~IsMention(e) /\ pc[r] = "relations"
  <2>1. e \in Link /\ pc[r] = "relations"
    BY <1>1, RowIsLink DEF At
  <2>2. ~IsMention(e)
    BY <2>1 DEF IInv, RowsFit
  <2> QED
    BY <2>1, <2>2, Kinds
<1>3. c \in Relation /\ c.src = Root(r, e.src) /\ c.dst = Root(r, e.dst)
  BY <1>2, RedirectedRelation
<1> HIDE DEF c
<1>4. Takes(r, e) /\ edges \subseteq edges' /\ edges' \subseteq Link
  BY <1>1, <1>3 DEF Takes, Take, c, IInv, TypeOK, Link
<1>5. TypeOK' /\ PlansLeadUp' /\ RowsFit' /\ GoneWereWorse'
  BY <1>2, <1>4, TakesKeeps
<1>6. NothingDangles'
  <2>1. CASE {Root(r, e.src), Root(r, e.dst)} \subseteq nodes
    BY <1>1, <1>3, <2>1 DEF c, IInv, NothingDangles, Connects
  <2>2. CASE ~({Root(r, e.src), Root(r, e.dst)} \subseteq nodes)
    BY <1>1, <2>2 DEF IInv, NothingDangles, Connects
  <2> QED
    BY <2>1, <2>2
<1>7. \A q \in Run : moving'[q] = moving[q] \/ ~IsMention(moving'[q])
  BY <1>1, <1>2 DEF IInv, TypeOK, IsMention
<1>8. \A e2 \in edges : IsMention(e2) => \E d \in edges' : Above(d, e2)
  BY <1>4, StaysAbove
<1> QED
  BY <1>1, <1>5, <1>6, <1>7, <1>8, EdgeStep

LEMMA DropSelfLoopStep ==
    ASSUME IInv, NEW r \in Run, DropSelfLoop(r)
    PROVE  IInv'
<1> USE DEF budget
<1>1. PICK e \in todo[r] :
        /\ At(r, "relations") /\ Take(r, e)
        /\ edges' = edges \ {e}
        /\ UNCHANGED <<born, told, nodes, pc, rest, root, moving, budget>>
  BY DEF DropSelfLoop
<1>2. pc[r] = "relations" /\ ~IsMention(e)
  BY <1>1 DEF At, IInv, RowsFit
<1>3. Takes(r, e) /\ edges' \subseteq Link
  BY <1>1 DEF Takes, Take, IInv, TypeOK
<1>4. TypeOK' /\ PlansLeadUp' /\ RowsFit' /\ GoneWereWorse'
  BY <1>2, <1>3, TakesKeeps
<1>5. NothingDangles'
  BY <1>1 DEF IInv, NothingDangles, Connects
<1>6. \A e2 \in edges : IsMention(e2) => \E d \in edges' : Above(d, e2)
  BY <1>1, <1>2, StaysAbove
<1> QED
  BY <1>1, <1>4, <1>5, <1>6, EdgeStep

LEMMA UnlinkStep ==
    ASSUME IInv, NEW r \in Run, Unlink(r)
    PROVE  IInv'
<1> USE DEF Unlink, budget
<1>1. TypeOK'
  BY DEF IInv, TypeOK
<1>2. PlansLeadUp' /\ GoneWereWorse'
  BY DEF IInv, PlansLeadUp, Victims, GoneWereWorse
<1>3. \A q \in Run : moving'[q] \in {moving[q], NoEdge}
  BY DEF IInv, TypeOK
<1>4. RowsFit'
  BY <1>3 DEF IInv, RowsFit, IsMention, Victims
<1>5. NothingDangles'
  BY DEF IInv, NothingDangles, Connects
<1>6. ASSUME NEW e \in edges, IsMention(e)
      PROVE  \E d \in edges' : Above(d, e)
  <2>1. CASE e # moving[r]
    BY <1>6, <2>1, AboveItself DEF IInv, TypeOK
  <2>2. CASE e = moving[r]
    <3>1. PICK d \in edges : Above(d, moving[r]) /\ d.dst # moving[r].dst
      BY <1>6, <2>2 DEF IInv, CopyFirst
    <3> QED
      BY <2>2, <3>1
  <2> QED
    BY <2>1, <2>2
<1> QED
  BY <1>1, <1>2, <1>3, <1>4, <1>5, <1>6, EdgeStep

LEMMA CollapseStep ==
    ASSUME IInv, NEW r \in Run, Collapse(r)
    PROVE  IInv'
<1> USE DEF budget
<1>1. /\ edges' \subseteq edges /\ \A e \in edges : IsMention(e) => e \in edges'
      /\ pc' = [pc EXCEPT ![r] = "delete"] /\ moving[r] = NoEdge
      /\ UNCHANGED <<born, told, nodes, rest, root, todo, moving, budget>>
  BY DEF Collapse, Collapsed, GoTo, RowsDone
<1>2. TypeOK'
  BY <1>1 DEF IInv, TypeOK, Pc
<1>3. PlansLeadUp' /\ GoneWereWorse'
  BY <1>1 DEF IInv, PlansLeadUp, Victims, GoneWereWorse
<1>4. RowsFit'
  BY <1>1 DEF IInv, TypeOK, RowsFit, IsMention, Victims
<1>5. NothingDangles'
  BY <1>1 DEF IInv, NothingDangles, Connects
<1>6. \A e \in edges : IsMention(e) => \E d \in edges' : Above(d, e)
  BY <1>1, StaysAbove
<1> QED
  BY <1>1, <1>2, <1>3, <1>4, <1>5, <1>6, EdgeStep

LEMMA DeleteStep ==
    ASSUME IInv, NEW r \in Run, DeleteVictims(r)
    PROVE  IInv'
<1> USE DEF budget
<1>1. /\ nodes' = nodes \ {v \in Victims(r) : Bare(v)}
      /\ Return(r) /\ UNCHANGED <<born, told, edges, budget>>
  BY DEF DeleteVictims
<1>2. TypeOK'
  BY <1>1, ReturnIsLocal DEF IInv, TypeOK
<1>3. PlansLeadUp' /\ RowsFit' /\ \A q \in Run : moving'[q] \in {moving[q], NoEdge}
  BY <1>1, ReturnIsLocal
<1>4. GoneWereWorse'
  BY <1>1 DEF IInv, GoneWereWorse, PlansLeadUp
<1>5. NothingDangles'
  BY <1>1 DEF IInv, NothingDangles, Connects, Bare
<1>6. \A e \in edges : IsMention(e) => \E d \in edges' : Above(d, e)
  BY <1>1, StaysAbove
<1> QED
  BY <1>1, <1>2, <1>3, <1>4, <1>5, <1>6, EdgeStep

LEMMA AddEntityStep ==
    ASSUME IInv, NEW n \in Entity, AddEntity(n)
    PROVE  IInv'
<1> USE DEF AddEntity, local, budget
<1>1. TypeOK'
  BY DEF IInv, TypeOK
<1>2. PlansLeadUp' /\ RowsFit' /\ GoneWereWorse' /\ NothingDangles'
  BY DEF IInv, PlansLeadUp, RowsFit, Victims, IsMention, GoneWereWorse,
     NothingDangles, Connects
<1>3. \A e \in edges : IsMention(e) => \E d \in edges' : Above(d, e)
  BY StaysAbove
<1> QED
  BY <1>1, <1>2, <1>3, EdgeStep

LEMMA AddLinkStep ==
    ASSUME IInv, NEW e \in Links, AddLink(e)
    PROVE  IInv'
<1> USE DEF AddLink, local, budget
<1>1. TypeOK'
  BY LinkAssumption DEF IInv, TypeOK
<1>2. PlansLeadUp' /\ RowsFit' /\ GoneWereWorse' /\ NothingDangles'
  BY DEF IInv, PlansLeadUp, RowsFit, Victims, IsMention, GoneWereWorse,
     NothingDangles, Connects
<1>3. \A d \in edges : IsMention(d) => \E c \in edges' : Above(c, d)
  BY StaysAbove
<1> QED
  BY <1>1, <1>2, <1>3, EdgeStep

-----------------------------------------------------------------------------
LEMMA Initially ==
    ASSUME Init
    PROVE  IInv
<1>1. told \subseteq Links /\ edges = told /\ edges \subseteq Link
  BY LinkAssumption DEF Init
<1>2. TypeOK
  BY <1>1, NoPlanIsPlan DEF Init, TypeOK, Pc
<1>3. NothingDangles
  BY DEF Init, NothingDangles
<1>4. MentionsKept
  BY <1>1, Kinds DEF MentionsKept, Named
<1> QED
  BY <1>2, <1>3, <1>4, NoPlanIsPlan
     DEF Init, IInv, PlansLeadUp, RowsFit, CopyFirst, GoneWereWorse, Victims

LEMMA Inductive ==
    ASSUME IInv, [Next]_vars
    PROVE  IInv'
<1>1. ASSUME NEW r \in Run, Proceed(r)
      PROVE  IInv'
  BY <1>1, FoldStep, ReadStep, CreateMentionStep, DropSelfLoopStep,
     CreateRelationStep, UnlinkStep, CollapseStep, DeleteStep DEF Proceed
<1>2. ASSUME NEW r \in Run, Fails(r)
      PROVE  IInv'
  <2>1. CASE DeleteVictimsFails(r)
    BY <2>1, ReturnStep DEF DeleteVictimsFails, MayFail, IInv, TypeOK
  <2> QED
    BY <1>2, <2>1, ReadStep DEF Fails
<1>3. ASSUME NEW r \in Run, Crash(r)
      PROVE  IInv'
  BY <1>3, ReturnStep DEF Crash, IInv, TypeOK
<1>4. CASE UNCHANGED vars
  <2>1. UNCHANGED <<graph, local, budget>>
    BY <1>4 DEF vars
  <2>2. TypeOK' /\ PlansLeadUp' /\ RowsFit'
    BY <2>1 DEF graph, local, budget, IInv, TypeOK, PlansLeadUp, RowsFit, Victims, IsMention
  <2> QED
    BY <2>1, <2>2, LocalStep DEF local
<1> QED
  BY <1>1, <1>2, <1>3, <1>4, StartStep, AddEntityStep, AddLinkStep DEF Next

THEOREM Invariant == Spec => []IInv
<1>1. Init => IInv
  BY Initially
<1>2. IInv /\ [Next]_vars => IInv'
  BY Inductive
<1> QED
  BY <1>1, <1>2, PTL DEF Spec

(* Every variable keeps its type (TypeOK), for any number of entities,     *)
(* runs, crashes and failures.                                             *)
THEOREM TypeCorrect == Spec => []TypeOK
<1>1. IInv => TypeOK
  BY DEF IInv
<1> QED
  BY <1>1, Invariant, PTL

(* No MENTIONS edge is ever lost by a merge, whatever dies, fails or runs  *)
(* at the same time (apply_plan, Phase A).                                 *)
THEOREM MentionsKeptAlways == Spec => []MentionsKept
<1>1. IInv => MentionsKept
  BY DEF IInv
<1> QED
  BY <1>1, Invariant, PTL

(* No merge leaves an edge at a node that is gone (apply_plan, Phase D).   *)
THEOREM NothingDanglesAlways == Spec => []NothingDangles
<1>1. IInv => NothingDangles
  BY DEF IInv
<1> QED
  BY <1>1, Invariant, PTL

(* A set of entities has a best one.                                       *)
LEMMA BestOf ==
    ASSUME NEW S \in SUBSET Entity, S # {}
    PROVE  \E s \in S : \A m \in S : Rank[s] <= Rank[m]
<1> DEFINE Less == OpToRel(<, Nat)
           Ranks == {Rank[m] : m \in S}
<1>1. IsWellFoundedOn(Less, Nat)
  BY NatLessThanWellFounded
<1>2. Ranks \subseteq Nat /\ Ranks # {}
  OBVIOUS
<1>3. \A x, y \in Nat : y < x => <<y, x>> \in Less
  BY DEF OpToRel
<1> HIDE DEF Less, Ranks
<1>4. PICK x \in Ranks : \A y \in Ranks : ~(<<y, x>> \in Less)
  BY <1>1, <1>2, WFMin
<1>5. ASSUME NEW y \in Ranks
      PROVE  x <= y
  <2>1. x \in Nat /\ y \in Nat
    BY <1>2
  <2>2. ~(y < x)
    BY <1>3, <1>4, <2>1
  <2> QED
    BY <2>1, <2>2
<1> QED
  BY <1>4, <1>5 DEF Ranks

(* The node with the best summary of a name is never merged away, also by  *)
(* a run whose plan is out of date (_pick_survivor).                       *)
THEOREM LongestStaysAlways == Spec => []LongestStays
<1>1. ASSUME IInv
      PROVE  LongestStays
  <2> SUFFICES ASSUME NEW n \in born, n \notin nodes
               PROVE  \E m \in nodes : NameOf[m] = NameOf[n] /\ Rank[m] < Rank[n]
    BY DEF LongestStays
  <2> DEFINE all == {m \in born : NameOf[m] = NameOf[n] /\ Rank[m] < Rank[n]}
  <2>1. all \in SUBSET Entity /\ all # {} /\ n \in Entity
    BY <1>1 DEF IInv, TypeOK, GoneWereWorse
  <2>2. PICK m \in all : \A x \in all : Rank[m] <= Rank[x]
    BY <2>1, BestOf
  <2>3. m \in nodes
    <3> SUFFICES ASSUME m \notin nodes
                 PROVE  FALSE
      OBVIOUS
    <3>1. PICK x \in born : NameOf[x] = NameOf[m] /\ Rank[x] < Rank[m]
      BY <1>1 DEF IInv, GoneWereWorse
    <3>2. x \in Entity /\ m \in Entity
      BY <1>1, <2>1 DEF IInv, TypeOK
    <3>3. Rank[x] \in Nat /\ Rank[m] \in Nat /\ Rank[n] \in Nat
      BY <2>1, <3>2
    <3>4. x \in all
      BY <3>1, <3>3
    <3> QED
      BY <2>2, <3>1, <3>3, <3>4
  <2> QED
    BY <2>3
<1> QED
  BY <1>1, Invariant, PTL
-----------------------------------------------------------------------------
(* From here on one process runs, while ingestion goes on beside it.       *)
OneProcess == \E p \in Run : Run = {p}

(* The same fact between entities of the same names.                       *)
Restates(d, e) ==
    /\ ~IsMention(d) /\ ~IsMention(e) /\ d.fact = e.fact
    /\ NameOf[d.src] = NameOf[e.src] /\ NameOf[d.dst] = NameOf[e.dst]

(* The plan of the only process leads to nodes that are there, so do its   *)
(* rows, which its plan touches, and a fact has its copy before it goes.   *)
Alone(r) ==
    /\ rest[r] \subseteq nodes
    /\ \A v \in Victims(r) : root[r][v] \in nodes
    /\ \A e \in todo[r] : Connects(e, nodes)
    /\ pc[r] = "relations" => \A e \in todo[r] : Touched(r, e)
    /\ pc[r] = "relations" /\ moving[r] # NoEdge =>
           \E d \in edges : d # moving[r] /\ Restates(d, moving[r])

LEMMA RestatesIsTransitive ==
    ASSUME NEW c, NEW d, NEW e, Restates(c, d), Restates(d, e)
    PROVE  Restates(c, e)
  BY DEF Restates

(* When each fact between different names is restated all of them are kept.*)
LEMMA KeptWhenRestated ==
    ASSUME IInv, RelationsKept, TypeOK',
           \A e \in edges : ~IsMention(e) /\ NameOf[e.src] # NameOf[e.dst] =>
               \E d \in edges' : Restates(d, e),
           \A i \in told' \ told : i \in edges'
    PROVE  RelationsKept'
<1> SUFFICES ASSUME NEW i \in told', ~IsMention(i), NameOf[i.src] # NameOf[i.dst]
             PROVE  \E e \in edges' : /\ ~IsMention(e) /\ e.fact = i.fact /\ Named(e, i)
                                      /\ NameOf[e.src] = NameOf[i.src]
  BY DEF RelationsKept, Named, IsMention
<1>1. i \in Link /\ i.dst \in Entity
  BY LinkAssumption, Kinds DEF TypeOK
<1>2. CASE i \in told
  <2>1. PICK e \in edges : /\ ~IsMention(e) /\ e.fact = i.fact /\ Named(e, i)
                           /\ NameOf[e.src] = NameOf[i.src]
    BY <1>2 DEF RelationsKept
  <2>2. NameOf[e.src] # NameOf[e.dst]
    BY <2>1 DEF Named
  <2>3. PICK d \in edges' : Restates(d, e)
    BY <2>1, <2>2
  <2>4. d.dst \in Entity
    BY <2>3, Kinds DEF TypeOK
  <2> QED BY <2>1, <2>3, <2>4 DEF Restates, Named
<1>3. CASE i \notin told
  BY <1>1, <1>3 DEF Named
<1> QED BY <1>2, <1>3

(* Where a relation goes has the names it had.                             *)
LEMMA RootNames ==
    ASSUME IInv, NEW r \in Run, NEW n \in Entity
    PROVE  NameOf[Root(r, n)] = NameOf[n] /\ (n \in Victims(r) => Root(r, n) # n)
<1>1. CASE n \in Victims(r)
  <2>1. root[r][n] \in Entity /\ Rank[root[r][n]] < Rank[n] /\ NameOf[root[r][n]] = NameOf[n]
    BY <1>1 DEF IInv, PlansLeadUp, TypeOK
  <2>2. Rank[n] \in Nat
    OBVIOUS
  <2> QED BY <1>1, <2>1, <2>2 DEF Root
<1>2. CASE n \notin Victims(r)
  BY <1>2 DEF Root
<1> QED BY <1>1, <1>2

(* The end of a run, whatever the reason.                                  *)
LEMMA AloneReturn ==
    ASSUME IInv, NEW r \in Run, Return(r)
    PROVE  Alone(r)'
<1>1. pc'[r] = "idle" /\ rest'[r] = {} /\ root'[r] = NoPlan /\ todo'[r] = {}
  BY DEF Return, GoTo, IInv, TypeOK
<1> QED BY <1>1, NoPlanIsPlan DEF Alone, Victims

(* The plan grows (plan_dedup).                                            *)
LEMMA AloneFold ==
    ASSUME IInv, NEW r \in Run, Alone(r), Fold(r)
    PROVE  Alone(r)'
<1>1. PICK p \in Best(rest[r]) :
        LET k == Keeper(p[1], p[2])
            v == CHOOSE n \in {p[1], p[2]} : n # k
        IN  /\ root' = [root EXCEPT ![r] = Folded(r, v, k)]
            /\ rest' = [rest EXCEPT ![r] = @ \ {v}]
  BY DEF Fold
<1> DEFINE k == Keeper(p[1], p[2])
           v == CHOOSE n \in {p[1], p[2]} : n # k
<1>2. k \in rest[r]
  BY DEF Best, Pairs, Keeper
<1>3. /\ root'[r] = Folded(r, v, k) /\ rest'[r] = rest[r] \ {v}
      /\ UNCHANGED <<nodes, edges, pc, todo, moving>> /\ pc[r] = "plan"
  BY <1>1 DEF IInv, TypeOK, Fold, At, graph
<1> HIDE DEF k, v
<1>4. k \in nodes
  BY <1>2 DEF Alone
<1>5. \A n \in DOMAIN Folded(r, v, k) : Folded(r, v, k)[n] \in nodes
  <2> SUFFICES ASSUME NEW n \in Victims(r) \cup {v} PROVE Folded(r, v, k)[n] \in nodes
    BY DEF Folded
  <2>1. Folded(r, v, k)[n] = IF Root(r, n) = v THEN k ELSE root[r][n]
    BY DEF Folded
  <2>2. Root(r, n) # v => n \in Victims(r)
    BY DEF Root
  <2> QED BY <1>4, <2>1, <2>2 DEF Alone
<1> QED BY <1>3, <1>5 DEF Alone, Victims, Connects

(* A row of the second phase goes from and to entities that are there.     *)
LEMMA RowOfRelations ==
    ASSUME IInv, NEW r \in Run, Alone(r), pc[r] = "relations", NEW e \in todo[r]
    PROVE  /\ e \in Relation /\ ~IsMention(e) /\ e.src \in Entity /\ e.dst \in Entity
           /\ Touched(r, e) /\ {Root(r, e.src), Root(r, e.dst)} \subseteq nodes
<1>1. e \in Link /\ ~IsMention(e)
  BY RowIsLink DEF IInv, RowsFit
<1>2. e \in Relation /\ e.src \in Entity /\ e.dst \in Entity
  BY <1>1, Kinds
<1>3. e.src \in nodes /\ e.dst \in nodes
  BY <1>1 DEF Alone, Connects, IsMention
<1> QED BY <1>1, <1>2, <1>3 DEF Alone, Root

(* A fact is redirected, which the only process can always do.             *)
LEMMA AloneCreate ==
    ASSUME IInv, NEW r \in Run, Alone(r), CreateRelation(r)
    PROVE  Alone(r)' /\ edges \subseteq edges'
<1>1. PICK e \in todo[r] :
        /\ pc[r] = "relations" /\ todo'[r] = todo[r] \ {e} /\ moving'[r] = e
        /\ edges' = IF {Root(r, e.src), Root(r, e.dst)} \subseteq nodes
                    THEN edges \cup {Redirected(r, e)} ELSE edges
        /\ UNCHANGED <<nodes, pc, rest, root>>
  BY DEF CreateRelation, Take, At, IInv, TypeOK
<1> DEFINE c == Redirected(r, e)
<1>2. /\ e \in Relation /\ ~IsMention(e) /\ e.src \in Entity /\ e.dst \in Entity
      /\ Touched(r, e) /\ edges' = edges \cup {c}
  BY <1>1, RowOfRelations
<1>3. /\ c \in Relation /\ c.src = Root(r, e.src) /\ c.dst = Root(r, e.dst)
      /\ c.fact = e.fact
  BY <1>2, RedirectedRelation DEF Redirected
<1> HIDE DEF c
<1>4. ~IsMention(c)
  BY <1>3, Kinds DEF Link
<1>5. Restates(c, e)
  BY <1>2, <1>3, <1>4, RootNames DEF Restates
<1>6. c # e
  BY <1>2, <1>3, RootNames DEF Touched
<1> QED BY <1>1, <1>2, <1>5, <1>6 DEF Alone, Victims, Touched, Connects, Restates, IsMention

(* The steps of a run that neither redirect a fact nor end the run.        *)
LEMMA AloneWork ==
    ASSUME IInv, NEW r \in Run, Alone(r),
           \/ ReadMentions(r) \/ ReadMentionsFails(r) \/ CreateMention(r)
           \/ ReadRelations(r) \/ ReadRelationsFails(r) \/ DropSelfLoop(r)
           \/ RowFails(r) \/ Unlink(r) \/ UnlinkFails(r)
           \/ Collapse(r) \/ CollapseFails(r)
    PROVE  Alone(r)'
<1>1. UNCHANGED <<nodes, rest, root>>
  BY DEF ReadMentions, ReadMentionsFails, CreateMention, ReadRelations,
     ReadRelationsFails, DropSelfLoop, RowFails, Unlink, UnlinkFails, Collapse,
     CollapseFails, graph
<1>2. \A e \in edges : Connects(e, nodes)
  BY DEF IInv, NothingDangles
<1>3. CASE ReadMentions(r) \/ ReadMentionsFails(r)
  <2>1. todo'[r] \subseteq todo[r] \cup edges /\ pc'[r] = "mentions"
    BY <1>3 DEF ReadMentions, ReadMentionsFails, MentionRows, GoTo, IInv, TypeOK
  <2> QED BY <1>1, <1>2, <2>1 DEF Alone, Victims, Connects
<1>4. CASE ReadRelations(r) \/ ReadRelationsFails(r)
  <2>1. /\ todo'[r] \subseteq RelationRows(r) /\ pc'[r] = "relations"
        /\ moving'[r] = NoEdge
    BY <1>4 DEF ReadRelations, ReadRelationsFails, GoTo, RowsDone, IInv, TypeOK
  <2>2. \A e \in RelationRows(r) : Touched(r, e) /\ Connects(e, nodes)
    BY <1>2 DEF RelationRows
  <2> QED BY <1>1, <2>1, <2>2 DEF Alone, Victims, Connects, Touched
<1>5. CASE CreateMention(r)
  <2>1. todo'[r] \subseteq todo[r] /\ pc[r] = "mentions" /\ UNCHANGED pc
    BY <1>5 DEF CreateMention, Take, At, IInv, TypeOK
  <2> QED BY <1>1, <2>1 DEF Alone, Victims, Connects
<1>6. CASE DropSelfLoop(r) \/ RowFails(r)
  <2>1. PICK e \in todo[r] : todo'[r] = todo[r] \ {e} /\ moving[r] = NoEdge
    BY <1>6 DEF DropSelfLoop, RowFails, Take, IInv, TypeOK
  <2>2. UNCHANGED <<pc, moving>>
    BY <1>6 DEF DropSelfLoop, RowFails
  <2> QED BY <1>1, <2>1, <2>2 DEF Alone, Victims, Connects, Touched
<1>7. CASE Unlink(r) \/ UnlinkFails(r)
  <2>1. moving'[r] = NoEdge /\ UNCHANGED <<pc, todo>>
    BY <1>7 DEF Unlink, UnlinkFails, IInv, TypeOK
  <2> QED BY <1>1, <2>1 DEF Alone, Victims, Connects, Touched
<1>8. CASE Collapse(r) \/ CollapseFails(r)
  <2>1. pc'[r] = "delete" /\ UNCHANGED todo
    BY <1>8 DEF Collapse, CollapseFails, GoTo, IInv, TypeOK
  <2> QED BY <1>1, <2>1 DEF Alone, Victims, Connects
<1> QED BY <1>3, <1>4, <1>5, <1>6, <1>7, <1>8

(* Every step of the only process, and every arrival.                      *)
LEMMA AloneInductive ==
    ASSUME OneProcess, IInv, NEW r \in Run, Alone(r), [Next]_vars
    PROVE  Alone(r)'
<1>1. CASE Start(r)
  <2>1. /\ rest'[r] = nodes /\ pc'[r] = "plan"
        /\ UNCHANGED <<nodes, edges, root, todo, moving>>
    BY <1>1 DEF Start, GoTo, graph, IInv, TypeOK
  <2> QED BY <2>1 DEF Alone, Victims, Connects
<1>2. CASE Proceed(r)
  BY <1>2, AloneFold, AloneWork, AloneCreate, AloneReturn DEF Proceed, DeleteVictims
<1>3. CASE Fails(r) \/ Crash(r)
  BY <1>3, AloneWork, AloneReturn DEF Fails, Crash, DeleteVictimsFails
<1>4. CASE (\E n \in Entity : AddEntity(n)) \/ (\E e \in Links : AddLink(e))
  <2>1. nodes \subseteq nodes' /\ edges \subseteq edges' /\ UNCHANGED local
    BY <1>4 DEF AddEntity, AddLink
  <2> QED BY <2>1 DEF Alone, local, Victims, Connects, Touched, Restates, IsMention
<1>5. CASE UNCHANGED vars
  BY <1>5 DEF vars, graph, local, Alone, Victims, Connects, Touched, Restates, IsMention
<1>6. \A q \in Run : q = r
  BY DEF OneProcess
<1> QED BY <1>1, <1>2, <1>3, <1>4, <1>5, <1>6 DEF Next

(* No step of the only process takes the last edge that states a fact.     *)
LEMMA FactsStay ==
    ASSUME OneProcess, IInv, NEW r \in Run, Alone(r), [Next]_vars,
           NEW e \in edges, ~IsMention(e), NameOf[e.src] # NameOf[e.dst]
    PROVE  \E d \in edges' : Restates(d, e)
<1>1. Restates(e, e)
  BY DEF Restates
<1>2. CASE Unlink(r)
  <2>1. CASE e = moving[r]
    <3>1. moving[r] # NoEdge /\ edges' = edges \ {e} /\ pc[r] = "relations"
      BY <1>2, <2>1 DEF Unlink, NextRow, At, IInv, RowsFit
    <3> QED BY <2>1, <3>1 DEF Alone
  <2>2. CASE e # moving[r]
    BY <1>1, <1>2, <2>2 DEF Unlink
  <2> QED BY <2>1, <2>2
<1>3. CASE DropSelfLoop(r)
  <2>1. PICK x \in todo[r] : pc[r] = "relations" /\ SelfLoop(r, x) /\ edges' = edges \ {x}
    BY <1>3 DEF DropSelfLoop, At
  <2>2. NameOf[x.src] = NameOf[x.dst]
    BY <2>1, RowOfRelations, RootNames DEF SelfLoop
  <2> QED BY <1>1, <2>1, <2>2
<1>4. CASE Collapse(r)
  <2>1. PICK d \in edges' : SameFact(d, e)
    BY <1>4 DEF Collapse, Collapsed
  <2> QED BY <2>1 DEF SameFact, Restates
<1>5. CASE CreateRelation(r) \/ CreateMention(r)
  <2>1. edges \subseteq edges'
    BY <1>5, AloneCreate DEF CreateMention
  <2> QED BY <1>1, <2>1
<1>6. CASE Start(r) \/ Fold(r) \/ ReadMentions(r) \/ ReadRelations(r) \/ DeleteVictims(r)
  BY <1>1, <1>6 DEF Start, Fold, ReadMentions, ReadRelations, DeleteVictims, graph
<1>7. CASE Fails(r) \/ Crash(r)
  BY <1>1, <1>7 DEF Fails, ReadMentionsFails, ReadRelationsFails, RowFails, UnlinkFails,
     CollapseFails, DeleteVictimsFails, Crash, graph
<1>8. CASE (\E n \in Entity : AddEntity(n)) \/ (\E x \in Links : AddLink(x)) \/ UNCHANGED vars
  BY <1>1, <1>8 DEF AddEntity, AddLink, vars, graph
<1>9. \A q \in Run : q = r
  BY DEF OneProcess
<1> QED BY <1>2, <1>3, <1>4, <1>5, <1>6, <1>7, <1>8, <1>9 DEF Next, Proceed

(* A single process loses no fact between entities of different names,     *)
(* however often it fails or dies, while entities and facts arrive         *)
(* (apply_plan, Phases B and C).                                           *)
THEOREM RelationsKeptAlways ==
    ASSUME OneProcess
    PROVE  Spec => []RelationsKept
<1> DEFINE J == RelationsKept /\ \A r \in Run : Alone(r)
<1>1. Init => J
  <2>1. Init => \A r \in Run : Alone(r)
    BY NoPlanIsPlan DEF Init, Alone, Victims
  <2>2. Init => RelationsKept
    BY LinkAssumption, Kinds DEF Init, RelationsKept, Named
  <2> QED BY <2>1, <2>2
<1>2. IInv /\ TypeOK' /\ J /\ [Next]_vars => J'
  <2> SUFFICES ASSUME IInv, TypeOK', J, [Next]_vars PROVE J'
    OBVIOUS
  <2>1. \A r \in Run : Alone(r)'
    BY AloneInductive
  <2>2. \A e \in edges : ~IsMention(e) /\ NameOf[e.src] # NameOf[e.dst] =>
            \E d \in edges' : Restates(d, e)
    BY FactsStay DEF OneProcess
  <2>3. \A i \in told' \ told : i \in edges'
    <3>1. UNCHANGED told \/ \E x \in Links : AddLink(x)
      BY DEF Next, Proceed, Fails, Start, Fold, ReadMentions, ReadRelations, CreateMention,
         CreateRelation, DropSelfLoop, Unlink, Collapse, DeleteVictims, ReadMentionsFails,
         ReadRelationsFails, RowFails, UnlinkFails, CollapseFails, DeleteVictimsFails,
         Crash, AddEntity, vars, graph
    <3> QED BY <3>1 DEF AddLink
  <2>4. RelationsKept'
    BY <2>2, <2>3, KeptWhenRestated
  <2> QED BY <2>1, <2>4
<1>3. J => RelationsKept
  OBVIOUS
<1> HIDE DEF J
<1>4. IInv => TypeOK
  BY DEF IInv
<1> QED BY <1>1, <1>2, <1>3, <1>4, Invariant, PTL DEF Spec
=============================================================================
