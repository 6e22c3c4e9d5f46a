--------------------------- MODULE EpisodeLifecycle ---------------------------
(***************************************************************************)
(* What the queue promises about its rows, with the processes left out: a  *)
(* status machine over whole transactions.  The processes race, and nearly *)
(* every status can be left for every other one; what they never break is  *)
(* what the guards below say:                                              *)
(*  - a row enters the UNIQUE index's scope only if no twin is in it;      *)
(*  - done is written only for ingested or empty content, and closes the   *)
(*    DLQ row;                                                             *)
(*  - a DLQ row is opened only together with the status aborted;           *)
(*  - a row that was inserted is never forgotten.                          *)
(* EpisodeQueue is shown to implement this module.                         *)
(***************************************************************************)
EXTENDS TLAPS

CONSTANTS Episode, PayloadOf, Blank

VARIABLES
    status,   \* episodes.status
    gate,     \* episodes.dedup_gate
    dlq,      \* dead_letter: no row, open, or recovered
    ingested  \* the episodes whose content add_episode has put in the graph

vars == <<status, gate, dlq, ingested>>

Active == {"queued", "processing"}
Status == {"none", "done", "failed", "aborted", "skipped_duplicate"} \cup Active
Gate == {"off", "observe", "enforce"}

TypeOK ==
    /\ status \in [Episode -> Status]
    /\ gate \in [Episode -> Gate]
    /\ dlq \in [Episode -> {"absent", "open", "recovered"}]
    /\ ingested \subseteq Episode

Init ==
    /\ status = [e \in Episode |-> "none"]
    /\ gate = [e \in Episode |-> "off"]
    /\ dlq = [e \in Episode |-> "absent"]
    /\ ingested = {}

Inserted(e) == status[e] # "none"
Twins(e) == {f \in Episode \ {e} : PayloadOf[f] = PayloadOf[e]}
Indexed(e) == status[e] \in Active /\ gate[e] = "enforce"

(* The rows S may become active together.                                  *)
Admissible(S) ==
    \A e \in S, f \in Episode : f \in Twins(e) =>
        ~ (/\ gate[e] = "enforce" /\ gate[f] = "enforce"
           /\ f \in S \/ status[f] \in Active)

Insert(e, g) ==
    /\ ~Inserted(e)
    /\ g = "enforce" => \A f \in Twins(e) : ~Indexed(f)
    /\ status' = [status EXCEPT ![e] = "queued"]
    /\ gate' = [gate EXCEPT ![e] = g]
    /\ UNCHANGED <<dlq, ingested>>

Claim(S) ==
    /\ \A e \in S : Inserted(e)
    /\ Admissible(S)
    /\ status' = [e \in Episode |-> IF e \in S THEN "processing" ELSE status[e]]
    /\ UNCHANGED <<gate, dlq, ingested>>

Requeue(e) ==
    /\ Inserted(e)
    /\ Admissible({e})
    /\ status' = [status EXCEPT ![e] = "queued"]
    /\ UNCHANGED <<gate, dlq, ingested>>

Ingest(S) ==
    /\ \A e \in S : Inserted(e)
    /\ ingested' = ingested \cup S
    /\ UNCHANGED <<status, gate, dlq>>

Close(e) == dlq' = [dlq EXCEPT ![e] = IF @ = "open" THEN "recovered" ELSE @]

Finish(e) ==
    /\ Inserted(e)
    /\ e \in ingested \cup Blank
    /\ status' = [status EXCEPT ![e] = "done"]
    /\ Close(e)
    /\ UNCHANGED <<gate, ingested>>

(* A failure that will be retried, or a skip.                              *)
SetAside(e, st) ==
    /\ Inserted(e)
    /\ st \in {"failed", "skipped_duplicate"}
    /\ status' = [status EXCEPT ![e] = st]
    /\ UNCHANGED <<gate, dlq, ingested>>

Bury(e) ==
    /\ Inserted(e)
    /\ status' = [status EXCEPT ![e] = "aborted"]
    /\ dlq' = [dlq EXCEPT ![e] = "open"]
    /\ UNCHANGED <<gate, ingested>>

Recover(e) ==
    /\ Close(e)
    /\ UNCHANGED <<status, gate, ingested>>

Next ==
    \/ \E e \in Episode, g \in Gate : Insert(e, g)
    \/ \E S \in SUBSET Episode : Claim(S) \/ Ingest(S)
    \/ \E e \in Episode : Requeue(e) \/ Finish(e) \/ Bury(e) \/ Recover(e)
    \/ \E e \in Episode, st \in Status : SetAside(e, st)

Spec == Init /\ [][Next]_vars

-----------------------------------------------------------------------------
UniqueActive ==
    \A e, f \in Episode :
        e # f /\ PayloadOf[e] = PayloadOf[f] => ~(Indexed(e) /\ Indexed(f))

NoOpenDlqWhenDone == \A e \in Episode : dlq[e] = "open" => status[e] # "done"

DoneMeansIngested == \A e \in Episode \ Blank : status[e] = "done" => e \in ingested

Inv == TypeOK /\ UniqueActive /\ NoOpenDlqWhenDone /\ DoneMeansIngested

(* The four parts are inductive together: each action restores the parts   *)
(* it touches from its own guard.                                          *)
THEOREM LifecycleStep == Inv /\ [Next]_vars => Inv'
<1> SUFFICES ASSUME Inv, [Next]_vars PROVE Inv'
    OBVIOUS
<1> USE DEF Inv, TypeOK, Status, Gate, Active
<1>1. ASSUME NEW e \in Episode, NEW g \in Gate, Insert(e, g) PROVE Inv'
  <2>1. TypeOK'
    BY <1>1 DEF Insert
  <2>2. UniqueActive'
    BY <1>1 DEF Insert, UniqueActive, Indexed, Twins
  <2>3. NoOpenDlqWhenDone' /\ DoneMeansIngested'
    BY <1>1 DEF Insert, NoOpenDlqWhenDone, DoneMeansIngested
  <2> QED
    BY <2>1, <2>2, <2>3
<1>2. ASSUME NEW S \in SUBSET Episode, Claim(S) PROVE Inv'
  <2>1. TypeOK'
    BY <1>2 DEF Claim
  <2>2. UniqueActive'
    BY <1>2 DEF Claim, Admissible, UniqueActive, Indexed, Twins
  <2>3. NoOpenDlqWhenDone' /\ DoneMeansIngested'
    BY <1>2 DEF Claim, NoOpenDlqWhenDone, DoneMeansIngested
  <2> QED
    BY <2>1, <2>2, <2>3
<1>3. ASSUME NEW S \in SUBSET Episode, Ingest(S) PROVE Inv'
  BY <1>3 DEF Ingest, UniqueActive, Indexed, NoOpenDlqWhenDone, DoneMeansIngested
<1>4. ASSUME NEW e \in Episode, Requeue(e) PROVE Inv'
  <2>1. TypeOK'
    BY <1>4 DEF Requeue
  <2>2. UniqueActive'
    BY <1>4 DEF Requeue, Admissible, UniqueActive, Indexed, Twins
  <2>3. NoOpenDlqWhenDone' /\ DoneMeansIngested'
    BY <1>4 DEF Requeue, NoOpenDlqWhenDone, DoneMeansIngested
  <2> QED
    BY <2>1, <2>2, <2>3
<1>5. ASSUME NEW e \in Episode, Finish(e) PROVE Inv'
  <2>1. TypeOK'
    BY <1>5 DEF Finish, Close
  <2>2. UniqueActive'
    BY <1>5 DEF Finish, UniqueActive, Indexed
  <2>3. NoOpenDlqWhenDone' /\ DoneMeansIngested'
    BY <1>5 DEF Finish, Close, NoOpenDlqWhenDone, DoneMeansIngested
  <2> QED
    BY <2>1, <2>2, <2>3
<1>6. ASSUME NEW e \in Episode, Bury(e) PROVE Inv'
  <2>1. TypeOK'
    BY <1>6 DEF Bury
  <2>2. UniqueActive'
    BY <1>6 DEF Bury, UniqueActive, Indexed
  <2>3. NoOpenDlqWhenDone' /\ DoneMeansIngested'
    BY <1>6 DEF Bury, NoOpenDlqWhenDone, DoneMeansIngested
  <2> QED
    BY <2>1, <2>2, <2>3
<1>7. ASSUME NEW e \in Episode, Recover(e) PROVE Inv'
  BY <1>7 DEF Recover, Close, UniqueActive, Indexed, NoOpenDlqWhenDone,
     DoneMeansIngested
<1>8. ASSUME NEW e \in Episode, NEW st \in Status, SetAside(e, st) PROVE Inv'
  <2>1. TypeOK'
    BY <1>8 DEF SetAside
  <2>2. UniqueActive'
    BY <1>8 DEF SetAside, UniqueActive, Indexed
  <2>3. NoOpenDlqWhenDone' /\ DoneMeansIngested'
    BY <1>8 DEF SetAside, NoOpenDlqWhenDone, DoneMeansIngested
  <2> QED
    BY <2>1, <2>2, <2>3
<1>9. CASE UNCHANGED vars
  BY <1>9 DEF vars, UniqueActive, Indexed, NoOpenDlqWhenDone, DoneMeansIngested
<1> QED
  BY <1>1, <1>2, <1>3, <1>4, <1>5, <1>6, <1>7, <1>8, <1>9 DEF Next

(* Every implementation of this row machine, EpisodeQueue among them, keeps *)
(* the index unique, the DLQ the real backlog, and done truthful.           *)
THEOREM LifecycleSafe == Spec => []Inv
<1>1. Init => Inv
  BY DEF Init, Inv, TypeOK, UniqueActive, Indexed, NoOpenDlqWhenDone,
     DoneMeansIngested, Status, Gate, Active
<1> QED
  BY <1>1, LifecycleStep, PTL DEF Spec

(* No row is deleted, no ingestion undone, no DLQ row made for no episode. *)
LEMMA RowsStay ==
    ASSUME TypeOK, [Next]_vars, NEW e \in Episode
    PROVE  /\ Inserted(e) => Inserted(e)'
           /\ e \in ingested => e \in ingested'
           /\ (dlq[e] # "absent" => Inserted(e)) => (dlq'[e] # "absent" => Inserted(e)')
BY DEF TypeOK, Next, vars, Insert, Claim, Ingest, Requeue, Finish, Bury, Recover,
   SetAside, Close, Inserted

-----------------------------------------------------------------------------
(* The row machine seen from the enqueue gate, which tells apart only      *)
(* whether a row is in flight, ingested or set aside.                      *)
row ==
    [e \in Episode |->
        IF status[e] \in Active THEN "active"
        ELSE IF status[e] \in {"failed", "aborted", "skipped_duplicate"} THEN "idle"
        ELSE status[e]]

Gated == INSTANCE IntakeGate
            WITH NoEpisode <- "none", refusal <- [e \in Episode |-> "none"]

LEMMA MovesAre ==
    ASSUME TypeOK, NEW S \in SUBSET Episode, \A e \in S : Inserted(e),
           NEW st \in Status, st # "none", gate' = gate,
           status' = [e \in Episode |-> IF e \in S THEN st ELSE status[e]],
           st \in Active => Admissible(S)
    PROVE  [Gated!Next]_Gated!vars
<1> DEFINE to == IF st \in Active THEN "active" ELSE IF st = "done" THEN "done" ELSE "idle"
<1>1. row' = [e \in Episode |-> IF e \in S THEN to ELSE row[e]]
  BY DEF row, Status, Active
<1>2. \A e \in Episode :
         /\ row[e] = "active" <=> status[e] \in Active
         /\ row[e] # "none" <=> Inserted(e)
  BY DEF row, Inserted, Active, TypeOK, Status
<1>3. Admissible(S) => Gated!Admissible(S)
  BY <1>2 DEF Admissible, Gated!Admissible, Twins, Gated!Twins
<1>4. to \in {"active", "done", "idle"} /\ (to = "active" => st \in Active)
  OBVIOUS
<1> HIDE DEF to
<1>5. Gated!RowsMove(S, to)
  BY <1>1, <1>2, <1>3, <1>4 DEF Gated!RowsMove, Gated!Inserted
<1> QED
  BY <1>4, <1>5 DEF Gated!Next

LEMMA OneMoves ==
    ASSUME TypeOK, NEW e \in Episode, Inserted(e), NEW st \in Status, st # "none",
           gate' = gate, status' = [status EXCEPT ![e] = st],
           st \in Active => Admissible({e})
    PROVE  [Gated!Next]_Gated!vars
<1>1. status' = [f \in Episode |-> IF f \in {e} THEN st ELSE status[f]]
  BY DEF TypeOK
<1> QED
  BY <1>1, MovesAre

(* The processes of the queue are what the gate takes them for: an insert  *)
(* is an acceptance, and every other step of theirs moves inserted rows    *)
(* without bringing two enforced twins into flight together.               *)
THEOREM LifecycleIsGated == Spec => Gated!Spec
<1>1. Init => Gated!Init
  BY DEF Init, Gated!Init, row, Active
<1>2. Inv /\ [Next]_vars => [Gated!Next]_Gated!vars
  <2> SUFFICES ASSUME Inv, [Next]_vars PROVE [Gated!Next]_Gated!vars
    OBVIOUS
  <2> USE DEF Inv
  <2>s. ASSUME status' = status, gate' = gate PROVE [Gated!Next]_Gated!vars
    BY <2>s DEF Gated!vars, row
  <2>1. ASSUME NEW e \in Episode, NEW g \in Gate, Insert(e, g)
        PROVE  [Gated!Next]_Gated!vars
    <3>1. row' = [row EXCEPT ![e] = "active"] /\ row[e] = "none"
      BY <2>1 DEF Insert, row, Active, TypeOK, Inserted
    <3>2. \A f \in Episode : Indexed(f) <=> Gated!Indexed(f)
      BY DEF Indexed, Gated!Indexed, row, Active, TypeOK, Status
    <3>3. Gated!Accept(e, g)
      BY <2>1, <3>1, <3>2 DEF Insert, Gated!Accept, Gated!Inserted, Gated!Twins, Twins
    <3> QED
      BY <3>3 DEF Gated!Next, Gate
  <2>2. ASSUME NEW S \in SUBSET Episode, Claim(S)
        PROVE  [Gated!Next]_Gated!vars
    BY <2>2, MovesAre DEF Claim, Status, Active
  <2>3. ASSUME NEW e \in Episode, Requeue(e) \/ Finish(e) \/ Bury(e)
        PROVE  [Gated!Next]_Gated!vars
    BY <2>3, OneMoves DEF Requeue, Finish, Bury, Status, Active
  <2>4. ASSUME NEW e \in Episode, NEW st \in Status, SetAside(e, st)
        PROVE  [Gated!Next]_Gated!vars
    BY <2>4, OneMoves DEF SetAside, Status, Active
  <2>5. CASE \/ \E S \in SUBSET Episode : Ingest(S)
             \/ \E e \in Episode : Recover(e)
             \/ UNCHANGED vars
    BY <2>5, <2>s DEF Ingest, Recover, vars
  <2> QED
    BY <2>1, <2>2, <2>3, <2>4, <2>5 DEF Next
<1> QED
  BY <1>1, <1>2, LifecycleSafe, PTL DEF Spec, Gated!Spec
=============================================================================
