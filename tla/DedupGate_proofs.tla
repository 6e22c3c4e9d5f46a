-------------------------- MODULE DedupGate_proofs --------------------------
(***************************************************************************)
(* Proofs about DedupGate, for any number of calls, writer processes and   *)
(* crashes: its invariants, that the gate is atomic (IntakeGate), and that *)
(* the row changes it allows the workers cover the row machine             *)
(* EpisodeLifecycle, which the queue's processes implement.                *)
(***************************************************************************)
EXTENDS DedupGate, TLAPS

USE NoEpisodeAssumption, ProcessAssumption, BoundAssumption DEF Process, Gate, Pc

(* Where a call stands in the queue at each label, and in which mode it    *)
(* can have got there.                                                     *)
Shape ==
    \A e \in Episode :
        /\ Inserted(e) => pc[e] \in {"accepted", "detecting"}
        /\ pc[e] = "accepted" => Inserted(e)
        /\ pc[e] = "detecting" /\ by[e] \in Daemon => ~Inserted(e)
        /\ pc[e] = "detecting" /\ by[e] \in Mcp => Inserted(e)
        /\ by[e] \in Process /\ (pc[e] = "detecting" \/ event[e] = "detected")
              => ModeOf(e) # "enforce"
        /\ pc[e] \in {"idle", "called"} => holder[e] = NoEpisode
        /\ by[e] \in Process /\ pc[e] = "checked" /\ ModeOf(e) = "enforce"
              => holder[e] = NoEpisode

IInv == TypeOK /\ Shape /\ LockIsOwned /\ OnlyEnforceRefuses /\ LedgerIsHonest

LEMMA InitIInv == Init => IInv
<1> SUFFICES ASSUME Init PROVE IInv
    OBVIOUS
<1>1. mode \in [Process -> Gate]
  BY DEF Init
<1>2. TypeOK
  BY <1>1 DEF Init, TypeOK
<1> QED
  BY <1>2 DEF Init, IInv, Shape, LockIsOwned, OnlyEnforceRefuses, LedgerIsHonest,
     Inserted

-----------------------------------------------------------------------------
(* What every step of a call does to the control state.                    *)

LEMMA GoToType ==
    ASSUME TypeOK, NEW e \in Episode, NEW l \in Pc, GoTo(e, l)
    PROVE  /\ pc' \in [Episode -> Pc]
           /\ pc' = [pc EXCEPT ![e] = l]
           /\ lock' \in [Mcp -> Episode \cup {NoEpisode}]
BY DEF TypeOK, GoTo, Acquire, Release, Locked

(* A call that is free to take a step under the lock of its process and    *)
(* that goes on to l leaves the lock as LockIsOwned says.                  *)
LEMMA GoToLock ==
    ASSUME TypeOK, LockIsOwned, NEW e \in Episode, NEW l \in Pc, GoTo(e, l),
           by[e] \in Process, by' = by,
           l \in {"checked", "rejecting"} => Free(e)
    PROVE  LockIsOwned'
<1>0. TypeOK /\ pc' = [pc EXCEPT ![e] = l]
  BY DEF GoTo
<1> SUFFICES ASSUME NEW w \in Mcp, NEW f \in Episode
             PROVE  lock'[w] = f <=> by[f] = w /\ pc'[f] \in {"checked", "rejecting"}
  BY DEF LockIsOwned
<1>1. lock[w] = f <=> by[f] = w /\ pc[f] \in {"checked", "rejecting"}
  BY DEF LockIsOwned
<1>e. lock[w] = e <=> by[e] = w /\ pc[e] \in {"checked", "rejecting"}
  BY DEF LockIsOwned
<1>2. CASE by[e] # w
  <2>1. lock'[w] = lock[w]
    BY <1>2, <1>0 DEF GoTo, Acquire, Release, Locked, TypeOK
  <2> QED
    BY <2>1, <1>1, <1>2, <1>0, <1>e DEF TypeOK
<1>3. CASE by[e] = w /\ l \in {"checked", "rejecting"}
  <2>1. lock'[w] = e
    BY <1>3, <1>0 DEF GoTo, Acquire, Locked, TypeOK
  <2>2. lock[w] \in {e, NoEpisode}
    BY <1>3 DEF Free, Locked
  <2> QED
    BY <2>1, <2>2, <1>0, <1>1, <1>3 DEF TypeOK
<1>4. CASE by[e] = w /\ l \notin {"checked", "rejecting"}
  <2>1. lock'[w] = IF lock[w] = e THEN NoEpisode ELSE lock[w]
    BY <1>4, <1>0 DEF GoTo, Release, Locked, TypeOK
  <2> QED
    BY <2>1, <1>0, <1>1, <1>4, <1>e DEF TypeOK
<1> QED
  BY <1>2, <1>3, <1>4

(* A call under its lock may take its next step.                           *)
LEMMA HolderIsFree ==
    ASSUME TypeOK, LockIsOwned, NEW e \in Episode, by[e] \in Process,
           pc[e] \in {"checked", "rejecting"}
    PROVE  Free(e)
BY DEF TypeOK, LockIsOwned, Free, Locked
-----------------------------------------------------------------------------
(* One lemma per action.                                                   *)

Lookup(e, l) ==
    /\ by[e] \in Process /\ GoTo(e, l) /\ l \in Pc
    /\ UNCHANGED <<rowVars, mode, by, event, crashes>>
    /\ holder' \in [Episode -> Episode \cup {NoEpisode}]
    /\ \A f \in Episode \ {e} : holder'[f] = holder[f]
    /\ l = "checked" /\ ModeOf(e) = "enforce" => holder'[e] = NoEpisode
    /\ failures' \in 0..MaxFailures
    /\ pc[e] \in {"called", "checked"}
    /\ l \in {"checked", "rejecting", "detecting", "rejected", "failed"}
    /\ l \in {"rejecting", "rejected"} => ModeOf(e) = "enforce"
    /\ l \in {"checked", "detecting"} => pc[e] = "called"
    /\ l = "detecting" => ModeOf(e) # "enforce" /\ by[e] \in Daemon

(* The steps of a call that leave the rows and the ledger alone.           *)
LEMMA LookupStep ==
    ASSUME IInv, NEW e \in Episode,
           \/ CheckSkipped(e) \/ CheckFindsNone(e) \/ StatementFails(e)
           \/ \E f \in Episode : CheckFinds(e, f) \/ InsertConflicts(e, f)
    PROVE  IInv'
<1> USE DEF IInv
<1> DEFINE l == pc'[e]
<1>1. Lookup(e, l)
  <2>1. CASE CheckSkipped(e)
    BY <2>1 DEF CheckSkipped, At, GoTo, TypeOK, rowVars, Shape, Lookup
  <2>2. CASE CheckFindsNone(e)
    BY <2>2 DEF CheckFindsNone, At, GoTo, TypeOK, rowVars, Shape, Lookup
  <2>3. CASE StatementFails(e)
    BY <2>3 DEF StatementFails, At, GoTo, TypeOK, rowVars, Shape, Lookup
  <2>4. ASSUME NEW f \in Episode, CheckFinds(e, f)
        PROVE  Lookup(e, l)
    BY <2>4 DEF CheckFinds, At, GoTo, TypeOK, rowVars, Locked, Shape, Lookup
  <2>5. ASSUME NEW f \in Episode, InsertConflicts(e, f)
        PROVE  Lookup(e, l)
    BY <2>5 DEF InsertConflicts, At, GoTo, TypeOK, rowVars, Locked, IndexHolders, Shape, Lookup
  <2> QED
    BY <2>1, <2>2, <2>3, <2>4, <2>5
<1> USE <1>1 DEF Lookup
<1> HIDE DEF l
<1>2. TypeOK'
  BY <1>1, GoToType DEF TypeOK, rowVars
<1>3. Free(e)
  BY HolderIsFree DEF CheckSkipped, CheckFindsNone, StatementFails, CheckFinds,
     InsertConflicts, At, TypeOK
<1>4. LockIsOwned'
  BY <1>1, <1>3, GoToLock
<1>5. pc' = [pc EXCEPT ![e] = l]
  BY <1>1, GoToType
<1>6. ~Inserted(e)
  BY <1>1 DEF Shape
<1>7. Shape'
  BY <1>1, <1>5, <1>6 DEF Shape, TypeOK, Inserted, rowVars, ModeOf
<1>8. OnlyEnforceRefuses'
  BY <1>5 DEF TypeOK, ModeOf, OnlyEnforceRefuses
<1>9. LedgerIsHonest'
  <2> SUFFICES ASSUME NEW f \in Episode
               PROVE  /\ event[f] = "rejected" => pc'[f] = "rejected" /\ ~Inserted(f)
                      /\ event[f] = "detected" =>
                            Inserted(f) \/ pc'[f] \in {"checked", "failed"}
    BY DEF LedgerIsHonest, Inserted, rowVars
  <2>1. CASE f # e
    BY <2>1, <1>5 DEF LedgerIsHonest, TypeOK
  <2>2. CASE f = e
    BY <2>2, <1>5, <1>6 DEF LedgerIsHonest, TypeOK, Shape
  <2> QED
    BY <2>1, <2>2
<1> QED
  BY <1>2, <1>4, <1>7, <1>8, <1>9
LEMMA InsertStep ==
    ASSUME IInv, NEW e \in Episode, InsertRow(e)
    PROVE  IInv'
<1> USE DEF IInv
<1> DEFINE l == IF Locked(e) /\ holder[e] # NoEpisode THEN "detecting" ELSE "accepted"
<1>1. /\ by[e] \in Process /\ pc[e] = "checked" /\ GoTo(e, l)
      /\ row' = [row EXCEPT ![e] = "active"]
      /\ gate' = [gate EXCEPT ![e] = ModeOf(e)]
      /\ UNCHANGED <<mode, by, holder, event, crashes, failures>>
  BY DEF InsertRow, At
<1>2. pc' = [pc EXCEPT ![e] = l]
  BY <1>1 DEF GoTo
<1>3. TypeOK'
  BY <1>1, <1>2, GoToType DEF TypeOK, ModeOf
<1>4. LockIsOwned'
  BY <1>1, GoToLock
<1>5. l = "detecting" => by[e] \in Mcp
  BY DEF Locked
<1>6. ModeOf(e)' = ModeOf(e)
  BY <1>1 DEF ModeOf
<1>7. l = "detecting" => ModeOf(e) # "enforce"
  BY <1>1 DEF Shape
<1>8. Shape'
  <2>1. \A f \in Episode : ModeOf(f)' = ModeOf(f)
    BY <1>1 DEF ModeOf
  <2>2. l \in {"accepted", "detecting"}
    OBVIOUS
  <2> HIDE DEF l
  <2> QED
    BY <2>1, <2>2, <1>1, <1>2, <1>5, <1>7 DEF Shape, TypeOK, Inserted
<1>9. OnlyEnforceRefuses'
  BY <1>1, <1>2 DEF OnlyEnforceRefuses, TypeOK, ModeOf
<1>10. LedgerIsHonest'
  BY <1>1, <1>2 DEF LedgerIsHonest, TypeOK, Inserted
<1> QED
  BY <1>3, <1>4, <1>8, <1>9, <1>10

LEMMA RecordStep ==
    ASSUME IInv, NEW e \in Episode, RecordEvent(e) \/ RecordEventFails(e)
    PROVE  IInv'
<1> USE DEF IInv
<1> DEFINE l == AfterEvent(e)
           v == IF pc[e] = "rejecting" THEN "rejected" ELSE "detected"
<1>1. /\ by[e] \in Process /\ pc[e] \in {"rejecting", "detecting"} /\ GoTo(e, l)
      /\ event' = event \/ event' = [event EXCEPT ![e] = v]
      /\ failures' \in 0..MaxFailures
      /\ UNCHANGED <<rowVars, mode, by, holder, crashes>>
  BY DEF RecordEvent, RecordEventFails, At, TypeOK
<1>2. l \in {"rejected", "accepted", "checked"}
  BY DEF AfterEvent
<1>3. pc' = [pc EXCEPT ![e] = l]
  BY <1>1 DEF GoTo
<1>4. TypeOK'
  <2>1. event' \in [Episode -> {"none", "detected", "rejected"}]
    BY <1>1 DEF TypeOK
  <2>2. pc' \in [Episode -> Pc] /\ lock' \in [Mcp -> Episode \cup {NoEpisode}]
    BY <1>1, <1>2, GoToType
  <2> QED
    BY <2>1, <2>2, <1>1 DEF TypeOK, rowVars
<1>5. /\ l = "checked" => by[e] \notin Mcp /\ pc[e] = "detecting"
      /\ l = "accepted" => by[e] \in Mcp /\ pc[e] = "detecting"
      /\ l = "rejected" <=> pc[e] = "rejecting"
  BY <1>1 DEF AfterEvent, Locked
<1>6. LockIsOwned'
  <2>1. l \in {"checked", "rejecting"} => Free(e)
    BY <1>2, <1>5 DEF Free, Locked
  <2> QED
    BY <2>1, <1>1, <1>2, GoToLock
<1>7. \A f \in Episode : ModeOf(f)' = ModeOf(f) /\ Inserted(f)' = Inserted(f)
  BY <1>1 DEF ModeOf, Inserted, rowVars
<1> HIDE DEF l
<1>8. /\ \A f \in Episode \ {e} : event'[f] = event[f]
      /\ event'[e] = event[e] \/ event'[e] = v
  BY <1>1 DEF TypeOK
<1>9. Shape'
  BY <1>1, <1>2, <1>3, <1>5, <1>7, <1>8 DEF Shape, TypeOK
<1>10. OnlyEnforceRefuses'
  BY <1>1, <1>2, <1>3, <1>5, <1>7 DEF OnlyEnforceRefuses, TypeOK
<1>11. LedgerIsHonest'
  <2> SUFFICES ASSUME NEW f \in Episode
               PROVE  /\ event'[f] = "rejected" => pc'[f] = "rejected" /\ ~Inserted(f)
                      /\ event'[f] = "detected" =>
                            Inserted(f) \/ pc'[f] \in {"checked", "failed"}
    BY <1>7 DEF LedgerIsHonest
  <2>1. CASE f # e
    BY <2>1, <1>3, <1>8 DEF LedgerIsHonest, TypeOK
  <2>2. CASE f = e
    BY <2>2, <1>1, <1>2, <1>3, <1>5, <1>8 DEF LedgerIsHonest, TypeOK, Shape
  <2> QED
    BY <2>1, <2>2
<1> QED
  BY <1>4, <1>6, <1>9, <1>10, <1>11

LEMMA CallStep ==
    ASSUME IInv, NEW e \in Episode, NEW w \in Process, Call(e, w)
    PROVE  IInv'
<1> USE DEF IInv, Call
<1>1. TypeOK'
  BY DEF TypeOK, rowVars
<1>2. Shape'
  BY DEF Shape, LedgerIsHonest, TypeOK, Inserted, ModeOf, rowVars
<1>3. LockIsOwned'
  BY DEF LockIsOwned, TypeOK
<1>4. OnlyEnforceRefuses' /\ LedgerIsHonest'
  BY DEF OnlyEnforceRefuses, LedgerIsHonest, TypeOK, ModeOf, Inserted, rowVars
<1> QED
  BY <1>1, <1>2, <1>3, <1>4

LEMMA CrashStep ==
    ASSUME IInv, NEW w \in Process, NEW m \in Modes, Crash(w, m)
    PROVE  IInv'
<1> USE DEF IInv, Crash
<1>1. TypeOK'
  BY DEF TypeOK, rowVars
<1>2. \A e \in Episode :
         by'[e] \in Process => by'[e] = by[e] /\ by[e] # w /\ ModeOf(e)' = ModeOf(e)
  BY DEF TypeOK, ModeOf
<1>3. \A e \in Episode : by'[e] # NoEpisode => by'[e] = by[e]
  BY DEF TypeOK
<1>4. Shape'
  BY <1>2 DEF Shape, TypeOK, Inserted, rowVars
<1>5. LockIsOwned'
  BY DEF LockIsOwned, TypeOK
<1>6. OnlyEnforceRefuses' /\ LedgerIsHonest'
  BY <1>2 DEF OnlyEnforceRefuses, LedgerIsHonest, Inserted, rowVars
<1> QED
  BY <1>1, <1>4, <1>5, <1>6

LEMMA MoveStep ==
    ASSUME IInv, NEW S \in SUBSET Episode, NEW st \in {"active", "done", "idle"},
           RowsMove(S, st)
    PROVE  IInv'
<1> USE DEF IInv, RowsMove
<1>1. TypeOK'
  BY DEF TypeOK
<1>2. \A e \in Episode : Inserted(e)' <=> Inserted(e)
  BY DEF Inserted
<1>3. Shape' /\ LockIsOwned' /\ OnlyEnforceRefuses' /\ LedgerIsHonest'
  BY <1>2 DEF Shape, LockIsOwned, OnlyEnforceRefuses, LedgerIsHonest, ModeOf
<1> QED
  BY <1>1, <1>3

LEMMA EveryStep == IInv /\ [Next]_vars => IInv'
<1> SUFFICES ASSUME IInv, [Next]_vars PROVE IInv'
    OBVIOUS
<1>1. ASSUME NEW e \in Episode, Step(e) PROVE IInv'
  BY <1>1, LookupStep, InsertStep, RecordStep DEF Step
<1>2. CASE UNCHANGED vars
  BY <1>2 DEF vars, rowVars, IInv, TypeOK, Shape, LockIsOwned, OnlyEnforceRefuses,
     LedgerIsHonest, Inserted, ModeOf
<1> QED
  BY <1>1, <1>2, CallStep, CrashStep, MoveStep DEF Next

THEOREM Invariants == Spec => []IInv
BY InitIInv, EveryStep, PTL DEF Spec

(* Every variable keeps its type.                                          *)
THEOREM TypeCorrect == Spec => []TypeOK
BY Invariants, PTL DEF IInv

(* The lock of an MCP process is held by exactly the call that is between  *)
(* its lookup and its INSERT or its rejection.                             *)
THEOREM LockIsOwnedAlways == Spec => []LockIsOwned
BY Invariants, PTL DEF IInv

(* No observing or ungated call is refused, whatever the others do.        *)
THEOREM OnlyEnforceRefusesAlways == Spec => []OnlyEnforceRefuses
BY Invariants, PTL DEF IInv

(* The ledger's events are true of the calls they were recorded for.       *)
THEOREM LedgerIsHonestAlways == Spec => []LedgerIsHonest
BY Invariants, PTL DEF IInv
-----------------------------------------------------------------------------
(* The refinement: the verdict on a call falls in one step.                *)

(* A step that leaves the rows alone and moves one call to a label outside *)
(* the refused ones, or from one of them to the other, changes no verdict. *)
LEMMA SameVerdicts ==
    ASSUME TypeOK, NEW e \in Episode, NEW l \in Pc, pc' = [pc EXCEPT ![e] = l],
           l \in {"rejecting", "rejected"} <=> pc[e] \in {"rejecting", "rejected"},
           l \in {"rejecting", "rejected"} => holder'[e] = holder[e],
           \A f \in Episode \ {e} : holder'[f] = holder[f]
    PROVE  refusal' = refusal
<1>1. \A f \in Episode : refusal'[f] = refusal[f]
  BY DEF refusal, TypeOK
<1> QED
  BY <1>1 DEF refusal

(* A step that refuses e because of f.                                     *)
LEMMA NewVerdict ==
    ASSUME TypeOK, NEW e \in Episode, NEW f \in Episode,
           pc[e] \in {"called", "checked"},
           NEW l \in {"rejecting", "rejected"}, pc' = [pc EXCEPT ![e] = l],
           holder' = [holder EXCEPT ![e] = f]
    PROVE  refusal' = [refusal EXCEPT ![e] = f] /\ refusal[e] = NoEpisode
<1>1. \A g \in Episode : pc'[g] = IF g = e THEN l ELSE pc[g]
  BY DEF TypeOK
<1>2. \A g \in Episode : holder'[g] = IF g = e THEN f ELSE holder[g]
  BY DEF TypeOK
<1>3. \A g \in Episode : refusal'[g] = IF g = e THEN f ELSE refusal[g]
  BY <1>1, <1>2 DEF refusal
<1>4. refusal' = [refusal EXCEPT ![e] = f]
  BY <1>3 DEF refusal
<1>5. refusal[e] = NoEpisode
  BY DEF refusal
<1> QED
  BY <1>4, <1>5

LEMMA InitMaps == Init => Gated!Init
<1> SUFFICES ASSUME Init PROVE Gated!Init
    OBVIOUS
<1>1. refusal = [e \in Episode |-> NoEpisode]
  BY DEF refusal, Init
<1> QED
  BY <1>1 DEF Init, Gated!Init

LEMMA StepMaps == IInv /\ [Next]_vars => [Gated!Next]_Gated!vars
<1> SUFFICES ASSUME IInv, [Next]_vars PROVE [Gated!Next]_Gated!vars
    OBVIOUS
<1> USE DEF IInv
<1>s. ASSUME UNCHANGED rowVars, refusal' = refusal PROVE [Gated!Next]_Gated!vars
  BY <1>s DEF Gated!vars, rowVars
<1>1. ASSUME NEW e \in Episode, NEW w \in Process, Call(e, w)
      PROVE  [Gated!Next]_Gated!vars
  BY <1>1, <1>s, SameVerdicts DEF Call
<1>2. ASSUME NEW e \in Episode, CheckSkipped(e) \/ CheckFindsNone(e) \/ StatementFails(e)
      PROVE  [Gated!Next]_Gated!vars
  <2>1. /\ UNCHANGED <<rowVars, holder>> /\ pc[e] \in {"called", "checked"}
        /\ pc' = [pc EXCEPT ![e] = "checked"] \/ pc' = [pc EXCEPT ![e] = "failed"]
    BY <1>2 DEF CheckSkipped, CheckFindsNone, StatementFails, GoTo, At
  <2>2. refusal' = refusal
    BY <2>1, SameVerdicts
  <2> QED
    BY <2>1, <2>2, <1>s
<1>3. ASSUME NEW e \in Episode, NEW f \in Episode, CheckFinds(e, f)
      PROVE  [Gated!Next]_Gated!vars
  <2>1. /\ UNCHANGED rowVars /\ pc[e] = "called"
        /\ holder' = [holder EXCEPT ![e] = f]
        /\ f \in Twins(e) /\ row[f] = "active"
    BY <1>3 DEF CheckFinds, At, ActiveTwins
  <2>2. CASE ModeOf(e) = "enforce"
    <3>1. pc' = [pc EXCEPT ![e] = "rejecting"]
      BY <1>3, <2>2 DEF CheckFinds, GoTo
    <3>2. refusal' = [refusal EXCEPT ![e] = f] /\ refusal[e] = NoEpisode
      BY <3>1, <2>1, NewVerdict
    <3>3. row[e] = "none"
      BY <2>1 DEF Shape, Inserted
    <3>4. Gated!Refuse(e, f)
      BY <3>2, <3>3, <2>1 DEF Gated!Refuse, Gated!Inserted, Gated!Twins, Twins, rowVars
    <3> QED
      BY <3>4 DEF Gated!Next
  <2>3. CASE ModeOf(e) # "enforce"
    <3>1. \E l \in {"checked", "detecting"} : pc' = [pc EXCEPT ![e] = l]
      BY <1>3, <2>3 DEF CheckFinds, GoTo
    <3>2. \A g \in Episode \ {e} : holder'[g] = holder[g]
      BY <2>1 DEF TypeOK
    <3>3. refusal' = refusal
      BY <3>1, <3>2, <2>1, SameVerdicts
    <3> QED
      BY <3>3, <2>1, <1>s
  <2> QED
    BY <2>2, <2>3
<1>4. ASSUME NEW e \in Episode, NEW f \in Episode, InsertConflicts(e, f)
      PROVE  [Gated!Next]_Gated!vars
  <2>1. /\ UNCHANGED rowVars /\ pc[e] = "checked"
        /\ holder' = [holder EXCEPT ![e] = f]
        /\ f \in Twins(e) /\ row[f] = "active"
    BY <1>4 DEF InsertConflicts, At, IndexHolders, Indexed
  <2>2. \E l \in {"rejecting", "rejected"} : pc' = [pc EXCEPT ![e] = l]
    BY <1>4 DEF InsertConflicts, GoTo
  <2>3. refusal' = [refusal EXCEPT ![e] = f] /\ refusal[e] = NoEpisode
    BY <2>1, <2>2, NewVerdict
  <2>4. row[e] = "none"
    BY <2>1 DEF Shape, Inserted
  <2>5. Gated!Refuse(e, f)
    BY <2>1, <2>3, <2>4 DEF Gated!Refuse, Gated!Inserted, Gated!Twins, Twins, rowVars
  <2> QED
    BY <2>5 DEF Gated!Next
<1>5. ASSUME NEW e \in Episode, InsertRow(e)
      PROVE  [Gated!Next]_Gated!vars
  <2>1. /\ pc[e] = "checked" /\ by[e] \in Process
        /\ row' = [row EXCEPT ![e] = "active"]
        /\ gate' = [gate EXCEPT ![e] = ModeOf(e)]
        /\ IndexHolders(e) = {} /\ holder' = holder
    BY <1>5 DEF InsertRow, At
  <2>2. \E l \in {"detecting", "accepted"} : pc' = [pc EXCEPT ![e] = l]
    BY <1>5 DEF InsertRow, GoTo
  <2>3. refusal' = refusal
    BY <2>1, <2>2, SameVerdicts
  <2>4. row[e] = "none" /\ refusal[e] = NoEpisode
    BY <2>1 DEF Shape, Inserted, refusal
  <2>5. ModeOf(e) \in Gate
    BY <2>1 DEF ModeOf, TypeOK
  <2>6. Gated!Accept(e, ModeOf(e))
    BY <2>1, <2>3, <2>4 DEF Gated!Accept, Gated!Inserted, Gated!Twins, Gated!Indexed,
       Twins, IndexHolders, Indexed
  <2> QED
    BY <2>5, <2>6 DEF Gated!Next
<1>6. ASSUME NEW e \in Episode, RecordEvent(e) \/ RecordEventFails(e)
      PROVE  [Gated!Next]_Gated!vars
  <2>1. /\ UNCHANGED <<rowVars, holder>> /\ pc[e] \in {"rejecting", "detecting"}
        /\ pc' = [pc EXCEPT ![e] = AfterEvent(e)]
    BY <1>6 DEF RecordEvent, RecordEventFails, GoTo, At
  <2>2. /\ AfterEvent(e) \in Pc
        /\ AfterEvent(e) \in {"rejecting", "rejected"} <=>
              pc[e] \in {"rejecting", "rejected"}
    BY <2>1 DEF AfterEvent
  <2>3. refusal' = refusal
    BY <2>1, <2>2, SameVerdicts
  <2> QED
    BY <2>1, <2>3, <1>s
<1>7. ASSUME NEW w \in Process, NEW m \in Modes, Crash(w, m)
      PROVE  [Gated!Next]_Gated!vars
  BY <1>7, <1>s DEF Crash, refusal
<1>8. ASSUME NEW S \in SUBSET Episode, NEW st \in {"active", "done", "idle"},
             RowsMove(S, st)
      PROVE  [Gated!Next]_Gated!vars
  <2>1. refusal' = refusal
    BY <1>8 DEF RowsMove, refusal
  <2>2. Gated!RowsMove(S, st)
    BY <1>8, <2>1 DEF RowsMove, Gated!RowsMove, Gated!Inserted, Inserted, Admissible,
       Gated!Admissible, Enforced, Twins, Gated!Twins
  <2> QED
    BY <2>2 DEF Gated!Next
<1>9. CASE UNCHANGED vars
  BY <1>9, <1>s DEF vars, refusal
<1> QED
  BY <1>1, <1>2, <1>3, <1>4, <1>5, <1>6, <1>7, <1>8, <1>9 DEF Next, Step

(* The gate of two unsynchronised kinds of writers behaves as if every     *)
(* call were decided in one step, for any number of calls and processes.   *)
THEOREM ImplementsGateAlways == Spec => ImplementsGate
<1>1. Spec => Gated!Init /\ [][Gated!Next]_Gated!vars
  BY InitMaps, StepMaps, Invariants, PTL DEF Spec
<1> QED
  BY <1>1 DEF ImplementsGate, Gated!Spec

=============================================================================
