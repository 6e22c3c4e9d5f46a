------------------------- MODULE EpisodeQueue_proofs -------------------------
(***************************************************************************)
(* Theorems of EpisodeQueue, for any number of episodes and processes:     *)
(*  1. TypeCorrect: every variable keeps its type;                         *)
(*  2. HeldAlways: what processes hold between two statements stays true   *)
(*     enough (the strengthening the refinement needs);                    *)
(*  3. ImplementsLifecycleAlways: every step is one of EpisodeLifecycle or *)
(*     a stutter, and so                                                   *)
(*  4. UniqueActiveAlways, NoOpenDlqWhenDoneAlways and                     *)
(*     DoneMeansDeliveredAlways, inherited from L!LifecycleSafe;           *)
(*  5. SkipLosesNothingAlways, for any number of dreams beside one reaper, *)
(*     from the invariant SkipSafe;                                        *)
(*  6. NoSpuriousDuplicateAlways and QueuedBelowCeilingAlways, for the     *)
(*     processes a daemon runs, from the invariant Solo.                   *)
(***************************************************************************)
EXTENDS EpisodeQueue, TLAPS

-----------------------------------------------------------------------------
(* What the statements of the two tables leave well typed.                 *)

LEMMA UpdateRowTyped ==
    ASSUME RowTypeOK, NEW e, NEW st \in Status, NEW n \in Nat, NEW err \in Error,
           UpdateRow(e, st, n, err)
    PROVE  RowTypeOK'
BY DEF RowTypeOK, UpdateRow

LEMMA OpenDlqTyped ==
    ASSUME DlqTypeOK, NEW e, NEW err \in Error, OpenDlq(e, err)
    PROVE  DlqTypeOK'
BY DEF DlqTypeOK, OpenDlq

LEMMA CloseDlqTyped == ASSUME DlqTypeOK, NEW e, CloseDlq(e) PROVE DlqTypeOK'
BY DEF DlqTypeOK, CloseDlq

LEMMA DlqUnchanged == DlqTypeOK /\ UNCHANGED dlqVars => DlqTypeOK'
BY DEF DlqTypeOK, dlqVars

LEMMA TableUnchanged == TableTypeOK /\ UNCHANGED tableVars => TableTypeOK'
BY DEF TableTypeOK, RowTypeOK, DlqTypeOK, tableVars, dlqVars

LEMMA MarkTyped ==
    ASSUME TableTypeOK, NEW e \in Episode, NEW n \in Nat, NEW err \in Error,
           \/ MarkDoneRow(e) \/ MarkFailedRow(e, err)
           \/ MarkAbortedRow(e, n, err) \/ MarkSkippedRow(e)
    PROVE  TableTypeOK'
<1> USE DEF TableTypeOK
<1>1. attempts[e] \in Nat /\ attempts[e] + 1 \in Nat /\ n + 1 \in Nat
  BY DEF RowTypeOK
<1>2. lastError[e] \in Error /\ "Transient" \in Error
  BY DEF RowTypeOK, Error
<1>3. {"done", "failed", "aborted", "skipped_duplicate"} \subseteq Status
  BY DEF Status
<1>4. CASE MarkDoneRow(e)
  BY <1>1, <1>2, <1>3, <1>4, UpdateRowTyped, CloseDlqTyped DEF MarkDoneRow
<1>5. CASE MarkFailedRow(e, err)
  BY <1>1, <1>3, <1>5, UpdateRowTyped, DlqUnchanged DEF MarkFailedRow
<1>6. CASE MarkAbortedRow(e, n, err)
  BY <1>1, <1>3, <1>6, UpdateRowTyped, OpenDlqTyped DEF MarkAbortedRow
<1>7. CASE MarkSkippedRow(e)
  BY <1>1, <1>2, <1>3, <1>7, UpdateRowTyped, DlqUnchanged DEF MarkSkippedRow
<1> QED
  BY <1>4, <1>5, <1>6, <1>7

-----------------------------------------------------------------------------
(* What the control operators leave well typed.                            *)

LEMMA FetchTyped ==
    ASSUME ProcTypeOK, NEW p \in Process, NEW l \in Pc,
           NEW rows \in SUBSET (Episode \X Nat), Fetch(p, rows, l)
    PROVE  ProcTypeOK'
BY DEF ProcTypeOK, Fetch

LEMMA ConsumeTyped ==
    ASSUME ProcTypeOK, NEW p \in Process, NEW r, NEW l \in Pc, NEW next \in Pc,
           NEW tx \in Process \cup {NoProcess}, Consume(p, r, l, next, tx)
    PROVE  ProcTypeOK'
BY DEF ProcTypeOK, Consume

LEMMA HoldTyped ==
    ASSUME ProcTypeOK, NEW p \in Process, NEW r \in picked[p], NEW l \in Pc,
           Hold(p, r, l)
    PROVE  ProcTypeOK'
<1>1. r[1] \in Episode
  BY DEF ProcTypeOK
<1> QED
  BY <1>1 DEF ProcTypeOK, Hold

LEMMA ProcUnchanged == ProcTypeOK /\ UNCHANGED procVars => ProcTypeOK'
BY DEF ProcTypeOK, procVars

LEMMA WorkUnchanged == WorkTypeOK /\ UNCHANGED workVars => WorkTypeOK'
BY DEF WorkTypeOK, workVars

LEMMA AfterTyped ==
    ASSUME NEW p \in Process PROVE AfterReap(p) \in Pc /\ AfterRepair(p) \in Pc
BY DEF AfterReap, AfterRepair, Pc

LEMMA TaskTyped ==
    ASSUME WorkTypeOK, NEW s \in Sweeper, NEW e \in Episode, NEW t \in Task,
           SetTask(s, e, t)
    PROVE  task' \in [Sweeper -> [Episode -> Task]]
BY DEF WorkTypeOK, SetTask

LEMMA GotoTyped ==
    ASSUME WorkTypeOK, NEW s \in Sweeper, NEW e \in Episode, NEW st \in TaskState,
           Goto(s, e, st)
    PROVE  task' \in [Sweeper -> [Episode -> Task]]
<1>1. [task[s][e] EXCEPT !.st = st] \in Task
  BY DEF WorkTypeOK, Task
<1> QED
  BY <1>1, TaskTyped DEF Goto

LEMMA RaiseTyped ==
    ASSUME WorkTypeOK, NEW s \in Sweeper, NEW e \in Episode, NEW err \in Error,
           Raise(s, e, err)
    PROVE  task' \in [Sweeper -> [Episode -> Task]]
<1> DEFINE st == IF ShouldRetry(task[s][e].n, err) THEN "failing" ELSE "aborting"
<1> DEFINE t == [task[s][e] EXCEPT !.st = st, !.err = err]
<1>1. st \in TaskState
  BY DEF TaskState
<1>2. t \in Task
  <2>1. task[s][e] \in Task
    BY DEF WorkTypeOK
  <2> HIDE DEF st
  <2> QED
    BY <1>1, <2>1 DEF Task
<1> QED
  BY <1>2, TaskTyped DEF Raise

LEMMA DeliveredTyped ==
    ASSUME NEW d \in Delivered
    PROVE  Deliver(d) \in Delivered /\ Lose(d) \in Delivered
BY DEF Delivered, Deliver, Lose

-----------------------------------------------------------------------------
(* One lemma per process: its statements keep the types.                   *)

LEMMA ReapTyped ==
    ASSUME TypeOK, NEW p \in Process, Reap(p) \/ ReapSelect(p)
    PROVE  TypeOK'
<1> USE DEF TypeOK
<1>1. /\ {"reap", "reapSkip", "idle", "claim"} \subseteq Pc /\ AfterReap(p) \in Pc
      /\ "queued" \in Status /\ "Transient" \in Error
  BY AfterTyped DEF Pc, Status, Active, Error
<1>2. ASSUME NEW r \in picked[p]
      PROVE  r[1] \in Episode /\ r[2] \in Nat /\ r[2] + 1 \in Nat
  BY DEF ProcTypeOK
<1>3. writer \in Process \cup {NoProcess}
  BY DEF ProcTypeOK
<1>4. CASE ReapSelect(p)
  <2> DEFINE rows == {<<e, attempts[e]>> :
                        e \in {f \in Episode : status[f] = "processing" /\ aged[f]}}
  <2>1. rows \in SUBSET (Episode \X Nat)
    BY DEF TableTypeOK, RowTypeOK
  <2>2. PICK l \in Pc : Fetch(p, rows, l)
    BY <1>1, <1>4 DEF ReapSelect
  <2>3. ProcTypeOK'
    BY <2>1, <2>2, FetchTyped
  <2> QED
    BY <1>4, <2>3, TableUnchanged, WorkUnchanged DEF ReapSelect
<1>5. CASE ReapAbort(p)
  <2>1. PICK r \in picked[p] : /\ MarkAbortedRow(r[1], r[2], "Transient")
                               /\ Consume(p, r, "reap", AfterReap(p), p)
    BY <1>5 DEF ReapAbort
  <2>2. TableTypeOK'
    BY <1>1, <1>2, <2>1, MarkTyped
  <2>3. ProcTypeOK'
    BY <1>1, <2>1, ConsumeTyped
  <2> QED
    BY <1>5, <2>2, <2>3, WorkUnchanged DEF ReapAbort
<1>6. CASE ReapRequeue(p)
  <2>1. PICK r \in picked[p] :
            /\ UpdateRow(r[1], "queued", r[2] + 1, lastError[r[1]])
            /\ Consume(p, r, "reap", AfterReap(p), writer)
    BY <1>6 DEF ReapRequeue
  <2>2. lastError[r[1]] \in Error
    BY <1>2 DEF TableTypeOK, RowTypeOK
  <2>3. RowTypeOK'
    BY <1>1, <1>2, <2>1, <2>2, UpdateRowTyped DEF TableTypeOK
  <2>4. ProcTypeOK'
    BY <1>1, <1>3, <2>1, ConsumeTyped
  <2> QED
    BY <1>6, <2>3, <2>4, DlqUnchanged, WorkUnchanged DEF ReapRequeue, TableTypeOK
<1>7. CASE ReapConflict(p)
  <2>1. PICK r \in picked[p] : Hold(p, r, "reapSkip")
    BY <1>7 DEF ReapConflict
  <2>2. ProcTypeOK'
    BY <1>1, <2>1, HoldTyped
  <2> QED
    BY <1>7, <2>2, TableUnchanged, WorkUnchanged DEF ReapConflict
<1>8. CASE ReapSkip(p)
  <2>1. ProcTypeOK'
    BY <1>1, <1>8, ConsumeTyped DEF ReapSkip
  <2>2. TableTypeOK'
    <3>1. RowTypeOK'
      BY <1>1, <1>8 DEF ReapSkip, MarkSkippedRow, UpdateRow, TableTypeOK, RowTypeOK,
         Status
    <3> QED
      BY <1>8, <3>1, DlqUnchanged DEF ReapSkip, MarkSkippedRow, TableTypeOK
  <2> QED
    BY <1>8, <2>1, <2>2, WorkUnchanged DEF ReapSkip
<1> QED
  BY <1>4, <1>5, <1>6, <1>7, <1>8 DEF Reap

LEMMA ClaimTyped ==
    ASSUME TypeOK, NEW p \in Process, ClaimSelect(p) \/ Claim(p) \/ SweepEnd(p)
    PROVE  TypeOK'
<1> USE DEF TypeOK
<1>1. {"idle", "claimed", "work"} \subseteq Pc
  BY DEF Pc
<1>2. CASE ClaimSelect(p)
  <2>1. PICK S \in LimitTo({e \in Episode : status[e] = "queued"}, BatchLimit) :
          Fetch(p, {<<e, attempts[e]>> : e \in S}, IF S = {} THEN "idle" ELSE "claimed")
    BY <1>2 DEF ClaimSelect
  <2>2. S \subseteq Episode
    BY DEF LimitTo
  <2>3. {<<e, attempts[e]>> : e \in S} \in SUBSET (Episode \X Nat)
    BY <2>2 DEF TableTypeOK, RowTypeOK
  <2>4. (IF S = {} THEN "idle" ELSE "claimed") \in Pc
    BY <1>1
  <2>5. ProcTypeOK'
    BY <2>1, <2>3, <2>4, FetchTyped
  <2> QED
    BY <1>2, <2>5, TableUnchanged, WorkUnchanged DEF ClaimSelect
<1>3. CASE ClaimUpdate(p)
  <2>1. ProcTypeOK'
    BY <1>1, <1>3, FetchTyped DEF ClaimUpdate
  <2>2. TableTypeOK'
    <3>1. RowTypeOK'
      BY <1>3 DEF ClaimUpdate, TableTypeOK, RowTypeOK, Status, Active
    <3> QED
      BY <1>3, <3>1, DlqUnchanged DEF ClaimUpdate, TableTypeOK
  <2>3. WorkTypeOK'
    <3> DEFINE snapshot(e) == (CHOOSE r \in picked[p] : r[1] = e)[2]
               claimed(D) == [e \in Episode |->
                   IF e \notin PickedIds(p) THEN NoTask
                   ELSE [st |-> IF e \in D THEN "failing" ELSE "waiting",
                         n |-> snapshot(e),
                         err |-> IF e \in D THEN "Transient" ELSE "None"]]
    <3>1. ASSUME NEW e \in PickedIds(p) PROVE snapshot(e) \in Nat
      BY DEF PickedIds, ProcTypeOK
    <3>2. NoTask \in Task /\ {"failing", "waiting"} \subseteq TaskState
          /\ {"Transient", "None"} \subseteq Error
      BY DEF NoTask, Task, TaskState, Error
    <3>3. ASSUME NEW D PROVE claimed(D) \in [Episode -> Task]
      <4> HIDE DEF snapshot
      <4> QED
        BY <3>1, <3>2 DEF Task
    <3>4. PICK D : task' = [task EXCEPT ![p] = claimed(D)]
      BY <1>3 DEF ClaimUpdate
    <3>5. task' \in [Sweeper -> [Episode -> Task]]
      <4> HIDE DEF claimed
      <4> QED
        BY <3>3, <3>4 DEF WorkTypeOK
    <3> QED
      BY <1>3, <3>5 DEF ClaimUpdate, WorkTypeOK
  <2> QED
    BY <1>3, <2>1, <2>2, <2>3 DEF ClaimUpdate
<1>4. CASE ClaimRefused(p)
  <2>1. ProcTypeOK'
    BY <1>1, <1>4, FetchTyped DEF ClaimRefused
  <2> QED
    BY <1>4, <2>1, TableUnchanged, WorkUnchanged DEF ClaimRefused
<1>5. CASE SweepEnd(p)
  <2>1. ProcTypeOK'
    BY <1>1, <1>5, FetchTyped DEF SweepEnd
  <2> QED
    BY <1>5, <2>1, TableUnchanged, WorkUnchanged DEF SweepEnd
<1> QED
  BY <1>2, <1>3, <1>4, <1>5 DEF Claim

LEMMA WorkTyped ==
    ASSUME TypeOK, NEW s \in Sweeper, NEW e \in Episode,
           Work(s, e) \/ LateMarkDone(s, e)
    PROVE  TypeOK'
<1> USE DEF TypeOK
<1>1. /\ {"running", "skipping", "marking"} \subseteq TaskState
      /\ "Transient" \in Error /\ Raised \subseteq Error
  BY ParameterAssumption DEF TaskState, Error
<1>2. NoTask \in Task
  BY DEF NoTask, Task, TaskState, Error
<1>3. task[s][e].n \in Nat /\ task[s][e].err \in Error
  BY DEF WorkTypeOK, Task
<1>4. /\ delivered[e] \in Delivered
      /\ Deliver(delivered[e]) \in Delivered /\ Lose(delivered[e]) \in Delivered
      /\ Lose(Deliver(delivered[e])) \in Delivered
  BY DeliveredTyped DEF WorkTypeOK
<1>5. CASE Start(s, e)
  BY <1>1, <1>5, GotoTyped, TableUnchanged, ProcUnchanged DEF Start, WorkTypeOK
<1>6. CASE BackstopHit(s, e)
  BY <1>1, <1>6, GotoTyped, TableUnchanged, ProcUnchanged DEF BackstopHit, WorkTypeOK
<1>7. CASE MarkSkipped(s, e)
  <2>1. TableTypeOK'
    BY <1>3, <1>7, MarkTyped DEF MarkSkipped
  <2> QED
    BY <1>2, <1>7, <2>1, TaskTyped, ProcUnchanged DEF MarkSkipped, WorkTypeOK
<1>8. CASE AddEpisode(s, e)
  BY <1>1, <1>4, <1>8, GotoTyped, TableUnchanged, ProcUnchanged
     DEF AddEpisode, WorkTypeOK
<1>9. CASE AddEpisodeFails(s, e)
  BY <1>1, <1>9, RaiseTyped, TableUnchanged, ProcUnchanged
     DEF AddEpisodeFails, WorkTypeOK
<1>10. CASE Timeout(s, e)
  BY <1>1, <1>4, <1>10, RaiseTyped, TableUnchanged, ProcUnchanged
     DEF Timeout, WorkTypeOK
<1>11. CASE MarkDone(s, e)
  <2>1. TableTypeOK'
    BY <1>3, <1>11, MarkTyped DEF MarkDone
  <2> QED
    BY <1>2, <1>11, <2>1, TaskTyped, ProcUnchanged DEF MarkDone, WorkTypeOK
<1>12. CASE MarkDoneCancelled(s, e)
  BY <1>1, <1>4, <1>12, RaiseTyped, TableUnchanged, ProcUnchanged
     DEF MarkDoneCancelled, WorkTypeOK
<1>13. CASE LateMarkDone(s, e)
  <2>1. TableTypeOK'
    BY <1>3, <1>13, MarkTyped DEF LateMarkDone
  <2> QED
    BY <1>13, <2>1, ProcUnchanged DEF LateMarkDone, WorkTypeOK
<1>14. CASE MarkFailed(s, e)
  <2>1. TableTypeOK'
    BY <1>3, <1>14, MarkTyped DEF MarkFailed
  <2> QED
    BY <1>2, <1>14, <2>1, TaskTyped, ProcUnchanged DEF MarkFailed, WorkTypeOK
<1>15. CASE AbortSelect(s, e)
  <2>1. [task[s][e] EXCEPT !.st = "burying", !.n = attempts[e]] \in Task
    <3>1. task[s][e] \in Task /\ attempts[e] \in Nat /\ "burying" \in TaskState
      BY DEF WorkTypeOK, TableTypeOK, RowTypeOK, TaskState
    <3> QED
      BY <3>1 DEF Task
  <2> QED
    BY <1>15, <2>1, TaskTyped, TableUnchanged, ProcUnchanged
       DEF AbortSelect, WorkTypeOK
<1>16. CASE MarkAborted(s, e)
  <2>1. TableTypeOK'
    BY <1>3, <1>16, MarkTyped DEF MarkAborted
  <2> QED
    BY <1>2, <1>16, <2>1, TaskTyped, ProcUnchanged DEF MarkAborted, WorkTypeOK
<1>17. CASE WriteFails(s, e)
  <2>1. task' \in [Sweeper -> [Episode -> Task]]
    BY <1>1, <1>2, <1>17, GotoTyped, TaskTyped DEF WriteFails
  <2> QED
    BY <1>17, <2>1, TableUnchanged, ProcUnchanged DEF WriteFails, WorkTypeOK
<1>18. CASE PassBlank(s, e)
  BY <1>1, <1>18, GotoTyped, TableUnchanged, ProcUnchanged DEF PassBlank, WorkTypeOK
<1> QED
  BY <1>5, <1>6, <1>7, <1>8, <1>9, <1>10, <1>11, <1>12, <1>13, <1>14, <1>15,
     <1>16, <1>17, <1>18 DEF Work

(* Both replays write the same row: queued, no attempts, no error.         *)
LEMMA RequeueTyped ==
    ASSUME RowTypeOK, NEW e \in Episode, UpdateRow(e, "queued", 0, "None")
    PROVE  RowTypeOK'
<1>1. "queued" \in Status /\ 0 \in Nat /\ "None" \in Error
  BY DEF Status, Active, Error
<1> QED
  BY <1>1, UpdateRowTyped

LEMMA RepairTyped ==
    ASSUME TypeOK, NEW p \in Process, RepairSelect(p) \/ RepairRow(p)
    PROVE  TypeOK'
<1> USE DEF TypeOK
<1>1. /\ {"repairRow"} \subseteq Pc /\ AfterRepair(p) \in Pc /\ "queued" \in Status
      /\ writer \in Process \cup {NoProcess}
  BY AfterTyped DEF Pc, Status, Active, ProcTypeOK
<1>2. CASE RepairSelect(p)
  <2>1. PICK S \in LimitTo(Repairable, ReapLimit) :
          Fetch(p, {<<e, 0>> : e \in S}, IF S = {} THEN AfterRepair(p) ELSE "repairRow")
    BY <1>2 DEF RepairSelect
  <2>2. {<<e, 0>> : e \in S} \in SUBSET (Episode \X Nat)
    BY DEF LimitTo, Repairable
  <2>3. (IF S = {} THEN AfterRepair(p) ELSE "repairRow") \in Pc
    BY <1>1
  <2>4. ProcTypeOK'
    BY <2>1, <2>2, <2>3, FetchTyped
  <2> QED
    BY <1>2, <2>4, TableUnchanged, WorkUnchanged DEF RepairSelect
<1>3. CASE RepairRow(p)
  <2>1. PICK r \in picked[p] :
          /\ IF Conflicts(r[1])
             THEN UNCHANGED rowVars
             ELSE UpdateRow(r[1], "queued", attempts[r[1]], lastError[r[1]])
          /\ Consume(p, r, "repairRow", AfterRepair(p), writer)
    BY <1>3 DEF RepairRow
  <2>2. r[1] \in Episode
    BY DEF ProcTypeOK
  <2>3. attempts[r[1]] \in Nat /\ lastError[r[1]] \in Error
    BY <2>2 DEF TableTypeOK, RowTypeOK
  <2>4. RowTypeOK'
    <3>1. CASE Conflicts(r[1])
      BY <1>3, <2>1, <3>1 DEF RepairRow, TableTypeOK, RowTypeOK, rowVars
    <3>2. CASE ~Conflicts(r[1])
      BY <1>1, <2>1, <2>3, <3>2, UpdateRowTyped DEF TableTypeOK
    <3> QED
      BY <3>1, <3>2
  <2>5. ProcTypeOK'
    BY <1>1, <2>1, ConsumeTyped
  <2> QED
    BY <1>3, <2>4, <2>5, DlqUnchanged, WorkUnchanged DEF RepairRow, TableTypeOK
<1> QED
  BY <1>2, <1>3

LEMMA ReplayTyped ==
    ASSUME TypeOK, NEW p \in Process, ReplaySelect(p) \/ Replay(p)
    PROVE  TypeOK'
<1> USE DEF TypeOK
<1>1. /\ {"idle", "replayRow", "close"} \subseteq Pc
      /\ writer \in Process \cup {NoProcess}
  BY DEF Pc, ProcTypeOK
<1>2. ASSUME NEW r \in picked[p] PROVE r[1] \in Episode
  BY DEF ProcTypeOK
<1>3. CASE ReplaySelect(p)
  <2>1. PICK S \in SUBSET Replayable :
          Fetch(p, {<<e, 0>> : e \in S}, IF S = {} THEN "idle" ELSE "replayRow")
    BY <1>3 DEF ReplaySelect
  <2>2. {<<e, 0>> : e \in S} \in SUBSET (Episode \X Nat)
    BY DEF Replayable
  <2>3. (IF S = {} THEN "idle" ELSE "replayRow") \in Pc
    BY <1>1
  <2>4. ProcTypeOK'
    BY <2>1, <2>2, <2>3, FetchTyped
  <2> QED
    BY <1>3, <2>4, TableUnchanged, WorkUnchanged DEF ReplaySelect
<1>4. CASE ReplayRequeue(p)
  <2>1. PICK r \in picked[p] :
          UpdateRow(r[1], "queued", 0, "None") /\ Hold(p, r, "close")
    BY <1>4 DEF ReplayRequeue
  <2>2. RowTypeOK'
    BY <1>2, <2>1, RequeueTyped DEF TableTypeOK
  <2>3. ProcTypeOK'
    BY <1>1, <2>1, HoldTyped
  <2> QED
    BY <1>4, <2>2, <2>3, DlqUnchanged, WorkUnchanged DEF ReplayRequeue, TableTypeOK
<1>5. CASE ReplayConflict(p)
  <2>1. PICK r \in picked[p] : Consume(p, r, "replayRow", "idle", writer)
    BY <1>5 DEF ReplayConflict
  <2>2. ProcTypeOK'
    BY <1>1, <2>1, ConsumeTyped
  <2> QED
    BY <1>5, <2>2, TableUnchanged, WorkUnchanged DEF ReplayConflict
<1>6. CASE ReplayDone(p)
  <2>1. PICK r \in picked[p] : CloseDlq(r[1]) /\ Consume(p, r, "replayRow", "idle", p)
    BY <1>6 DEF ReplayDone
  <2>2. TableTypeOK'
    BY <1>6, <2>1, CloseDlqTyped DEF ReplayDone, TableTypeOK, RowTypeOK, rowVars
  <2>3. ProcTypeOK'
    BY <1>1, <2>1, ConsumeTyped
  <2> QED
    BY <1>6, <2>2, <2>3, WorkUnchanged DEF ReplayDone
<1>7. CASE ReplayClose(p)
  <2>1. TableTypeOK'
    BY <1>7, CloseDlqTyped DEF ReplayClose, TableTypeOK, RowTypeOK, rowVars
  <2>2. ProcTypeOK'
    BY <1>1, <1>7, ConsumeTyped DEF ReplayClose
  <2> QED
    BY <1>7, <2>1, <2>2, WorkUnchanged DEF ReplayClose
<1> QED
  BY <1>3, <1>4, <1>5, <1>6, <1>7 DEF Replay

LEMMA ManualTyped ==
    ASSUME TypeOK, NEW p \in Process,
           Manual(p) \/ \E e \in Episode : ManualSelect(p, e)
    PROVE  TypeOK'
<1> USE DEF TypeOK
<1>1. {"idle", "manual", "close"} \subseteq Pc
  BY DEF Pc
<1>2. ASSUME NEW e \in Episode, ManualSelect(p, e) PROVE TypeOK'
  <2>1. {<<e, 0>>} \in SUBSET (Episode \X Nat)
    OBVIOUS
  <2>2. ProcTypeOK'
    BY <1>1, <1>2, <2>1, FetchTyped DEF ManualSelect
  <2> QED
    BY <1>2, <2>2, TableUnchanged, WorkUnchanged DEF ManualSelect
<1>3. CASE ManualRequeue(p)
  <2>1. PICK r \in picked[p] :
          UpdateRow(r[1], "queued", 0, "None") /\ Hold(p, r, "close")
    BY <1>3 DEF ManualRequeue
  <2>2. r[1] \in Episode
    BY DEF ProcTypeOK
  <2>3. RowTypeOK'
    BY <2>1, <2>2, RequeueTyped DEF TableTypeOK
  <2>4. ProcTypeOK'
    BY <1>1, <2>1, HoldTyped
  <2> QED
    BY <1>3, <2>3, <2>4, DlqUnchanged, WorkUnchanged DEF ManualRequeue, TableTypeOK
<1>4. CASE ManualRefused(p)
  <2>1. ProcTypeOK'
    BY <1>1, <1>4, FetchTyped DEF ManualRefused
  <2> QED
    BY <1>4, <2>1, TableUnchanged, WorkUnchanged DEF ManualRefused
<1> QED
  BY <1>2, <1>3, <1>4 DEF Manual

LEMMA OutsideTyped ==
    ASSUME TypeOK, NEW e \in Episode, Enqueue(e) \/ Age(e)
    PROVE  TypeOK'
<1> USE DEF TypeOK
<1>1. CASE Enqueue(e)
  <2>1. PICK g \in Gates : Insert(e, g)
    BY <1>1 DEF Enqueue
  <2>2. g \in Gate /\ "queued" \in Status
    BY ParameterAssumption DEF Status, Active
  <2>3. TableTypeOK'
    BY <2>1, <2>2 DEF Insert, TableTypeOK, RowTypeOK, DlqTypeOK, dlqVars
  <2> QED
    BY <1>1, <2>3, ProcUnchanged, WorkUnchanged DEF Enqueue
<1>2. CASE Age(e)
  <2>1. TableTypeOK'
    BY <1>2 DEF Age, TableTypeOK, RowTypeOK, DlqTypeOK, dlqVars
  <2> QED
    BY <1>2, <2>1, ProcUnchanged, WorkUnchanged DEF Age
<1> QED
  BY <1>1, <1>2

LEMMA CrashTyped ==
    ASSUME TypeOK, NEW p \in Process, Crash(p)
    PROVE  TypeOK'
<1> USE DEF TypeOK
<1>1. ProcTypeOK'
  BY DEF Crash, ProcTypeOK, Pc
<1>2. WorkTypeOK'
  <2>1. CASE p \notin Sweeper
    BY <2>1, WorkUnchanged DEF Crash
  <2>2. CASE p \in Sweeper
    <3>1. NoTask \in Task
      BY DEF NoTask, Task, TaskState, Error
    <3>2. task' \in [Sweeper -> [Episode -> Task]] /\ late' \in [Sweeper -> SUBSET Episode]
      <4>1. /\ task' = [task EXCEPT ![p] = [e \in Episode |-> NoTask]]
            /\ late' = [late EXCEPT ![p] = {}]
        BY <2>2 DEF Crash
      <4> QED
        BY <3>1, <4>1 DEF WorkTypeOK
    <3>3. ASSUME NEW e \in Episode
          PROVE  /\ delivered[e] \in Delivered /\ Lose(delivered[e]) \in Delivered
                 /\ Lose(Deliver(delivered[e])) \in Delivered
      BY DeliveredTyped DEF WorkTypeOK
    <3>4. delivered' \in [Episode -> Delivered]
      BY <2>2, <3>3 DEF Crash
    <3> QED
      BY <3>2, <3>4 DEF WorkTypeOK
  <2> QED
    BY <2>1, <2>2
<1>3. crashes' \in 0..MaxCrashes
  BY ParameterAssumption DEF Crash
<1> QED
  BY <1>1, <1>2, <1>3, TableUnchanged DEF Crash

-----------------------------------------------------------------------------
(* The columns, the program counters, the tasks and the threads keep their *)
(* types in every behaviour, for any episodes, processes and limits.       *)
THEOREM TypeCorrect == Spec => []TypeOK
<1>1. Init => TypeOK
  <2> SUFFICES ASSUME Init PROVE TypeOK
    OBVIOUS
  <2>1. TableTypeOK
    BY DEF Init, TableInit, TableTypeOK, RowTypeOK, DlqTypeOK, Status, Gate, Error
  <2>2. ProcTypeOK
    BY DEF Init, ProcTypeOK, Pc
  <2>3. WorkTypeOK
    BY DEF Init, WorkTypeOK, NoTask, Task, TaskState, Error, Delivered
  <2> QED
    BY <2>1, <2>2, <2>3, ParameterAssumption DEF Init, TypeOK
<1>2. TypeOK /\ [Next]_vars => TypeOK'
  <2> SUFFICES ASSUME TypeOK, [Next]_vars PROVE TypeOK'
    OBVIOUS
  <2>1. CASE UNCHANGED vars
    BY <2>1, TableUnchanged, ProcUnchanged, WorkUnchanged DEF vars, TypeOK
  <2>2. ASSUME NEW e \in Episode, Enqueue(e) \/ Age(e) PROVE TypeOK'
    BY <2>2, OutsideTyped
  <2>3. ASSUME NEW s \in Sweeper, NEW e \in Episode, Work(s, e) \/ LateMarkDone(s, e)
        PROVE  TypeOK'
    BY <2>3, WorkTyped
  <2>4. ASSUME NEW o \in Operator, NEW e \in Episode, ManualSelect(o, e) PROVE TypeOK'
    BY <2>4, ManualTyped DEF Process
  <2>5. ASSUME NEW p \in Process, ReapSelect(p) \/ Crash(p) PROVE TypeOK'
    BY <2>5, ReapTyped, CrashTyped
  <2>6. ASSUME NEW p \in Process, Step(p) PROVE TypeOK'
    BY <2>6, ReapTyped, ClaimTyped, RepairTyped, ReplayTyped, ManualTyped DEF Step
  <2> QED
    BY <2>1, <2>2, <2>3, <2>4, <2>5, <2>6 DEF Next
<1> QED
  BY <1>1, <1>2, PTL DEF Spec

-----------------------------------------------------------------------------
(* The transactions of the two tables are steps of EpisodeLifecycle.       *)

LSame == UNCHANGED <<status, gate, dlq, delivered>>

LEMMA SameMaps == LSame => [L!Next]_(L!vars)
BY DEF LSame, L!vars

LEMMA FinishMaps ==
    ASSUME TypeOK, NEW e \in Episode, status[e] # "none", Passed(e),
           MarkDoneRow(e), UNCHANGED delivered
    PROVE  L!Next
<1>1. L!Finish(e)
  BY DEF Passed, MarkDoneRow, UpdateRow, CloseDlq, L!Finish, L!Inserted, L!Close, TypeOK,
     TableTypeOK, DlqTypeOK
<1> QED
  BY <1>1 DEF L!Next

LEMMA SetAsideMaps ==
    ASSUME TypeOK, NEW e \in Episode, NEW err, status[e] # "none",
           MarkFailedRow(e, err) \/ MarkSkippedRow(e), UNCHANGED delivered
    PROVE  L!Next
<1>1. PICK st \in {"failed", "skipped_duplicate"} : L!SetAside(e, st)
  BY DEF MarkFailedRow, MarkSkippedRow, UpdateRow, dlqVars, L!SetAside, L!Inserted
<1> QED
  BY <1>1 DEF L!Next, L!Status

LEMMA BuryMaps ==
    ASSUME TypeOK, NEW e \in Episode, NEW n, NEW err, status[e] # "none",
           MarkAbortedRow(e, n, err), UNCHANGED delivered
    PROVE  L!Next
<1>1. L!Bury(e)
  BY DEF MarkAbortedRow, UpdateRow, OpenDlq, L!Bury, L!Inserted
<1> QED
  BY <1>1 DEF L!Next

LEMMA RequeueMaps ==
    ASSUME TypeOK, NEW e \in Episode, NEW n, NEW err, status[e] # "none",
           ~Conflicts(e), UpdateRow(e, "queued", n, err),
           UNCHANGED dlqVars, UNCHANGED delivered
    PROVE  L!Next
<1>1. L!Admissible({e})
  BY DEF Conflicts, Indexed, Active, Twins, L!Admissible, L!Twins, L!Active
<1>2. L!Requeue(e)
  BY <1>1 DEF UpdateRow, dlqVars, L!Requeue, L!Inserted
<1> QED
  BY <1>2 DEF L!Next

LEMMA RecoverMaps ==
    ASSUME TypeOK, NEW e \in Episode, CloseDlq(e),
           UNCHANGED <<status, gate, delivered>>
    PROVE  L!Next
<1>1. L!Recover(e)
  BY DEF CloseDlq, L!Recover, L!Close, TypeOK, TableTypeOK, DlqTypeOK
<1> QED
  BY <1>1 DEF L!Next

(* Ingestions that may have happened for the rows S, and for no other row. *)
LEMMA IngestMaps ==
    ASSUME TypeOK, NEW S \in SUBSET Episode, \A e \in S : status[e] # "none",
           \A e \in S : delivered'[e] # "absent",
           \A e \in Episode \ S : delivered'[e] # "absent" <=> delivered[e] # "absent",
           UNCHANGED <<status, gate, dlq>>
    PROVE  L!Next
<1>1. L!Ingest(S)
  BY DEF L!Ingest, L!Inserted
<1> QED
  BY <1>1 DEF L!Next

LEMMA DeliverOrLose ==
    ASSUME NEW d \in Delivered
    PROVE  /\ Deliver(d) # "absent" /\ Lose(Deliver(d)) # "absent"
           /\ Lose(d) # "absent" <=> d # "absent"
BY DEF Delivered, Deliver, Lose

-----------------------------------------------------------------------------
(* One lemma per process: its steps are steps of EpisodeLifecycle.         *)

LEMMA ReapMaps ==
    ASSUME TypeOK, HeldByProcess, NEW p \in Process, Reap(p) \/ ReapSelect(p)
    PROVE  [L!Next]_(L!vars)
<1>1. ASSUME NEW r \in picked[p] PROVE r[1] \in Episode /\ status[r[1]] # "none"
  BY DEF TypeOK, ProcTypeOK, HeldByProcess
<1>2. CASE ReapSelect(p) \/ ReapConflict(p)
  BY <1>2, SameMaps DEF ReapSelect, ReapConflict, LSame, tableVars, dlqVars, workVars
<1>3. CASE ReapAbort(p)
  BY <1>1, <1>3, BuryMaps DEF ReapAbort, workVars
<1>4. CASE ReapRequeue(p)
  BY <1>1, <1>4, RequeueMaps DEF ReapRequeue, workVars
<1>5. CASE ReapSkip(p)
  <2>1. cur[p] \in Episode /\ status[cur[p]] # "none"
    BY <1>5 DEF ReapSkip, HeldByProcess, TypeOK, ProcTypeOK
  <2> QED
    BY <1>5, <2>1, SetAsideMaps DEF ReapSkip, workVars
<1> QED
  BY <1>2, <1>3, <1>4, <1>5 DEF Reap

LEMMA ClaimMaps ==
    ASSUME TypeOK, HeldByProcess, NEW p \in Process,
           ClaimSelect(p) \/ Claim(p) \/ SweepEnd(p)
    PROVE  [L!Next]_(L!vars)
<1>1. CASE ClaimSelect(p) \/ ClaimRefused(p) \/ SweepEnd(p)
  BY <1>1, SameMaps
     DEF ClaimSelect, ClaimRefused, SweepEnd, LSame, tableVars, dlqVars, workVars
<1>2. CASE ClaimUpdate(p)
  <2>1. PickedIds(p) \in SUBSET Episode /\ \A e \in PickedIds(p) : status[e] # "none"
    BY DEF PickedIds, TypeOK, ProcTypeOK, HeldByProcess
  <2>2. L!Admissible(PickedIds(p))
    BY <1>2 DEF ClaimUpdate, ClaimConflicts, Twins, Active, L!Admissible, L!Twins,
       L!Active
  <2>3. L!Claim(PickedIds(p))
    BY <1>2, <2>1, <2>2 DEF ClaimUpdate, dlqVars, L!Claim, L!Inserted
  <2> QED
    BY <2>1, <2>3 DEF L!Next
<1> QED
  BY <1>1, <1>2 DEF Claim

LEMMA WorkMaps ==
    ASSUME TypeOK, HeldByWork, NEW s \in Sweeper, NEW e \in Episode,
           Work(s, e) \/ LateMarkDone(s, e)
    PROVE  [L!Next]_(L!vars)
<1>1. task[s][e].st # "none" => status[e] # "none"
  BY DEF HeldByWork
<1>2. delivered[e] \in Delivered
  BY DEF TypeOK, WorkTypeOK
<1>3. CASE \/ Start(s, e) \/ BackstopHit(s, e) \/ PassBlank(s, e)
           \/ AddEpisodeFails(s, e) \/ AbortSelect(s, e) \/ WriteFails(s, e)
  BY <1>3, SameMaps DEF Start, BackstopHit, PassBlank, AddEpisodeFails, AbortSelect,
     WriteFails, LSame, tableVars, dlqVars
<1>4. CASE AddEpisode(s, e) \/ Timeout(s, e)
  <2>1. status[e] # "none" /\ UNCHANGED <<status, gate, dlq>>
    BY <1>1, <1>4 DEF AddEpisode, Timeout, InState, tableVars, dlqVars
  <2>2. PICK d \in {delivered[e], Deliver(delivered[e]), Lose(Deliver(delivered[e]))} :
            delivered' = [delivered EXCEPT ![e] = d]
    BY <1>4 DEF AddEpisode, Timeout
  <2>3. CASE d = delivered[e]
    <3>1. delivered' = delivered
      BY <2>2, <2>3 DEF TypeOK, WorkTypeOK
    <3> QED
      BY <2>1, <3>1, SameMaps DEF LSame
  <2>4. CASE d # delivered[e]
    <3>1. delivered'[e] # "absent"
      BY <1>2, <2>2, <2>4, DeliverOrLose DEF TypeOK, WorkTypeOK
    <3>2. \A f \in Episode \ {e} : delivered'[f] = delivered[f]
      BY <2>2 DEF TypeOK, WorkTypeOK
    <3> DEFINE S == {e}
    <3>3. /\ S \in SUBSET Episode
          /\ \A f \in S : status[f] # "none" /\ delivered'[f] # "absent"
          /\ \A f \in Episode \ S : delivered'[f] # "absent" <=> delivered[f] # "absent"
      BY <2>1, <3>1, <3>2
    <3> HIDE DEF S
    <3> QED
      BY <2>1, <3>3, IngestMaps
  <2> QED
    BY <2>3, <2>4
<1>5. CASE MarkSkipped(s, e)
  BY <1>1, <1>5, SetAsideMaps DEF MarkSkipped, InState
<1>6. CASE MarkDone(s, e)
  BY <1>1, <1>6, FinishMaps DEF MarkDone, InState, HeldByWork
<1>7. CASE LateMarkDone(s, e)
  BY <1>7, FinishMaps DEF LateMarkDone, HeldByWork
<1>8. CASE MarkDoneCancelled(s, e)
  <2>1. \A f \in Episode : delivered'[f] # "absent" <=> delivered[f] # "absent"
    BY <1>2, <1>8, DeliverOrLose DEF MarkDoneCancelled, TypeOK, WorkTypeOK
  <2>2. UNCHANGED <<status, gate, dlq>>
    BY <1>8 DEF MarkDoneCancelled, tableVars, dlqVars
  <2> QED
    BY <2>1, <2>2 DEF L!vars
<1>9. CASE MarkFailed(s, e)
  BY <1>1, <1>9, SetAsideMaps DEF MarkFailed, InState
<1>10. CASE MarkAborted(s, e)
  BY <1>1, <1>10, BuryMaps DEF MarkAborted, InState
<1> QED
  BY <1>3, <1>4, <1>5, <1>6, <1>7, <1>8, <1>9, <1>10 DEF Work

LEMMA RepairMaps ==
    ASSUME TypeOK, HeldByProcess, NEW p \in Process, RepairSelect(p) \/ RepairRow(p)
    PROVE  [L!Next]_(L!vars)
<1>1. CASE RepairSelect(p)
  BY <1>1, SameMaps DEF RepairSelect, LSame, tableVars, dlqVars, workVars
<1>2. CASE RepairRow(p)
  <2>1. PICK r \in picked[p] :
          IF Conflicts(r[1])
          THEN UNCHANGED rowVars
          ELSE UpdateRow(r[1], "queued", attempts[r[1]], lastError[r[1]])
    BY <1>2 DEF RepairRow
  <2>2. r[1] \in Episode /\ status[r[1]] # "none"
    BY DEF TypeOK, ProcTypeOK, HeldByProcess
  <2>3. UNCHANGED <<gate, dlqVars, delivered>>
    BY <1>2 DEF RepairRow, workVars
  <2>4. CASE Conflicts(r[1])
    BY <2>1, <2>3, <2>4, SameMaps DEF LSame, rowVars, dlqVars
  <2>5. CASE ~Conflicts(r[1])
    BY <2>1, <2>2, <2>3, <2>5, RequeueMaps
  <2> QED
    BY <2>4, <2>5
<1> QED
  BY <1>1, <1>2

LEMMA ReplayMaps ==
    ASSUME TypeOK, HeldByProcess, NEW p \in Process, ReplaySelect(p) \/ Replay(p)
    PROVE  [L!Next]_(L!vars)
<1>1. ASSUME NEW r \in picked[p] PROVE r[1] \in Episode /\ status[r[1]] # "none"
  BY DEF TypeOK, ProcTypeOK, HeldByProcess
<1>2. CASE ReplaySelect(p) \/ ReplayConflict(p)
  BY <1>2, SameMaps
     DEF ReplaySelect, ReplayConflict, LSame, tableVars, dlqVars, workVars
<1>3. CASE ReplayRequeue(p)
  BY <1>1, <1>3, RequeueMaps DEF ReplayRequeue, workVars
<1>4. CASE ReplayDone(p)
  BY <1>1, <1>4, RecoverMaps DEF ReplayDone, rowVars, workVars
<1>5. CASE ReplayClose(p)
  <2>1. cur[p] \in Episode
    BY <1>5 DEF ReplayClose, HeldByProcess, TypeOK, ProcTypeOK
  <2> QED
    BY <1>5, <2>1, RecoverMaps DEF ReplayClose, rowVars, workVars
<1> QED
  BY <1>2, <1>3, <1>4, <1>5 DEF Replay

LEMMA ManualMaps ==
    ASSUME TypeOK, HeldByProcess, NEW p \in Process,
           Manual(p) \/ \E e \in Episode : ManualSelect(p, e)
    PROVE  [L!Next]_(L!vars)
<1>1. CASE ManualRefused(p) \/ \E e \in Episode : ManualSelect(p, e)
  BY <1>1, SameMaps DEF ManualSelect, ManualRefused, LSame, tableVars, dlqVars, workVars
<1>2. CASE ManualRequeue(p)
  <2>1. ASSUME NEW r \in picked[p] PROVE r[1] \in Episode /\ status[r[1]] # "none"
    BY DEF TypeOK, ProcTypeOK, HeldByProcess
  <2> QED
    BY <1>2, <2>1, RequeueMaps DEF ManualRequeue, workVars
<1> QED
  BY <1>1, <1>2 DEF Manual

LEMMA OutsideMaps ==
    ASSUME TypeOK, NEW e \in Episode, Enqueue(e) \/ Age(e)
    PROVE  [L!Next]_(L!vars)
<1>1. CASE Enqueue(e)
  <2>1. PICK g \in Gates : ~InsertConflicts(e, g) /\ Insert(e, g)
    BY <1>1 DEF Enqueue
  <2>2. L!Insert(e, g)
    BY <1>1, <2>1 DEF Enqueue, Insert, InsertConflicts, Twins, Indexed, Active, dlqVars,
       workVars, L!Insert, L!Inserted, L!Twins, L!Indexed, L!Active
  <2>3. g \in L!Gate
    BY ParameterAssumption DEF Gate, L!Gate
  <2> QED
    BY <2>2, <2>3 DEF L!Next
<1>2. CASE Age(e)
  BY <1>2, SameMaps DEF Age, LSame, dlqVars, workVars
<1> QED
  BY <1>1, <1>2

LEMMA CrashMaps ==
    ASSUME TypeOK, HeldByWork, NEW p \in Process, Crash(p)
    PROVE  [L!Next]_(L!vars)
<1>1. UNCHANGED <<status, gate, dlq>>
  BY DEF Crash, tableVars, dlqVars
<1>2. CASE p \notin Sweeper
  BY <1>1, <1>2, SameMaps DEF Crash, LSame, workVars
<1>3. CASE p \in Sweeper
  <2>1. PICK S \in SUBSET {e \in Episode \ Blank : task[p][e].st = "running"} :
          delivered' = [e \in Episode |->
                    CASE e \in S -> Lose(Deliver(delivered[e]))
                      [] task[p][e].st = "marking" -> Lose(delivered[e])
                      [] OTHER -> delivered[e]]
    BY <1>3 DEF Crash
  <2>2. \A e \in S : task[p][e].st = "running"
    OBVIOUS
  <2>3. ASSUME NEW e \in S PROVE delivered'[e] # "absent" /\ status[e] # "none"
    <3>1. delivered[e] \in Delivered
      BY DEF TypeOK, WorkTypeOK
    <3>2. delivered'[e] = Lose(Deliver(delivered[e]))
      BY <2>1, <2>2
    <3> QED
      BY <1>3, <2>2, <3>1, <3>2, DeliverOrLose DEF HeldByWork
  <2>4. ASSUME NEW e \in Episode \ S
        PROVE  delivered'[e] # "absent" <=> delivered[e] # "absent"
    <3>1. delivered[e] \in Delivered
      BY DEF TypeOK, WorkTypeOK
    <3> QED
      BY <2>1, <3>1, DeliverOrLose
  <2> QED
    BY <1>1, <2>3, <2>4, IngestMaps
<1> QED
  BY <1>2, <1>3

LEMMA StepMaps ==
    ASSUME TypeOK, Held, [Next]_vars
    PROVE  [L!Next]_(L!vars)
<1> USE DEF Held
<1>1. CASE UNCHANGED vars
  BY <1>1, SameMaps DEF vars, LSame, tableVars, dlqVars, workVars
<1>2. ASSUME NEW e \in Episode, Enqueue(e) \/ Age(e) PROVE [L!Next]_(L!vars)
  BY <1>2, OutsideMaps
<1>3. ASSUME NEW s \in Sweeper, NEW e \in Episode, Work(s, e) \/ LateMarkDone(s, e)
      PROVE  [L!Next]_(L!vars)
  BY <1>3, WorkMaps
<1>4. ASSUME NEW o \in Operator, NEW e \in Episode, ManualSelect(o, e)
      PROVE  [L!Next]_(L!vars)
  BY <1>4, ManualMaps DEF Process
<1>5. ASSUME NEW p \in Process, ReapSelect(p) \/ Crash(p) PROVE [L!Next]_(L!vars)
  BY <1>5, ReapMaps, CrashMaps
<1>6. ASSUME NEW p \in Process, Step(p) PROVE [L!Next]_(L!vars)
  BY <1>6, ReapMaps, ClaimMaps, RepairMaps, ReplayMaps, ManualMaps DEF Step
<1> QED
  BY <1>1, <1>2, <1>3, <1>4, <1>5, <1>6 DEF Next

-----------------------------------------------------------------------------
(* The strengthening.  Kept is what the refinement says of every step, so  *)
(* a process may rely on it while others move.                             *)

Kept ==
    \A e \in Episode :
        /\ status[e] # "none" => status'[e] # "none"
        /\ delivered[e] # "absent" => delivered'[e] # "absent"

LEMMA AbstractTyped == TypeOK => L!TypeOK
BY DEF TypeOK, TableTypeOK, RowTypeOK, DlqTypeOK, Status, Active, Gate, L!TypeOK,
   L!Status, L!Active, L!Gate

LEMMA StepKeeps ==
    ASSUME TypeOK, HeldByDlq, [L!Next]_(L!vars)
    PROVE  Kept /\ HeldByDlq'
<1>1. ASSUME NEW e \in Episode
      PROVE  /\ status[e] # "none" => status'[e] # "none"
             /\ delivered[e] # "absent" => delivered'[e] # "absent"
             /\ dlq'[e] # "absent" => status'[e] # "none"
  BY AbstractTyped, L!RowsStay DEF L!Inserted, HeldByDlq
<1> QED
  BY <1>1 DEF Kept, HeldByDlq

LEMMA FetchHeld ==
    ASSUME TypeOK, HeldByProcess, Kept, NEW p \in Process, NEW rows, NEW l,
           rows \subseteq Episode \X Nat, \A r \in rows : status[r[1]] # "none",
           l \notin {"reapSkip", "close"}, Fetch(p, rows, l)
    PROVE  HeldByProcess'
BY DEF Kept, Fetch, HeldByProcess, TypeOK, ProcTypeOK

LEMMA ConsumeHeld ==
    ASSUME TypeOK, HeldByProcess, Kept, NEW p \in Process, NEW r, NEW l, NEW next,
           NEW tx, {l, next} \cap {"reapSkip", "close"} = {}, Consume(p, r, l, next, tx)
    PROVE  HeldByProcess'
<1> SUFFICES ASSUME NEW q \in Process
             PROVE  /\ \A x \in picked'[q] : status'[x[1]] # "none"
                    /\ cur'[q] # NoEpisode => status'[cur'[q]] # "none"
                    /\ pc'[q] \in {"reapSkip", "close"} => cur'[q] # NoEpisode
  BY DEF HeldByProcess
<1>1. /\ picked'[q] \subseteq picked[q] /\ cur'[q] \in {cur[q], NoEpisode}
      /\ q # p => pc'[q] = pc[q] /\ cur'[q] = cur[q]
      /\ q = p => pc'[q] \in {l, next}
  BY DEF Consume, TypeOK, ProcTypeOK
<1>2. \A x \in picked[q] : x[1] \in Episode /\ status[x[1]] # "none"
  BY DEF HeldByProcess, TypeOK, ProcTypeOK
<1>3. cur[q] # NoEpisode => cur[q] \in Episode /\ status[cur[q]] # "none"
  BY DEF HeldByProcess, TypeOK, ProcTypeOK
<1>4. /\ \A x \in picked'[q] : status'[x[1]] # "none"
      /\ cur'[q] # NoEpisode => status'[cur'[q]] # "none"
  BY <1>1, <1>2, <1>3 DEF Kept
<1>5. pc'[q] \in {"reapSkip", "close"} => cur'[q] # NoEpisode
  <2>1. CASE q = p
    BY <1>1, <2>1
  <2>2. CASE q # p
    BY <1>1, <2>2 DEF HeldByProcess
  <2> QED
    BY <2>1, <2>2
<1> QED
  BY <1>4, <1>5

LEMMA HoldHeld ==
    ASSUME TypeOK, HeldByProcess, Kept, NEW p \in Process, NEW r \in picked[p],
           NEW l, Hold(p, r, l)
    PROVE  HeldByProcess'
<1>1. r[1] \in Episode /\ r[1] # NoEpisode /\ status[r[1]] # "none"
  BY NoEpisodeAssumption DEF TypeOK, ProcTypeOK, HeldByProcess
<1> QED
  BY <1>1 DEF Kept, Hold, HeldByProcess, TypeOK, ProcTypeOK

LEMMA ProcHeld ==
    ASSUME TypeOK, HeldByProcess, Kept, UNCHANGED procVars PROVE HeldByProcess'
BY DEF Kept, HeldByProcess, TypeOK, ProcTypeOK, procVars

LEMMA WorkHeldUnchanged ==
    ASSUME TypeOK, HeldByWork, Kept, UNCHANGED <<task, late>> PROVE HeldByWork'
BY DEF Passed, Kept, HeldByWork, TypeOK, WorkTypeOK

(* The coroutine of e moves on to task t, and e may be left to a thread.   *)
LEMMA TaskHeld ==
    ASSUME TypeOK, HeldByWork, Kept, NEW s \in Sweeper, NEW e \in Episode,
           NEW t \in Task, SetTask(s, e, t),
           t.st # "none" => status[e] # "none",
           t.st = "marking" => Passed(e)',
           \/ UNCHANGED late
           \/ /\ late' = [late EXCEPT ![s] = @ \cup {e}]
              /\ status[e] # "none" /\ Passed(e)
    PROVE  HeldByWork'
BY DEF Passed, Kept, SetTask, HeldByWork, TypeOK, WorkTypeOK

-----------------------------------------------------------------------------
LEMMA ReapHeld ==
    ASSUME TypeOK, HeldByProcess, Kept, NEW p \in Process, Reap(p) \/ ReapSelect(p)
    PROVE  HeldByProcess'
<1>1. /\ {"reap", AfterReap(p)} \cap {"reapSkip", "close"} = {}
      /\ "reap" \notin {"reapSkip", "close"} /\ AfterReap(p) \notin {"reapSkip", "close"}
  BY DEF AfterReap
<1>2. CASE ReapSelect(p)
  <2> DEFINE rows == {<<e, attempts[e]>> :
                        e \in {f \in Episode : status[f] = "processing" /\ aged[f]}}
  <2>1. rows \subseteq Episode \X Nat /\ \A r \in rows : status[r[1]] # "none"
    BY DEF TypeOK, TableTypeOK, RowTypeOK
  <2>2. PICK l \in {"reap", AfterReap(p)} : Fetch(p, rows, l)
    BY <1>2 DEF ReapSelect
  <2> HIDE DEF rows
  <2> QED
    BY <1>1, <2>1, <2>2, FetchHeld
<1>3. CASE ReapAbort(p) \/ ReapRequeue(p) \/ ReapSkip(p)
  BY <1>1, <1>3, ConsumeHeld DEF ReapAbort, ReapRequeue, ReapSkip
<1>4. CASE ReapConflict(p)
  BY <1>4, HoldHeld DEF ReapConflict
<1> QED
  BY <1>2, <1>3, <1>4 DEF Reap

LEMMA ClaimHeld ==
    ASSUME TypeOK, HeldByProcess, Kept, NEW p \in Process,
           ClaimSelect(p) \/ Claim(p) \/ SweepEnd(p)
    PROVE  HeldByProcess'
<1>1. CASE ClaimSelect(p)
  <2>1. PICK S \in LimitTo({e \in Episode : status[e] = "queued"}, BatchLimit) :
          Fetch(p, {<<e, attempts[e]>> : e \in S}, IF S = {} THEN "idle" ELSE "claimed")
    BY <1>1 DEF ClaimSelect
  <2> DEFINE rows == {<<e, attempts[e]>> : e \in S}
             l == IF S = {} THEN "idle" ELSE "claimed"
  <2>2. rows \subseteq Episode \X Nat /\ \A r \in rows : status[r[1]] # "none"
    BY DEF LimitTo, TypeOK, TableTypeOK, RowTypeOK
  <2>3. l \notin {"reapSkip", "close"}
    OBVIOUS
  <2>4. Fetch(p, rows, l)
    BY <2>1
  <2> HIDE DEF rows, l
  <2> QED
    BY <2>2, <2>3, <2>4, FetchHeld
<1>2. CASE Claim(p) \/ SweepEnd(p)
  <2>1. PICK l \in {"idle", "work"} : Fetch(p, {}, l)
    BY <1>2 DEF Claim, ClaimUpdate, ClaimRefused, SweepEnd
  <2> QED
    BY <2>1, FetchHeld
<1> QED
  BY <1>1, <1>2

LEMMA RepairHeld ==
    ASSUME TypeOK, HeldByProcess, Kept, NEW p \in Process,
           RepairSelect(p) \/ RepairRow(p)
    PROVE  HeldByProcess'
<1>1. /\ {"repairRow", AfterRepair(p)} \cap {"reapSkip", "close"} = {}
      /\ AfterRepair(p) \notin {"reapSkip", "close"}
  BY DEF AfterRepair
<1>2. CASE RepairSelect(p)
  <2>1. PICK S \in LimitTo(Repairable, ReapLimit) :
          Fetch(p, {<<e, 0>> : e \in S}, IF S = {} THEN AfterRepair(p) ELSE "repairRow")
    BY <1>2 DEF RepairSelect
  <2> DEFINE rows == {<<e, 0>> : e \in S}
             l == IF S = {} THEN AfterRepair(p) ELSE "repairRow"
  <2>2. rows \subseteq Episode \X Nat /\ \A r \in rows : status[r[1]] # "none"
    BY DEF LimitTo, Repairable
  <2>3. l \notin {"reapSkip", "close"}
    BY <1>1
  <2>4. Fetch(p, rows, l)
    BY <2>1
  <2> HIDE DEF rows, l
  <2> QED
    BY <2>2, <2>3, <2>4, FetchHeld
<1>3. CASE RepairRow(p)
  BY <1>1, <1>3, ConsumeHeld DEF RepairRow
<1> QED
  BY <1>2, <1>3

LEMMA ReplayHeld ==
    ASSUME TypeOK, HeldByProcess, HeldByDlq, Kept, NEW p \in Process,
           ReplaySelect(p) \/ Replay(p)
    PROVE  HeldByProcess'
<1>1. {"replayRow", "idle"} \cap {"reapSkip", "close"} = {}
  OBVIOUS
<1>2. CASE ReplaySelect(p)
  <2>1. PICK S \in SUBSET Replayable :
          Fetch(p, {<<e, 0>> : e \in S}, IF S = {} THEN "idle" ELSE "replayRow")
    BY <1>2 DEF ReplaySelect
  <2> DEFINE rows == {<<e, 0>> : e \in S}
             l == IF S = {} THEN "idle" ELSE "replayRow"
  <2>2. rows \subseteq Episode \X Nat /\ \A r \in rows : status[r[1]] # "none"
    BY DEF Replayable, HeldByDlq
  <2>3. l \notin {"reapSkip", "close"}
    OBVIOUS
  <2>4. Fetch(p, rows, l)
    BY <2>1
  <2> HIDE DEF rows, l
  <2> QED
    BY <2>2, <2>3, <2>4, FetchHeld
<1>3. CASE ReplayRequeue(p)
  BY <1>3, HoldHeld DEF ReplayRequeue
<1>4. CASE ReplayConflict(p) \/ ReplayDone(p) \/ ReplayClose(p)
  BY <1>1, <1>4, ConsumeHeld DEF ReplayConflict, ReplayDone, ReplayClose
<1> QED
  BY <1>2, <1>3, <1>4 DEF Replay

LEMMA ManualHeld ==
    ASSUME TypeOK, HeldByProcess, HeldByDlq, Kept, NEW p \in Process,
           Manual(p) \/ \E e \in Episode : ManualSelect(p, e)
    PROVE  HeldByProcess'
<1>1. ASSUME NEW e \in Episode, ManualSelect(p, e) PROVE HeldByProcess'
  <2> DEFINE rows == {<<e, 0>>}
  <2>1. rows \subseteq Episode \X Nat /\ \A r \in rows : status[r[1]] # "none"
    BY <1>1 DEF ManualSelect, HeldByDlq
  <2>2. Fetch(p, rows, "manual")
    BY <1>1 DEF ManualSelect
  <2> HIDE DEF rows
  <2> QED
    BY <2>1, <2>2, FetchHeld
<1>2. CASE ManualRequeue(p)
  BY <1>2, HoldHeld DEF ManualRequeue
<1>3. CASE ManualRefused(p)
  BY <1>3, FetchHeld DEF ManualRefused
<1> QED
  BY <1>1, <1>2, <1>3 DEF Manual

LEMMA WorkHeld ==
    ASSUME TypeOK, HeldByWork, Kept, NEW s \in Sweeper, NEW e \in Episode,
           Work(s, e) \/ LateMarkDone(s, e)
    PROVE  HeldByWork'
<1>1. /\ task[s][e] \in Task /\ delivered[e] \in Delivered
      /\ task[s][e].st # "none" => status[e] # "none"
  BY DEF TypeOK, WorkTypeOK, HeldByWork
<1>2. NoTask \in Task /\ NoTask.st = "none"
  BY DEF NoTask, Task, TaskState, Error
<1>3. ASSUME NEW st \in TaskState, Goto(s, e, st), task[s][e].st # "none",
             st = "marking" => Passed(e)', UNCHANGED late
      PROVE  HeldByWork'
  <2> DEFINE t == [task[s][e] EXCEPT !.st = st]
  <2>1. t \in Task /\ t.st = st
    BY <1>1 DEF Task
  <2>2. SetTask(s, e, t)
    BY <1>3 DEF Goto
  <2> HIDE DEF t
  <2> QED
    BY <1>1, <1>3, <2>1, <2>2, TaskHeld
<1>4. ASSUME SetTask(s, e, NoTask), UNCHANGED late PROVE HeldByWork'
  BY <1>2, <1>4, TaskHeld
<1>5. ASSUME NEW err \in Error, Raise(s, e, err), task[s][e].st # "none",
             \/ UNCHANGED late
             \/ /\ late' = [late EXCEPT ![s] = @ \cup {e}]
                /\ Passed(e)
      PROVE  HeldByWork'
  <2>1. PICK st \in {"failing", "aborting"} :
            SetTask(s, e, [task[s][e] EXCEPT !.st = st, !.err = err])
    BY <1>5 DEF Raise
  <2> DEFINE t == [task[s][e] EXCEPT !.st = st, !.err = err]
  <2>2. t \in Task /\ t.st # "marking"
    BY <1>1 DEF Task, TaskState
  <2> HIDE DEF t
  <2> QED
    BY <1>1, <1>5, <2>1, <2>2, TaskHeld DEF t
<1>6. CASE Start(s, e)
  BY <1>3, <1>6 DEF Start, InState, TaskState
<1>7. CASE BackstopHit(s, e)
  BY <1>3, <1>7 DEF BackstopHit, InState, TaskState
<1>8. CASE AddEpisode(s, e)
  <2>1. delivered'[e] # "absent"
    BY <1>1, <1>8, DeliverOrLose DEF AddEpisode, TypeOK, WorkTypeOK
  <2> QED
    BY <1>3, <1>8, <2>1 DEF AddEpisode, InState, TaskState, Passed
<1>9. CASE AddEpisodeFails(s, e)
  BY <1>5, <1>9, ParameterAssumption DEF AddEpisodeFails, InState
<1>10. CASE Timeout(s, e)
  BY <1>5, <1>10 DEF Timeout, InState, Error
<1>11. CASE MarkDoneCancelled(s, e)
  <2>1. Passed(e) /\ task[s][e].st # "none" /\ "Transient" \in Error
    BY <1>11 DEF MarkDoneCancelled, InState, HeldByWork, Error
  <2> QED
    BY <1>5, <1>11, <2>1 DEF MarkDoneCancelled
<1>12. CASE MarkSkipped(s, e) \/ MarkDone(s, e) \/ MarkFailed(s, e) \/ MarkAborted(s, e)
  BY <1>4, <1>12 DEF MarkSkipped, MarkDone, MarkFailed, MarkAborted
<1>13. CASE AbortSelect(s, e)
  <2> DEFINE t == [task[s][e] EXCEPT !.st = "burying", !.n = attempts[e]]
  <2>1. attempts[e] \in Nat /\ "burying" \in TaskState
    BY DEF TypeOK, TableTypeOK, RowTypeOK, TaskState
  <2>2. t \in Task /\ t.st = "burying"
    BY <1>1, <2>1 DEF Task
  <2>3. SetTask(s, e, t) /\ task[s][e].st # "none" /\ UNCHANGED late
    BY <1>13 DEF AbortSelect, InState
  <2> HIDE DEF t
  <2> QED
    BY <1>1, <2>2, <2>3, TaskHeld
<1>14. CASE WriteFails(s, e)
  <2>1. CASE SetTask(s, e, NoTask)
    BY <1>4, <1>14, <2>1 DEF WriteFails
  <2>2. CASE Goto(s, e, "running") /\ task[s][e].st = "skipping"
    BY <1>3, <1>14, <2>2 DEF WriteFails, TaskState
  <2> QED
    BY <1>14, <2>1, <2>2 DEF WriteFails
<1>15. CASE LateMarkDone(s, e)
  <2>1. UNCHANGED task /\ \A x \in Sweeper : late'[x] \subseteq late[x]
    BY <1>15 DEF LateMarkDone, TypeOK, WorkTypeOK
  <2> QED
    BY <2>1 DEF Passed, Kept, HeldByWork, TypeOK, WorkTypeOK
<1>16. CASE PassBlank(s, e)
  BY <1>3, <1>16 DEF PassBlank, InState, TaskState, Passed
<1> QED
  BY <1>6, <1>7, <1>8, <1>9, <1>10, <1>11, <1>12, <1>13, <1>14, <1>15, <1>16 DEF Work

LEMMA ClaimWorkHeld ==
    ASSUME TypeOK, HeldByProcess, HeldByWork, Kept, NEW p \in Process, ClaimUpdate(p)
    PROVE  HeldByWork'
<1>1. \A e \in PickedIds(p) : status[e] # "none"
  BY DEF PickedIds, HeldByProcess
<1>2. UNCHANGED late
  BY DEF ClaimUpdate
<1>3. \A s \in Sweeper \ {p}, e \in Episode : task'[s][e] = task[s][e]
  BY DEF ClaimUpdate, TypeOK, WorkTypeOK
<1>4. ASSUME p \in Sweeper, NEW e \in Episode
      PROVE  task'[p][e].st \in {"none", "waiting", "failing"}
             /\ (task'[p][e].st # "none" => e \in PickedIds(p))
  BY <1>4 DEF ClaimUpdate, NoTask, TypeOK, WorkTypeOK
<1> QED
  BY <1>1, <1>2, <1>3, <1>4 DEF Passed, Kept, HeldByWork, TypeOK, WorkTypeOK

LEMMA CrashHeld ==
    ASSUME TypeOK, HeldByProcess, HeldByWork, Kept, NEW p \in Process, Crash(p)
    PROVE  HeldByProcess' /\ HeldByWork'
<1>1. HeldByProcess'
  BY DEF Crash, Kept, HeldByProcess, TypeOK, ProcTypeOK
<1>2. CASE p \notin Sweeper
  BY <1>1, <1>2, WorkHeldUnchanged DEF Crash, workVars
<1>3. CASE p \in Sweeper
  <2>1. \A s \in Sweeper \ {p} : task'[s] = task[s] /\ late'[s] = late[s]
    BY <1>3 DEF Crash, TypeOK, WorkTypeOK
  <2>2. late'[p] = {} /\ \A e \in Episode : task'[p][e].st = "none"
    BY <1>3 DEF Crash, NoTask, TypeOK, WorkTypeOK
  <2>3. HeldByWork'
    BY <2>1, <2>2 DEF Passed, Kept, HeldByWork
  <2> QED
    BY <1>1, <2>3
<1> QED
  BY <1>2, <1>3

LEMMA StepHolds ==
    ASSUME TypeOK, Held, [Next]_vars
    PROVE  Held'
<1> USE DEF Held
<1>1. Kept /\ HeldByDlq'
  BY StepMaps, StepKeeps
<1>2. CASE UNCHANGED vars
  BY <1>1, <1>2, ProcHeld, WorkHeldUnchanged DEF vars, procVars, workVars
<1>3. ASSUME NEW e \in Episode, Enqueue(e) \/ Age(e) PROVE Held'
  BY <1>1, <1>3, ProcHeld, WorkHeldUnchanged DEF Enqueue, Age, workVars
<1>4. ASSUME NEW s \in Sweeper, NEW e \in Episode, Work(s, e) \/ LateMarkDone(s, e)
      PROVE  Held'
  <2>1. UNCHANGED procVars
    BY <1>4 DEF Work, Start, BackstopHit, MarkSkipped, PassBlank, AddEpisode,
       AddEpisodeFails, Timeout, MarkDone, MarkDoneCancelled, LateMarkDone, MarkFailed, AbortSelect,
       MarkAborted, WriteFails
  <2> QED
    BY <1>1, <1>4, <2>1, ProcHeld, WorkHeld
<1>5. ASSUME NEW o \in Operator, NEW e \in Episode, ManualSelect(o, e) PROVE Held'
  BY <1>1, <1>5, ManualHeld, WorkHeldUnchanged DEF Process, ManualSelect, workVars
<1>6. ASSUME NEW p \in Process, Crash(p) PROVE Held'
  BY <1>1, <1>6, CrashHeld
<1>7. ASSUME NEW p \in Process, ReapSelect(p) \/ Step(p) PROVE Held'
  <2>1. HeldByProcess'
    BY <1>1, <1>7, ReapHeld, ClaimHeld, RepairHeld, ReplayHeld, ManualHeld DEF Step
  <2>2. HeldByWork'
    <3>1. CASE ClaimUpdate(p)
      BY <1>1, <3>1, ClaimWorkHeld
    <3>2. CASE ~ClaimUpdate(p)
      <4>1. UNCHANGED <<task, late>>
        BY <1>7, <3>2 DEF Step, Reap, ReapSelect, ReapAbort, ReapRequeue, ReapConflict,
           ReapSkip, ClaimSelect, Claim, ClaimRefused, SweepEnd, RepairSelect,
           RepairRow, ReplaySelect, Replay, ReplayRequeue, ReplayConflict, ReplayDone,
           ReplayClose, Manual, ManualRequeue, ManualRefused, workVars
      <4> QED
        BY <1>1, <4>1, WorkHeldUnchanged
    <3> QED
      BY <3>1, <3>2
  <2> QED
    BY <1>1, <2>1, <2>2
<1> QED
  BY <1>2, <1>3, <1>4, <1>5, <1>6, <1>7 DEF Next

-----------------------------------------------------------------------------
(* The rows that processes carry from one statement to the next exist, and *)
(* whoever is about to write done, threads that outlived their sweep       *)
(* included, does so for ingested content.                                 *)
THEOREM HeldAlways == Spec => []Held
<1>1. Init => Held
  BY DEF Init, TableInit, NoTask, Held, HeldByProcess, HeldByWork, HeldByDlq
<1>2. TypeOK /\ Held /\ [Next]_vars => Held'
  BY StepHolds
<1> QED
  BY <1>1, <1>2, TypeCorrect, PTL DEF Spec

(* However many sweepers, dreams and operators race, and wherever they     *)
(* crash, the two tables behave as EpisodeLifecycle says.                  *)
THEOREM ImplementsLifecycleAlways == Spec => ImplementsLifecycle
<1>1. Init => L!Init
  BY DEF Init, TableInit, L!Init
<1>2. TypeOK /\ Held /\ [Next]_vars => [L!Next]_(L!vars)
  BY StepMaps
<1> QED
  BY <1>1, <1>2, TypeCorrect, HeldAlways, PTL DEF Spec, ImplementsLifecycle, L!Spec

LEMMA LifecycleParts ==
    L!Inv => UniqueActive /\ NoOpenDlqWhenDone /\ DoneMeansDelivered
<1> SUFFICES ASSUME L!Inv
             PROVE  UniqueActive /\ NoOpenDlqWhenDone /\ DoneMeansDelivered
  OBVIOUS
<1>1. UniqueActive
  BY DEF L!Inv, L!UniqueActive, L!Indexed, L!Active, UniqueActive, Indexed, Active
<1>2. NoOpenDlqWhenDone
  BY DEF L!Inv, L!NoOpenDlqWhenDone, NoOpenDlqWhenDone
<1>3. DoneMeansDelivered
  BY DEF L!Inv, L!DoneMeansIngested, DoneMeansDelivered
<1> QED
  BY <1>1, <1>2, <1>3

(* Two enforcing rows with the same content are never in flight together,  *)
(* although every requeue and claim works on rows it read earlier.         *)
THEOREM UniqueActiveAlways == Spec => []UniqueActive
BY ImplementsLifecycleAlways, L!LifecycleSafe, LifecycleParts, PTL DEF ImplementsLifecycle

(* An open dead-letter row never belongs to an episode that has succeeded. *)
THEOREM NoOpenDlqWhenDoneAlways == Spec => []NoOpenDlqWhenDone
BY ImplementsLifecycleAlways, L!LifecycleSafe, LifecycleParts, PTL DEF ImplementsLifecycle

(* done is only ever written for an episode whose ingestion returned, or   *)
(* which has no content: the worker marks those done at once.              *)
THEOREM DoneMeansDeliveredAlways == Spec => []DoneMeansDelivered
BY ImplementsLifecycleAlways, L!LifecycleSafe, LifecycleParts, PTL DEF ImplementsLifecycle

-----------------------------------------------------------------------------
(* One process at a time repairs stuck rows: a sweep, or an operator while *)
(* no sweep is running.  Dreams may run beside it.                         *)
OneReaper == \A p, q \in Sweeper \cup Operator : p = q

(* The content of e is in the graph, or a row with it is read as empty, or *)
(* another row with it is not skipped.                                     *)
Alive(e) ==
    \/ \E f \in Twins(e) \cup {e} : Passed(f)
    \/ \E f \in Twins(e) : status[f] \notin {"none", "skipped_duplicate"}

SkipSafe ==
    /\ \A p \in Process : pc[p] \in {"reap", "reapSkip"} => p \in Sweeper \cup Operator
    /\ \A p \in Process : pc[p] = "reapSkip" => Alive(cur[p])
    /\ \A s \in Sweeper, e \in Episode : task[s][e].st = "skipping" =>
            \E f \in Twins(e) : Passed(f)
    /\ \A e \in Episode : status[e] = "skipped_duplicate" => Alive(e)

(* A step that skips no row, starts to skip none in the reaper, and in no  *)
(* coroutine.                                                              *)
NoneSkipped ==
    \A e \in Episode : status'[e] = "skipped_duplicate" => status[e] = "skipped_duplicate"
NoneHeld ==
    \A p \in Process :
        /\ pc'[p] = "reapSkip" => pc[p] = "reapSkip" /\ cur'[p] = cur[p]
        /\ pc'[p] = "reap" => pc[p] \in {"reap", "reapSkip"} \/ p \in Sweeper \cup Operator
NoneSkipping ==
    \A s \in Sweeper, e \in Episode :
        task'[s][e].st = "skipping" => task[s][e].st = "skipping"

LEMMA TwinsAreTwins ==
    ASSUME NEW e \in Episode, NEW f \in Twins(e)
    PROVE  /\ f \in Episode /\ Twins(e) \cup {e} = Twins(f) \cup {f}
           /\ e \in Twins(f) /\ e # f
BY DEF Twins

(* e stays alive in a step that skips f only if f's content is in the      *)
(* graph, or another row but e and f is left.                              *)
LEMMA AliveStays ==
    ASSUME TypeOK, Kept, NEW e \in Episode, Alive(e),
           \A f \in Twins(e) :
              status'[f] = "skipped_duplicate" =>
                \/ status[f] = "skipped_duplicate"
                \/ \E g \in Twins(f) \cup {f} : Passed(g)
                \/ \E g \in Twins(f) \ {e} : status'[g] \notin {"none", "skipped_duplicate"}
    PROVE  Alive(e)'
<1>1. \A f \in Twins(e) \cup {e} : f \in Episode
  BY DEF Twins
<1>2. ASSUME NEW f \in Twins(e) \cup {e}, Passed(f)
      PROVE  Alive(e)'
  BY <1>1, <1>2 DEF Kept, Alive, Twins, Passed
<1>3. ASSUME NEW f \in Twins(e), status[f] \notin {"none", "skipped_duplicate"}
      PROVE  Alive(e)'
  <2>1. status'[f] # "none"
    BY <1>1, <1>3 DEF Kept
  <2>2. CASE status'[f] # "skipped_duplicate"
    BY <2>1, <2>2 DEF Alive, Twins
  <2>3. ASSUME NEW g \in Twins(f) \cup {f}, Passed(g)
        PROVE  Alive(e)'
    BY <1>2, <2>3, TwinsAreTwins
  <2>4. ASSUME NEW g \in Twins(f) \ {e}, status'[g] \notin {"none", "skipped_duplicate"}
        PROVE  Alive(e)'
    <3>1. g \in Twins(e)
      BY <2>4, TwinsAreTwins
    <3> QED BY <2>4, <3>1 DEF Alive, Twins
  <2> QED BY <1>3, <2>2, <2>3, <2>4
<1> QED BY <1>2, <1>3 DEF Alive

LEMMA QuietSafe ==
    ASSUME TypeOK, Held, Kept, SkipSafe, NoneSkipped, NoneHeld, NoneSkipping
    PROVE  SkipSafe'
<1>1. \A e \in Episode : Alive(e) => Alive(e)'
  <2> SUFFICES ASSUME NEW e \in Episode, Alive(e) PROVE Alive(e)'
    OBVIOUS
  <2>1. \A f \in Twins(e) : f \in Episode
    BY DEF Twins
  <2> QED BY <2>1, AliveStays DEF NoneSkipped
<1>2. \A p \in Process : pc[p] = "reapSkip" => cur[p] \in Episode
  BY DEF Held, HeldByProcess, TypeOK, ProcTypeOK
<1>3. \A p \in Process : pc'[p] \in {"reap", "reapSkip"} => p \in Sweeper \cup Operator
  BY DEF NoneHeld, SkipSafe
<1>4. \A p \in Process : pc'[p] = "reapSkip" => Alive(cur[p])' 
  <2> SUFFICES ASSUME NEW p \in Process, pc'[p] = "reapSkip" PROVE Alive(cur[p])'
    OBVIOUS
  <2>1. pc[p] = "reapSkip" /\ cur'[p] = cur[p] /\ cur[p] \in Episode
    BY <1>2 DEF NoneHeld
  <2> DEFINE e == cur[p]
  <2>2. Alive(e) /\ e \in Episode /\ cur'[p] = e
    BY <2>1 DEF SkipSafe
  <2> QED BY <1>1, <2>1, <2>2 DEF Alive
<1>5. \A s \in Sweeper, e \in Episode : task'[s][e].st = "skipping" =>
            \E f \in Twins(e) : Passed(f)'
  BY DEF NoneSkipping, SkipSafe, Kept, Twins, Passed
<1>6. \A e \in Episode : status'[e] = "skipped_duplicate" => Alive(e)'
  BY <1>1 DEF NoneSkipped, SkipSafe
<1> QED BY <1>3, <1>4, <1>5, <1>6 DEF SkipSafe, Alive, Twins

LEMMA UpdateSkipsNone ==
    ASSUME TypeOK, NEW e, NEW st, NEW n, NEW err, st # "skipped_duplicate",
           UpdateRow(e, st, n, err)
    PROVE  NoneSkipped
BY DEF TypeOK, TableTypeOK, RowTypeOK, UpdateRow, NoneSkipped

LEMMA FetchHoldsNone ==
    ASSUME TypeOK, NEW p \in Process, NEW rows, NEW l, Fetch(p, rows, l), l # "reapSkip",
           l = "reap" => p \in Sweeper \cup Operator
    PROVE  NoneHeld
BY DEF TypeOK, ProcTypeOK, Fetch, NoneHeld

LEMMA ConsumeHoldsNone ==
    ASSUME TypeOK, NEW p \in Process, NEW r, NEW l, NEW next, NEW tx,
           Consume(p, r, l, next, tx), l # "reapSkip", next \notin {"reap", "reapSkip"},
           l = "reap" => pc[p] \in {"reap", "reapSkip"}
    PROVE  NoneHeld
<1>1. pc'[p] \in {l, next} /\ \A q \in Process \ {p} : pc'[q] = pc[q] /\ cur'[q] = cur[q]
  BY DEF TypeOK, ProcTypeOK, Consume
<1> QED BY <1>1 DEF NoneHeld

LEMMA AfterHoldsNone ==
    ASSUME NEW p \in Process
    PROVE  {AfterReap(p), AfterRepair(p)} \cap {"reap", "reapSkip"} = {}
BY DEF AfterReap, AfterRepair

(* Everything but the four actions that skip a row or start to.            *)
LEMMA TaskSkipsNone ==
    ASSUME TypeOK, NEW s \in Sweeper, NEW e \in Episode, NEW t, SetTask(s, e, t),
           t.st # "skipping"
    PROVE  NoneSkipping
BY DEF TypeOK, WorkTypeOK, SetTask, NoneSkipping

LEMMA GotoSkipsNone ==
    ASSUME TypeOK, NEW s \in Sweeper, NEW e \in Episode,
           \/ \E l \in TaskState \ {"skipping"} : Goto(s, e, l)
           \/ \E err \in Error : Raise(s, e, err)
    PROVE  NoneSkipping
<1>1. task[s][e] \in Task
  BY DEF TypeOK, WorkTypeOK
<1>2. ASSUME NEW l \in TaskState \ {"skipping"}, Goto(s, e, l)
      PROVE  NoneSkipping
  <2>1. [task[s][e] EXCEPT !.st = l].st = l
    BY <1>1 DEF Task
  <2> QED BY <1>2, <2>1, TaskSkipsNone DEF Goto
<1>3. ASSUME NEW err \in Error, Raise(s, e, err)
      PROVE  NoneSkipping
  <2>1. PICK l \in {"failing", "aborting"} :
            SetTask(s, e, [task[s][e] EXCEPT !.st = l, !.err = err])
    BY <1>3 DEF Raise
  <2>2. [task[s][e] EXCEPT !.st = l, !.err = err].st = l
    BY <1>1 DEF Task
  <2> QED BY <2>1, <2>2, TaskSkipsNone
<1> QED BY <1>2, <1>3

LEMMA WorkQuiet ==
    ASSUME TypeOK, NEW s \in Sweeper, NEW e \in Episode, Work(s, e) \/ LateMarkDone(s, e),
           ~BackstopHit(s, e), ~MarkSkipped(s, e)
    PROVE  NoneSkipped /\ NoneHeld /\ NoneSkipping
<1>1. NoneHeld
  <2>1. UNCHANGED procVars
    BY DEF Work, LateMarkDone, Start, PassBlank, AddEpisode, AddEpisodeFails, Timeout, MarkDone,
       MarkDoneCancelled, MarkFailed, AbortSelect, MarkAborted, WriteFails
  <2> QED BY <2>1 DEF procVars, NoneHeld
<1>2. NoneSkipped
  <2>1. CASE UNCHANGED tableVars
    BY <2>1 DEF tableVars, rowVars, NoneSkipped
  <2>2. CASE MarkDone(s, e) \/ LateMarkDone(s, e)
    BY <2>2, UpdateSkipsNone DEF MarkDone, LateMarkDone, MarkDoneRow
  <2>3. CASE MarkFailed(s, e)
    BY <2>3, UpdateSkipsNone DEF MarkFailed, MarkFailedRow
  <2>4. CASE MarkAborted(s, e)
    BY <2>4, UpdateSkipsNone DEF MarkAborted, MarkAbortedRow
  <2> QED
    BY <2>1, <2>2, <2>3, <2>4
    DEF Work, Start, PassBlank, AddEpisode, AddEpisodeFails, Timeout, MarkDoneCancelled,
        AbortSelect, WriteFails
<1>3. NoneSkipping
  <2>1. CASE \/ Start(s, e) \/ PassBlank(s, e) \/ AddEpisode(s, e)
             \/ WriteFails(s, e) /\ Goto(s, e, "running")
    BY <2>1, GotoSkipsNone DEF Start, PassBlank, AddEpisode, TaskState
  <2>2. CASE AddEpisodeFails(s, e) \/ Timeout(s, e) \/ MarkDoneCancelled(s, e)
    BY <2>2, GotoSkipsNone, ParameterAssumption
    DEF AddEpisodeFails, Timeout, MarkDoneCancelled, Error
  <2>3. CASE SetTask(s, e, NoTask)
    BY <2>3, TaskSkipsNone DEF NoTask
  <2>4. CASE AbortSelect(s, e)
    <3>1. [task[s][e] EXCEPT !.st = "burying", !.n = attempts[e]].st = "burying"
      BY DEF TypeOK, WorkTypeOK, Task
    <3> QED BY <2>4, <3>1, TaskSkipsNone DEF AbortSelect
  <2>5. CASE LateMarkDone(s, e)
    BY <2>5 DEF LateMarkDone, NoneSkipping
  <2> QED
    BY <2>1, <2>2, <2>3, <2>4, <2>5
    DEF Work, MarkDone, MarkFailed, MarkAborted, WriteFails
<1> QED BY <1>1, <1>2, <1>3

LEMMA StepQuiet ==
    ASSUME TypeOK, NEW p \in Process, Step(p) \/ ReapSelect(p),
           ~ReapConflict(p), ~ReapSkip(p)
    PROVE  NoneSkipped /\ NoneHeld /\ NoneSkipping
<1>1. NoneSkipping
  <2>1. CASE ClaimUpdate(p)
    <3>1. \A s \in Sweeper, e \in Episode : s # p => task'[s][e] = task[s][e]
      BY <2>1 DEF ClaimUpdate, TypeOK, WorkTypeOK
    <3>2. \A e \in Episode : p \in Sweeper => task'[p][e].st # "skipping"
      BY <2>1 DEF ClaimUpdate, TypeOK, WorkTypeOK, NoTask
    <3> QED BY <3>1, <3>2 DEF NoneSkipping
  <2>2. CASE UNCHANGED task
    BY <2>2 DEF NoneSkipping
  <2> QED
    BY <2>1, <2>2
    DEF Step, ReapSelect, Reap, ReapAbort, ReapRequeue, ClaimSelect, Claim, ClaimRefused,
        SweepEnd, RepairSelect, RepairRow, ReplaySelect, Replay, ReplayRequeue,
        ReplayConflict, ReplayDone, ReplayClose, Manual, ManualRequeue, ManualRefused,
        workVars
<1>2. NoneSkipped
  <2>1. CASE UNCHANGED status
    BY <2>1 DEF NoneSkipped
  <2>2. CASE ReapAbort(p)
    BY <2>2, UpdateSkipsNone DEF ReapAbort, MarkAbortedRow
  <2>3. CASE ReapRequeue(p)
    BY <2>3, UpdateSkipsNone DEF ReapRequeue
  <2>4. CASE ClaimUpdate(p)
    BY <2>4 DEF ClaimUpdate, NoneSkipped
  <2>5. CASE RepairRow(p)
    BY <2>1, <2>5, UpdateSkipsNone DEF RepairRow, rowVars
  <2>6. CASE ReplayRequeue(p) \/ ManualRequeue(p)
    BY <2>6, UpdateSkipsNone DEF ReplayRequeue, ManualRequeue
  <2> QED
    BY <2>1, <2>2, <2>3, <2>4, <2>5, <2>6
    DEF Step, ReapSelect, Reap, ClaimSelect, Claim, ClaimRefused,
        SweepEnd, RepairSelect, ReplaySelect, Replay,
        ReplayConflict, ReplayDone, ReplayClose, Manual, ManualRefused,
        tableVars, rowVars
<1>3. NoneHeld
  <2> USE AfterHoldsNone
  <2>1. CASE ReapSelect(p)
    BY <2>1, FetchHoldsNone DEF ReapSelect
  <2>2. CASE ClaimSelect(p) \/ ClaimUpdate(p) \/ ClaimRefused(p) \/ SweepEnd(p)
    BY <2>2, FetchHoldsNone DEF ClaimSelect, ClaimUpdate, ClaimRefused, SweepEnd
  <2>3. CASE RepairSelect(p) \/ ReplaySelect(p) \/ ManualRefused(p)
    BY <2>3, FetchHoldsNone DEF RepairSelect, ReplaySelect, ManualRefused
  <2>4. CASE ReapAbort(p) \/ ReapRequeue(p)
    BY <2>4, ConsumeHoldsNone DEF ReapAbort, ReapRequeue
  <2>5. CASE RepairRow(p) \/ ReplayConflict(p) \/ ReplayDone(p) \/ ReplayClose(p)
    <3>1. \E r, tx : \/ Consume(p, r, "repairRow", AfterRepair(p), tx)
                    \/ Consume(p, r, "replayRow", "idle", tx)
      BY <2>5 DEF RepairRow, ReplayConflict, ReplayDone, ReplayClose
    <3>2. PICK r, tx : \/ Consume(p, r, "repairRow", AfterRepair(p), tx)
                     \/ Consume(p, r, "replayRow", "idle", tx)
      BY <3>1
    <3>3. CASE Consume(p, r, "repairRow", AfterRepair(p), tx)
      BY <3>3, ConsumeHoldsNone
    <3>4. CASE Consume(p, r, "replayRow", "idle", tx)
      BY <3>4, ConsumeHoldsNone
    <3> QED BY <3>2, <3>3, <3>4
  <2>6. CASE ReplayRequeue(p) \/ ManualRequeue(p)
    <3>1. PICK r \in picked[p] : Hold(p, r, "close")
      BY <2>6 DEF ReplayRequeue, ManualRequeue
    <3> QED BY <3>1 DEF Hold, TypeOK, ProcTypeOK, NoneHeld
  <2> QED
    BY <2>1, <2>2, <2>3, <2>4, <2>5, <2>6 DEF Step, Reap, Claim, Replay, Manual
<1> QED BY <1>1, <1>2, <1>3

(* The four steps that skip a row or prepare to.                           *)
LEMMA ConflictSafe ==
    ASSUME TypeOK, Held, Kept, SkipSafe, NEW p \in Process, ReapConflict(p)
    PROVE  SkipSafe'
<1>1. PICK r \in picked[p] : Conflicts(r[1]) /\ Hold(p, r, "reapSkip")
  BY DEF ReapConflict
<1> DEFINE e == r[1]
<1>2. /\ e \in Episode /\ pc[p] = "reap" /\ pc'[p] = "reapSkip" /\ cur'[p] = e
      /\ \A q \in Process \ {p} : pc'[q] = pc[q] /\ cur'[q] = cur[q]
  BY <1>1 DEF ReapConflict, Hold, TypeOK, ProcTypeOK
<1>3. UNCHANGED <<status, task, delivered>>
  BY DEF ReapConflict, tableVars, rowVars, workVars
<1>4. Alive(e)
  BY <1>1 DEF Conflicts, Indexed, Active, Alive
<1> HIDE DEF e
<1>5. \A x : Alive(x)' <=> Alive(x)
  BY <1>3 DEF Alive, Passed
<1>6. \A q \in Process : pc'[q] = "reapSkip" => Alive(cur'[q])
  BY <1>2, <1>4 DEF SkipSafe
<1> QED
  BY <1>2, <1>3, <1>5, <1>6 DEF SkipSafe, Alive, Passed

LEMMA SkipRowSafe ==
    ASSUME OneReaper, TypeOK, Held, Kept, SkipSafe, NEW p \in Process, ReapSkip(p)
    PROVE  SkipSafe'
<1> DEFINE x == cur[p]
<1>1. /\ x \in Episode /\ Alive(x) /\ pc[p] = "reapSkip"
      /\ p \in Sweeper \cup Operator
      /\ UNCHANGED <<task, delivered>>
  BY DEF ReapSkip, SkipSafe, Held, HeldByProcess, TypeOK, ProcTypeOK, workVars
<1>2. /\ status'[x] = "skipped_duplicate"
      /\ \A f \in Episode \ {x} : status'[f] = status[f]
  BY <1>1 DEF ReapSkip, MarkSkippedRow, UpdateRow, TypeOK, TableTypeOK, RowTypeOK
<1>3. /\ pc'[p] \in {"reap", "claim", "repair"}
      /\ \A q \in Process \ {p} : pc'[q] = pc[q] /\ cur'[q] = cur[q]
  BY DEF ReapSkip, Consume, AfterReap, TypeOK, ProcTypeOK
<1>4. \A q \in Process : pc'[q] \in {"reap", "reapSkip"} => q \in Sweeper \cup Operator
  BY <1>1, <1>3 DEF SkipSafe
<1>5. \A q \in Process : pc'[q] # "reapSkip"
  BY <1>1, <1>3, <1>4 DEF OneReaper
<1> HIDE DEF x
<1>6. ASSUME NEW e \in Episode, status'[e] = "skipped_duplicate"
      PROVE  Alive(e)'
  <2>1. CASE e = x
    BY <1>1, <1>2, <2>1 DEF Alive, Twins, Passed
  <2>2. CASE e # x
    <3>1. Alive(e) /\ status[e] = "skipped_duplicate"
      BY <1>2, <1>6, <2>2 DEF SkipSafe
    <3>2. ASSUME NEW f \in Twins(e), status'[f] = "skipped_duplicate", f = x
          PROVE  \/ \E g \in Twins(f) \cup {f} : Passed(g)
                 \/ \E g \in Twins(f) \ {e} : status'[g] \notin {"none", "skipped_duplicate"}
      BY <1>1, <1>2, <3>1, <3>2 DEF Alive, Twins
    <3>3. \A f \in Twins(e) : f # x => status'[f] = status[f]
      BY <1>2 DEF Twins
    <3> QED BY <3>1, <3>2, <3>3, AliveStays
  <2> QED BY <2>1, <2>2
<1> QED
  BY <1>1, <1>4, <1>5, <1>6 DEF SkipSafe, Alive, Passed

LEMMA BackstopSafe ==
    ASSUME TypeOK, Held, Kept, DoneMeansDelivered, SkipSafe,
           NEW s \in Sweeper, NEW e \in Episode, BackstopHit(s, e)
    PROVE  SkipSafe'
<1>1. /\ UNCHANGED <<pc, cur, status, delivered>>
      /\ \A t \in Sweeper, f \in Episode : t # s \/ f # e => task'[t][f] = task[t][f]
  BY DEF BackstopHit, Goto, SetTask, tableVars, rowVars, procVars, TypeOK, WorkTypeOK
<1>2. \E f \in Twins(e) : Passed(f)
  BY DEF BackstopHit, Ingested, Twins, DoneMeansDelivered, Passed
<1>3. \A x : Alive(x)' <=> Alive(x)
  BY <1>1 DEF Alive, Passed
<1>4. \A t \in Sweeper, f \in Episode : task'[t][f].st = "skipping" =>
            \E g \in Twins(f) : Passed(g)'
  BY <1>1, <1>2 DEF SkipSafe, Passed
<1> QED
  BY <1>1, <1>3, <1>4 DEF SkipSafe, Alive

LEMMA MarkSkippedSafe ==
    ASSUME TypeOK, Held, Kept, SkipSafe,
           NEW s \in Sweeper, NEW x \in Episode, MarkSkipped(s, x)
    PROVE  SkipSafe'
<1>1. /\ UNCHANGED <<pc, cur, delivered>>
      /\ \A f \in Episode \ {x} : status'[f] = status[f]
      /\ \A t \in Sweeper, f \in Episode :
            task'[t][f].st = "skipping" => task[t][f].st = "skipping"
      /\ task[s][x].st = "skipping"
  BY DEF MarkSkipped, MarkSkippedRow, UpdateRow, InState, SetTask, NoTask, procVars,
     TypeOK, WorkTypeOK, TableTypeOK, RowTypeOK
<1>2. PICK g \in Twins(x) : Passed(g)
  BY <1>1 DEF SkipSafe
<1>3. ASSUME NEW e \in Episode, Alive(e) PROVE Alive(e)'
  <2>1. \A f \in Twins(e) : f # x => status'[f] = status[f]
    BY <1>1 DEF Twins
  <2> QED BY <1>2, <1>3, <2>1, AliveStays
<1>4. ASSUME NEW e \in Episode, status'[e] = "skipped_duplicate"
      PROVE  Alive(e)'
  <2>1. CASE e = x
    BY <1>1, <1>2, <2>1 DEF Alive, Twins, Passed
  <2>2. CASE e # x
    BY <1>1, <1>3, <1>4, <2>2 DEF SkipSafe
  <2> QED BY <2>1, <2>2
<1>5. \A p \in Process : pc'[p] = "reapSkip" => Alive(cur[p])' 
  <2> SUFFICES ASSUME NEW p \in Process, pc'[p] = "reapSkip" PROVE Alive(cur[p])'
    OBVIOUS
  <2>1. cur[p] \in Episode /\ Alive(cur[p]) /\ cur' = cur
    BY <1>1 DEF SkipSafe, Held, HeldByProcess, TypeOK, ProcTypeOK
  <2> DEFINE e == cur[p]
  <2>2. ASSUME Alive(e), cur'[p] = e, e \in Episode PROVE Alive(cur[p])'
    <3>1. Alive(e) => \/ \E f \in Twins(e) \cup {e} : Passed(f)'
                      \/ \E f \in Twins(e) : status'[f] \notin {"none", "skipped_duplicate"}
      <4> HIDE DEF e
      <4> QED BY <1>3, <2>2 DEF Alive
    <3> QED BY <2>2, <3>1 DEF Alive
  <2> QED BY <2>1, <2>2
<1> QED
  BY <1>1, <1>4, <1>5 DEF SkipSafe, Alive, Passed

LEMMA OutsideQuiet ==
    ASSUME TypeOK,
           \/ \E e \in Episode : Enqueue(e) \/ Age(e)
           \/ \E p \in Operator, e \in Episode : ManualSelect(p, e)
           \/ \E p \in Process : Crash(p)
           \/ UNCHANGED vars
    PROVE  NoneSkipped /\ NoneHeld /\ NoneSkipping
<1>1. CASE \/ \E e \in Episode : Enqueue(e) \/ Age(e)
           \/ UNCHANGED vars
  BY <1>1
  DEF Enqueue, Insert, Age, vars, tableVars, rowVars, procVars, workVars, NoneSkipped,
     NoneHeld, NoneSkipping, TypeOK, TableTypeOK, RowTypeOK
<1>2. ASSUME NEW p \in Operator, NEW e \in Episode, ManualSelect(p, e)
      PROVE  NoneSkipped /\ NoneHeld /\ NoneSkipping
  <2>1. NoneHeld
    BY <1>2, FetchHoldsNone DEF ManualSelect, Process
  <2> QED
    BY <1>2, <2>1 DEF ManualSelect, tableVars, rowVars, workVars, NoneSkipped, NoneSkipping
<1>3. ASSUME NEW p \in Process, Crash(p)
      PROVE  NoneSkipped /\ NoneHeld /\ NoneSkipping
  <2>1. NoneSkipped
    BY <1>3 DEF Crash, tableVars, rowVars, NoneSkipped
  <2>2. NoneHeld
    BY <1>3 DEF Crash, NoneHeld, TypeOK, ProcTypeOK
  <2>3. NoneSkipping
    BY <1>3 DEF Crash, NoneSkipping, TypeOK, WorkTypeOK, NoTask, workVars
  <2> QED BY <2>1, <2>2, <2>3
<1> QED BY <1>1, <1>2, <1>3

LEMMA SkipStep ==
    ASSUME OneReaper, TypeOK, Held, DoneMeansDelivered, SkipSafe, [Next]_vars
    PROVE  SkipSafe'
<1>1. Kept
  BY StepMaps, StepKeeps DEF Held
<1>2. ASSUME NEW s \in Sweeper, NEW e \in Episode, Work(s, e) \/ LateMarkDone(s, e)
      PROVE  SkipSafe'
  BY <1>1, <1>2, WorkQuiet, QuietSafe, BackstopSafe, MarkSkippedSafe
<1>3. ASSUME NEW p \in Process, Step(p) \/ ReapSelect(p)
      PROVE  SkipSafe'
  BY <1>1, <1>3, StepQuiet, QuietSafe, ConflictSafe, SkipRowSafe
<1>4. CASE \/ \E e \in Episode : Enqueue(e) \/ Age(e)
           \/ \E p \in Operator, e \in Episode : ManualSelect(p, e)
           \/ \E p \in Process : Crash(p)
           \/ UNCHANGED vars
  BY <1>1, <1>4, OutsideQuiet, QuietSafe
<1> QED
  BY <1>2, <1>3, <1>4 DEF Next

(* A skipped row's content is in the graph, or another row with it is left *)
(* to ingest or to inspect, however sweeps, dreams and late threads race,  *)
(* as long as one process at a time reaps.                                 *)
THEOREM SkipLosesNothingAlways ==
    ASSUME OneReaper PROVE Spec => []SkipLosesNothing
<1>1. Init => SkipSafe
  BY DEF Init, TableInit, NoTask, SkipSafe
<1>2. TypeOK /\ Held /\ DoneMeansDelivered /\ SkipSafe /\ [Next]_vars => SkipSafe'
  BY SkipStep
<1>3. SkipSafe => SkipLosesNothing
  BY DEF SkipSafe, SkipLosesNothing, Alive, Passed
<1> QED
  BY <1>1, <1>2, <1>3, TypeCorrect, HeldAlways, DoneMeansDeliveredAlways, PTL DEF Spec

-----------------------------------------------------------------------------
(* The processes of a daemon: it sweeps and dreams, one of each at a time, *)
(* and nobody at the command line repairs the queue meanwhile.             *)
Deployed ==
    /\ \A s, t \in Sweeper : s = t
    /\ \A c, d \in Dreamer : c = d
    /\ Operator = {}

Roles ==
    /\ \A s \in Sweeper :
        pc[s] \in {"idle", "reap", "reapSkip", "claim", "claimed", "work"}
    /\ \A d \in Dreamer :
        pc[d] \in {"idle", "repairRow", "replay", "replayRow", "close"}

(* Coroutines run in the last phase of a sweep only, and nothing is picked *)
(* then.                                                                   *)
Phases ==
    \A s \in Sweeper :
        /\ pc[s] # "work" => \A e \in Episode : task[s][e].st = "none"
        /\ pc[s] \in {"idle", "claim", "work"} => picked[s] = {}

OneEach ==
    /\ \A s \in Sweeper : \A q, r \in picked[s] : q[1] = r[1] => q = r
    /\ \A d \in Dreamer : \A r \in picked[d] : r[2] = 0

(* The row is the sweep's: it is in the queue, or a sweep works on it.     *)
InHand(e) ==
    \/ status[e] \in Active
    \/ \E s \in Sweeper : task[s][e].st # "none" \/ e \in PickedIds(s)

(* One of the two limits allows another attempt, or none is respected.     *)
Below(n) == RespectCeiling => n < DefaultAttempts \/ n < RepairLimit

(* The rows the dream is about to requeue are not the sweep's, and are as  *)
(* they were when it selected them.                                        *)
Apart ==
    \A d \in Dreamer : pc[d] = "repairRow" =>
        \A e \in PickedIds(d) : ~InHand(e) /\ Below(attempts[e])

NotFailed == \A e \in Episode : InHand(e) => status[e] \notin {"failed", "aborted"}

Ceiling == \A e \in Episode : status[e] \in {"none", "queued"} => Below(attempts[e])

(* What is in the graph and known to be so is done, or about to be, and    *)
(* nobody is about to requeue it.                                          *)
Once ==
    /\ \A s \in Sweeper : pc[s] = "reapSkip" => delivered[cur[s]] # "present"
    /\ \A e \in Episode :
        /\ delivered[e] # "duplicate"
        /\ delivered[e] = "present" =>
            /\ \A s \in Sweeper :
                e \notin PickedIds(s) /\ task[s][e].st \in {"none", "marking"}
            /\ status[e] = "done" \/ \E s \in Sweeper : task[s][e].st = "marking"
            /\ \A d \in Dreamer : pc[d] = "repairRow" => e \notin PickedIds(d)

Solo == Roles /\ Phases /\ OneEach /\ Apart /\ NotFailed /\ Ceiling /\ Once

LEMMA SoloSame ==
    ASSUME Solo, UNCHANGED <<procVars, task, delivered, status, attempts>>
    PROVE  Solo'
BY DEF Solo, Roles, Phases, OneEach, Apart, NotFailed, Ceiling, Once, InHand,
   PickedIds, procVars

(* A step that concerns the row e only, and what is in nobody's hand but   *)
(* that of the coroutine of e.                                             *)
LEMMA SoloWork ==
    ASSUME Deployed, TypeOK, Solo, NEW s \in Sweeper, NEW e \in Episode,
           task[s][e].st # "none", UNCHANGED procVars,
           \A f \in Episode \ {e} :
              /\ status'[f] = status[f] /\ attempts'[f] = attempts[f]
              /\ delivered'[f] = delivered[f] /\ task'[s][f] = task[s][f],
           task'[s][e].st = "none" \/ status'[e] \notin {"failed", "aborted"},
           \/ status'[e] \notin {"none", "queued"}
           \/ status'[e] = status[e] /\ attempts'[e] = attempts[e],
           delivered'[e] # "duplicate",
           delivered'[e] = "present" =>
                \/ task'[s][e].st = "none" /\ status'[e] = "done"
                \/ task'[s][e].st = "marking"
    PROVE  Solo'
<1>1. pc[s] = "work" /\ picked[s] = {} /\ \A t \in Sweeper : t = s
  BY DEF Deployed, Solo, Phases, Roles
<1>2. InHand(e)
  BY DEF InHand
<1>3. \A d \in Dreamer : pc[d] = "repairRow" => e \notin PickedIds(d)
  BY <1>2 DEF Solo, Apart
<1>4. /\ PickedIds(s) = {} /\ PickedIds(s)' = {}
      /\ \A p \in Process : PickedIds(p)' = PickedIds(p)
      /\ pc' = pc /\ picked' = picked
  BY <1>1 DEF PickedIds, procVars
<1>5. \A f \in Episode \ {e} : InHand(f)' <=> InHand(f)
  BY <1>1, <1>4 DEF InHand
<1>6. Roles' /\ Phases' /\ OneEach'
  BY <1>1, <1>4 DEF Solo, Roles, Phases, OneEach
<1>7. Apart'
  <2>1. \A d \in Dreamer : d \in Process /\ PickedIds(d) \subseteq Episode
    BY DEF Process, PickedIds, TypeOK, ProcTypeOK
  <2> QED BY <1>3, <1>4, <1>5, <2>1 DEF Solo, Apart
<1>8. NotFailed'
  BY <1>1, <1>4, <1>5 DEF Solo, NotFailed, InHand, Active
<1>9. Ceiling'
  BY DEF Solo, Ceiling
<1>10. Once'
  <2>1. \A t \in Sweeper : pc'[t] # "reapSkip"
    BY <1>1, <1>4
  <2>2. \A d \in Dreamer : d \in Process
    BY DEF Process
  <2>3. ASSUME NEW f \in Episode
        PROVE  /\ delivered'[f] # "duplicate"
               /\ delivered'[f] = "present" =>
                  /\ \A t \in Sweeper :
                       f \notin PickedIds(t)' /\ task'[t][f].st \in {"none", "marking"}
                  /\ status'[f] = "done" \/ \E t \in Sweeper : task'[t][f].st = "marking"
                  /\ \A d \in Dreamer : pc'[d] = "repairRow" => f \notin PickedIds(d)'
    <3>1. CASE f = e
      BY <1>1, <1>3, <1>4, <2>2, <3>1
    <3>2. CASE f # e
      BY <1>1, <1>4, <2>2, <3>2 DEF Solo, Once
    <3> QED BY <3>1, <3>2
  <2> QED BY <2>1, <2>3 DEF Once
<1> QED
  BY <1>6, <1>7, <1>8, <1>9, <1>10 DEF Solo

LEMMA WorkSolo ==
    ASSUME Deployed, TypeOK, Held, Solo, NEW s \in Sweeper, NEW e \in Episode,
           Work(s, e)
    PROVE  Solo'
<1> DEFINE st == task[s][e].st
<1>1. /\ task[s][e] \in Task /\ task \in [Sweeper -> [Episode -> Task]]
      /\ delivered \in [Episode -> Delivered]
      /\ status \in [Episode -> Status] /\ attempts \in [Episode -> Nat]
  BY DEF TypeOK, WorkTypeOK, TableTypeOK, RowTypeOK
<1>2. /\ delivered[e] # "duplicate"
      /\ delivered[e] = "present" => st \in {"none", "marking"}
      /\ st # "none" => status[e] \notin {"failed", "aborted"}
  BY DEF Solo, Once, NotFailed, InHand
<1>3. /\ Lose(delivered[e]) \notin {"present", "duplicate"}
      /\ delivered[e] # "present" =>
            /\ Deliver(delivered[e]) = "present"
            /\ Lose(Deliver(delivered[e])) = "lost"
  BY <1>1, <1>2 DEF Delivered, Deliver, Lose
<1>4. ASSUME NEW t, t \in Task, SetTask(s, e, t), st # "none", UNCHANGED procVars,
             UNCHANGED <<status, attempts>>,
             \/ UNCHANGED delivered /\ (delivered[e] = "present" => t.st = "marking")
             \/ /\ delivered' = [delivered EXCEPT ![e] = delivered'[e]]
                /\ delivered'[e] # "duplicate"
                /\ delivered'[e] = "present" => t.st = "marking"
      PROVE  Solo'
  <2>1. /\ task'[s][e] = t /\ \A f \in Episode \ {e} : task'[s][f] = task[s][f]
        /\ \A f \in Episode \ {e} : delivered'[f] = delivered[f]
        /\ delivered'[e] # "duplicate"
        /\ delivered'[e] = "present" => t.st = "marking"
    BY <1>1, <1>2, <1>4 DEF SetTask
  <2> HIDE DEF st
  <2> QED BY <1>2, <1>4, <2>1, SoloWork DEF st
<1>5. ASSUME SetTask(s, e, NoTask), st # "none", UNCHANGED procVars, UNCHANGED delivered,
             NEW x \in {"done", "failed", "aborted", "skipped_duplicate"}, NEW n,
             status' = [status EXCEPT ![e] = x], attempts' = [attempts EXCEPT ![e] = n],
             delivered[e] = "present" => x = "done"
      PROVE  Solo'
  <2>1. /\ task'[s][e].st = "none" /\ status'[e] = x
        /\ \A f \in Episode \ {e} :
              /\ status'[f] = status[f] /\ attempts'[f] = attempts[f]
              /\ delivered'[f] = delivered[f] /\ task'[s][f] = task[s][f]
    BY <1>1, <1>5 DEF SetTask, NoTask
  <2> QED BY <1>2, <1>5, <2>1, SoloWork
<1>6. ASSUME NEW l \in TaskState, Goto(s, e, l), st # "none", UNCHANGED procVars,
             UNCHANGED <<status, attempts>>,
             \/ UNCHANGED delivered /\ (delivered[e] = "present" => l = "marking")
             \/ /\ delivered' = [delivered EXCEPT ![e] = delivered'[e]]
                /\ delivered'[e] # "duplicate"
                /\ delivered'[e] = "present" => l = "marking"
      PROVE  Solo'
  <2> DEFINE t == [task[s][e] EXCEPT !.st = l]
  <2>1. t \in Task /\ t.st = l /\ SetTask(s, e, t)
    BY <1>1, <1>6 DEF Task, Goto
  <2> HIDE DEF t, st
  <2> QED BY <1>4, <1>6, <2>1
<1>7. ASSUME NEW err \in Error, Raise(s, e, err), st # "none", UNCHANGED procVars,
             UNCHANGED <<status, attempts>>,
             \/ UNCHANGED delivered /\ delivered[e] # "present"
             \/ /\ delivered' = [delivered EXCEPT ![e] = delivered'[e]]
                /\ delivered'[e] \notin {"present", "duplicate"}
      PROVE  Solo'
  <2>1. PICK l \in {"failing", "aborting"} :
            SetTask(s, e, [task[s][e] EXCEPT !.st = l, !.err = err])
    BY <1>7 DEF Raise
  <2> DEFINE t == [task[s][e] EXCEPT !.st = l, !.err = err]
  <2>2. t \in Task /\ SetTask(s, e, t)
    BY <1>1, <2>1 DEF Task, TaskState
  <2> HIDE DEF t, st
  <2> QED BY <1>4, <1>7, <2>2
<1>8. CASE Start(s, e) \/ BackstopHit(s, e) \/ (WriteFails(s, e) /\ Goto(s, e, "running"))
  BY <1>2, <1>6, <1>8 DEF Start, BackstopHit, WriteFails, InState, TaskState, tableVars, Goto
<1>9. CASE AddEpisode(s, e)
  <2>1. delivered'[e] = "present" /\ delivered' = [delivered EXCEPT ![e] = delivered'[e]]
    BY <1>1, <1>2, <1>3, <1>9 DEF AddEpisode, InState
  <2> QED BY <1>6, <1>9, <2>1 DEF AddEpisode, InState, TaskState, tableVars
<1>10. CASE AddEpisodeFails(s, e)
  BY <1>2, <1>7, <1>10, ParameterAssumption DEF AddEpisodeFails, InState, tableVars
<1>11. CASE Timeout(s, e)
  <2>1. /\ delivered'[e] \in {delivered[e], "lost"} /\ delivered[e] # "present"
        /\ delivered' = [delivered EXCEPT ![e] = delivered'[e]]
    BY <1>1, <1>2, <1>3, <1>11 DEF Timeout, InState
  <2> QED BY <1>2, <1>7, <1>11, <2>1 DEF Timeout, InState, Error, tableVars
<1>12. CASE MarkDoneCancelled(s, e)
  <2>1. /\ delivered'[e] \notin {"present", "duplicate"}
        /\ delivered' = [delivered EXCEPT ![e] = delivered'[e]]
    BY <1>1, <1>3, <1>12 DEF MarkDoneCancelled
  <2> QED BY <1>7, <1>12, <2>1 DEF MarkDoneCancelled, InState, Error, tableVars
<1>13. CASE MarkDone(s, e)
  BY <1>5, <1>13 DEF MarkDone, InState, MarkDoneRow, UpdateRow
<1>14. CASE MarkSkipped(s, e)
  BY <1>2, <1>5, <1>14 DEF MarkSkipped, InState, MarkSkippedRow, UpdateRow
<1>15. CASE MarkFailed(s, e)
  BY <1>2, <1>5, <1>15 DEF MarkFailed, InState, MarkFailedRow, UpdateRow
<1>16. CASE MarkAborted(s, e)
  BY <1>2, <1>5, <1>16 DEF MarkAborted, InState, MarkAbortedRow, UpdateRow
<1>17. CASE AbortSelect(s, e)
  <2> DEFINE t == [task[s][e] EXCEPT !.st = "burying", !.n = attempts[e]]
  <2>1. t \in Task /\ SetTask(s, e, t)
    BY <1>1, <1>17 DEF AbortSelect, Task, TaskState
  <2> HIDE DEF t
  <2> QED BY <1>2, <1>4, <1>17, <2>1 DEF AbortSelect, InState, tableVars
<1>18. CASE WriteFails(s, e) /\ SetTask(s, e, NoTask)
  <2>1. NoTask \in Task
    BY DEF NoTask, Task, TaskState, Error
  <2>2. st # "none" /\ delivered[e] # "present"
    BY <1>2, <1>18 DEF WriteFails
  <2> QED BY <1>4, <1>18, <2>1, <2>2 DEF WriteFails, tableVars
<1>19. CASE PassBlank(s, e)
  BY <1>2, <1>6, <1>19 DEF PassBlank, InState, TaskState, tableVars
<1> QED
  BY <1>8, <1>9, <1>10, <1>11, <1>12, <1>13, <1>14, <1>15, <1>16, <1>17, <1>18,
     <1>19
  DEF Work, WriteFails

(* A thread of an earlier sweep writes done.                               *)
LEMMA LateSolo ==
    ASSUME TypeOK, Solo, NEW s \in Sweeper, NEW e \in Episode, LateMarkDone(s, e)
    PROVE  Solo'
<1>1. /\ status' = [status EXCEPT ![e] = "done"]
      /\ attempts' = [attempts EXCEPT ![e] = attempts[e]]
      /\ UNCHANGED <<pc, picked, cur, task, delivered>>
  BY DEF LateMarkDone, MarkDoneRow, UpdateRow, procVars
<1>2. /\ status \in [Episode -> Status] /\ attempts \in [Episode -> Nat]
      /\ \A p \in Process : PickedIds(p) \subseteq Episode /\ PickedIds(p)' = PickedIds(p)
  BY <1>1 DEF TypeOK, TableTypeOK, RowTypeOK, PickedIds, ProcTypeOK
<1>3. attempts' = attempts /\ status'[e] = "done"
      /\ \A f \in Episode \ {e} : status'[f] = status[f]
  BY <1>1, <1>2
<1>4. \A f \in Episode : InHand(f)' => InHand(f)
  BY <1>1, <1>2, <1>3 DEF InHand, Active, Process
<1>5. Roles' /\ Phases' /\ OneEach'
  BY <1>1 DEF Solo, Roles, Phases, OneEach
<1>6. Apart' /\ NotFailed' /\ Ceiling'
  BY <1>1, <1>2, <1>3, <1>4 DEF Solo, Apart, NotFailed, Ceiling, Process
<1>7. Once'
  BY <1>1, <1>2, <1>3 DEF Solo, Once, Process
<1> QED BY <1>5, <1>6, <1>7 DEF Solo

LEMMA EnqueueSolo ==
    ASSUME TypeOK, Held, Solo, NEW e \in Episode, Enqueue(e)
    PROVE  Solo'
<1>1. /\ status[e] = "none" /\ status' = [status EXCEPT ![e] = "queued"]
      /\ UNCHANGED <<attempts, pc, picked, cur, task, delivered>>
  BY DEF Enqueue, Insert, procVars, workVars
<1>2. /\ status \in [Episode -> Status]
      /\ \A p \in Process : PickedIds(p) \subseteq Episode /\ PickedIds(p)' = PickedIds(p)
  BY <1>1 DEF TypeOK, TableTypeOK, RowTypeOK, PickedIds, ProcTypeOK
<1>3. status'[e] = "queued" /\ \A f \in Episode \ {e} : status'[f] = status[f]
  BY <1>1, <1>2
<1>4. /\ \A p \in Process : e \notin PickedIds(p)
      /\ \A s \in Sweeper : task[s][e].st = "none"
  BY <1>1 DEF PickedIds, Held, HeldByProcess, HeldByWork
<1>5. \A f \in Episode \ {e} : InHand(f)' => InHand(f)
  BY <1>1, <1>2, <1>3 DEF InHand, Process
<1>6. Roles' /\ Phases' /\ OneEach'
  BY <1>1 DEF Solo, Roles, Phases, OneEach
<1>7. Apart'
  BY <1>1, <1>2, <1>3, <1>4, <1>5 DEF Solo, Apart, Process
<1>8. NotFailed' /\ Ceiling'
  BY <1>1, <1>2, <1>3, <1>5 DEF Solo, NotFailed, Ceiling
<1>9. Once'
  BY <1>1, <1>2, <1>3, <1>4 DEF Solo, Once, Process
<1> QED BY <1>6, <1>7, <1>8, <1>9 DEF Solo

(* The process p fetches rows: nothing else changes.                       *)
LEMMA FetchSolo ==
    ASSUME Deployed, TypeOK, Solo, NEW p \in Process, NEW l \in Pc,
           NEW rows \in SUBSET (Episode \X Nat), Fetch(p, rows, l),
           UNCHANGED <<status, attempts, task, delivered>>,
           p \in Sweeper =>
               /\ l \in {"idle", "reap", "claim", "claimed"}
               /\ l \in {"idle", "claim"} => rows = {}
               /\ \A q, r \in rows : q[1] = r[1] => q = r
               /\ \A e \in Episode : task[p][e].st = "none"
               /\ \A r \in rows : status[r[1]] \in Active,
           p \in Dreamer =>
               /\ l \in {"idle", "repairRow", "replay", "replayRow"}
               /\ \A r \in rows : r[2] = 0
               /\ l = "repairRow" => \A r \in rows :
                     /\ status[r[1]] \in {"failed", "aborted"}
                     /\ Below(attempts[r[1]])
    PROVE  Solo'
<1>1. /\ picked' = [picked EXCEPT ![p] = rows] /\ pc' = [pc EXCEPT ![p] = l]
      /\ UNCHANGED cur /\ pc \in [Process -> Pc]
      /\ picked \in [Process -> SUBSET (Episode \X Nat)]
  BY DEF Fetch, TypeOK, ProcTypeOK
<1> DEFINE ids == {r[1] : r \in rows}
<1>2. /\ PickedIds(p)' = ids /\ picked'[p] = rows /\ pc'[p] = l
      /\ \A q \in Process \ {p} : PickedIds(q)' = PickedIds(q)
                                  /\ picked'[q] = picked[q] /\ pc'[q] = pc[q]
  BY <1>1 DEF PickedIds
<1>3. /\ Sweeper \subseteq Process /\ Dreamer \subseteq Process
      /\ Sweeper \cap Dreamer = {} /\ Process = Sweeper \cup Dreamer
      /\ p \in Sweeper => Sweeper = {p}
      /\ p \in Dreamer => Dreamer = {p}
  BY ProcessAssumption DEF Process, Deployed
<1>4. \A q \in Process : PickedIds(q) \subseteq Episode
  BY <1>1 DEF PickedIds
<1>5. ids \subseteq Episode
  OBVIOUS
<1>6. CASE p \in Sweeper
  <2>1. \A e \in ids : status[e] \in Active
    BY <1>6
  <2>2. \A e \in Episode : InHand(e)' => InHand(e)
    BY <1>2, <1>3, <1>6, <2>1 DEF InHand
  <2>3. Roles' /\ Phases' /\ OneEach'
    BY <1>2, <1>3, <1>6 DEF Solo, Roles, Phases, OneEach
  <2>4. Apart' /\ NotFailed' /\ Ceiling'
    BY <1>2, <1>3, <1>4, <1>6, <2>2 DEF Solo, Apart, NotFailed, Ceiling
  <2>5. Once'
    <3>1. \A e \in ids : delivered[e] # "present"
      BY <1>3, <1>5, <1>6, <2>1 DEF Solo, Once, Active
    <3> QED BY <1>1, <1>2, <1>3, <1>6, <3>1 DEF Solo, Once
  <2> QED BY <2>3, <2>4, <2>5 DEF Solo
<1>7. CASE p \in Dreamer
  <2>1. \A e \in Episode : InHand(e)' <=> InHand(e)
    BY <1>2, <1>3, <1>7 DEF InHand
  <2>2. l = "repairRow" => \A e \in ids : /\ status[e] \in {"failed", "aborted"}
                                       /\ Below(attempts[e])
    BY <1>7
  <2>3. Roles' /\ Phases' /\ OneEach'
    BY <1>2, <1>3, <1>7 DEF Solo, Roles, Phases, OneEach
  <2>4. l = "repairRow" => \A e \in ids : ~InHand(e)
    BY <1>5, <2>2 DEF Solo, NotFailed
  <2>5. Apart' /\ NotFailed' /\ Ceiling'
    BY <1>2, <1>3, <1>7, <2>1, <2>2, <2>4, <1>4, <1>5 DEF Solo, Apart, NotFailed, Ceiling
  <2>6. Once'
    <3>1. l = "repairRow" => \A e \in ids : delivered[e] # "present"
      BY <1>5, <2>2, <2>4 DEF Solo, Once, InHand
    <3> QED BY <1>1, <1>2, <1>3, <1>7, <3>1 DEF Solo, Once
  <2> QED BY <2>3, <2>5, <2>6 DEF Solo
<1> QED BY <1>3, <1>6, <1>7

LEMMA ReapSolo ==
    ASSUME Deployed, TypeOK, Held, Solo, NEW p \in Process, Reap(p)
    PROVE  Solo'
<1>1. /\ p \in Sweeper /\ Sweeper = {p} /\ Dreamer \subseteq Process \ {p}
      /\ pc[p] \in {"reap", "reapSkip"} /\ Process = Sweeper \cup Dreamer
  <2>1. pc[p] \in {"reap", "reapSkip"}
    BY DEF Reap, ReapAbort, ReapRequeue, ReapConflict, ReapSkip
  <2> QED BY <2>1, ProcessAssumption DEF Process, Deployed, Solo, Roles
<1>2. /\ status \in [Episode -> Status] /\ attempts \in [Episode -> Nat]
      /\ pc \in [Process -> Pc] /\ picked \in [Process -> SUBSET (Episode \X Nat)]
      /\ cur \in [Process -> Episode \cup {NoEpisode}]
      /\ \A q \in Process : PickedIds(q) \subseteq Episode
  BY DEF TypeOK, TableTypeOK, RowTypeOK, ProcTypeOK, PickedIds
<1>3. /\ \A e \in Episode : task[p][e].st = "none"
      /\ \A q, r \in picked[p] : q[1] = r[1] => q = r
      /\ AfterReap(p) = "claim" /\ UNCHANGED <<task, delivered>>
  BY <1>1 DEF Solo, Phases, OneEach, AfterReap, Reap, ReapAbort, ReapRequeue,
     ReapConflict, ReapSkip, workVars
<1>4. CASE ReapConflict(p)
  <2>1. PICK r \in picked[p] :
          /\ picked' = [picked EXCEPT ![p] = picked[p] \ {r}]
          /\ pc' = [pc EXCEPT ![p] = "reapSkip"]
          /\ cur' = [cur EXCEPT ![p] = r[1]] /\ UNCHANGED <<status, attempts>>
    BY <1>4 DEF ReapConflict, Hold, tableVars
  <2>2. /\ PickedIds(p)' \subseteq PickedIds(p) /\ r[1] \in PickedIds(p)
        /\ picked'[p] \subseteq picked[p] /\ pc'[p] = "reapSkip" /\ cur'[p] = r[1]
        /\ \A q \in Process \ {p} : /\ PickedIds(q)' = PickedIds(q)
                                   /\ picked'[q] = picked[q] /\ pc'[q] = pc[q]
    BY <1>1, <1>2, <2>1 DEF PickedIds
  <2>3. \A e \in Episode : InHand(e)' => InHand(e)
    BY <1>1, <1>3, <2>1, <2>2 DEF InHand
  <2>4. Roles' /\ Phases' /\ OneEach'
    BY <1>1, <1>3, <2>2 DEF Solo, Roles, Phases, OneEach
  <2>5. Apart' /\ NotFailed' /\ Ceiling'
    BY <1>1, <1>2, <2>1, <2>2, <2>3 DEF Solo, Apart, NotFailed, Ceiling
  <2>6. Once'
    BY <1>1, <1>2, <1>3, <2>1, <2>2 DEF Solo, Once
  <2> QED BY <2>4, <2>5, <2>6 DEF Solo
<1>5. ASSUME NEW r, NEW e \in Episode, NEW x \in {"queued", "aborted", "skipped_duplicate"},
             NEW n \in Nat,
             Consume(p, r, "reap", "claim", p) \/ Consume(p, r, "reap", "claim", writer),
             status' = [status EXCEPT ![e] = x], attempts' = [attempts EXCEPT ![e] = n],
             delivered[e] # "present",
             x # "skipped_duplicate" => r \in picked[p] /\ e = r[1],
             x = "queued" => Below(n),
             x = "skipped_duplicate" => n = attempts[e]
      PROVE  Solo'
  <2>1. /\ picked'[p] = picked[p] \ {r} /\ pc'[p] \in {"reap", "claim"}
        /\ pc'[p] = "claim" => picked'[p] = {}
        /\ \A q \in Process \ {p} : picked'[q] = picked[q] /\ pc'[q] = pc[q]
    BY <1>2, <1>5 DEF Consume
  <2>2. /\ PickedIds(p)' \subseteq PickedIds(p)
        /\ x # "skipped_duplicate" => e \in PickedIds(p) /\ e \notin PickedIds(p)'
        /\ \A q \in Process \ {p} : PickedIds(q)' = PickedIds(q)
    BY <1>3, <1>5, <2>1 DEF PickedIds
  <2>3. /\ status'[e] = x /\ attempts'[e] = n
        /\ \A f \in Episode \ {e} : status'[f] = status[f] /\ attempts'[f] = attempts[f]
    BY <1>2, <1>5
  <2>4. /\ \A f \in Episode \ {e} : InHand(f)' => InHand(f)
        /\ x # "skipped_duplicate" => InHand(e)
        /\ x = "aborted" => ~InHand(e)'
    BY <1>1, <1>3, <2>1, <2>2, <2>3 DEF InHand, Active
  <2>5. Roles' /\ Phases' /\ OneEach'
    BY <1>1, <1>3, <2>1 DEF Solo, Roles, Phases, OneEach
  <2>6. NotFailed' /\ Ceiling'
    BY <1>5, <2>3, <2>4 DEF Solo, NotFailed, Ceiling
  <2>7. Apart'
    <3> SUFFICES ASSUME NEW d \in Dreamer, pc'[d] = "repairRow", NEW f \in PickedIds(d)'
                 PROVE  ~InHand(f)' /\ Below(attempts'[f])
      BY DEF Apart
    <3>1. /\ d \in Process \ {p} /\ pc[d] = "repairRow" /\ f \in PickedIds(d)
          /\ f \in Episode /\ ~InHand(f) /\ Below(attempts[f])
      BY <1>1, <1>2, <2>1, <2>2 DEF Solo, Apart
    <3>2. CASE f # e
      BY <2>3, <2>4, <3>1, <3>2
    <3>3. CASE f = e
      <4>1. x = "skipped_duplicate" /\ f \notin PickedIds(p)
        BY <1>1, <2>4, <3>1, <3>3 DEF InHand
      <4>2. ~InHand(f)'
        BY <1>1, <1>3, <2>2, <2>3, <3>3, <4>1 DEF InHand, Active
      <4> QED BY <1>5, <2>3, <3>1, <3>3, <4>1, <4>2
    <3> QED BY <3>2, <3>3
  <2>8. Once'
    BY <1>1, <1>2, <1>3, <1>5, <2>1, <2>2, <2>3 DEF Solo, Once
  <2> QED BY <2>5, <2>6, <2>7, <2>8 DEF Solo
<1>6. \A r \in picked[p] : r[1] \in Episode /\ r[2] \in Nat /\ delivered[r[1]] # "present"
  BY <1>1, <1>2 DEF PickedIds, Solo, Once
<1>7. CASE ReapAbort(p)
  <2>1. PICK r \in picked[p] :
          /\ status' = [status EXCEPT ![r[1]] = "aborted"]
          /\ attempts' = [attempts EXCEPT ![r[1]] = r[2] + 1]
          /\ Consume(p, r, "reap", "claim", p)
    BY <1>3, <1>7 DEF ReapAbort, MarkAbortedRow, UpdateRow
  <2>2. r[2] + 1 \in Nat
    BY <1>6
  <2> QED BY <1>5, <1>6, <2>1, <2>2
<1>8. CASE ReapRequeue(p)
  <2>0. ReapCeiling(p) = DefaultAttempts
    BY <1>1 DEF ReapCeiling, Deployed
  <2>1. PICK r \in picked[p] :
          /\ r[2] + 1 < DefaultAttempts
          /\ status' = [status EXCEPT ![r[1]] = "queued"]
          /\ attempts' = [attempts EXCEPT ![r[1]] = r[2] + 1]
          /\ Consume(p, r, "reap", "claim", writer)
    BY <1>3, <1>8, <2>0 DEF ReapRequeue, UpdateRow
  <2>2. r[2] + 1 \in Nat /\ Below(r[2] + 1)
    BY <1>6, <2>1 DEF Below
  <2> QED BY <1>5, <1>6, <2>1, <2>2
<1>9. CASE ReapSkip(p)
  <2>1. cur[p] \in Episode /\ delivered[cur[p]] # "present"
    BY <1>1, <1>2, <1>9 DEF ReapSkip, Held, HeldByProcess, Solo, Once
  <2>2. /\ status' = [status EXCEPT ![cur[p]] = "skipped_duplicate"]
        /\ attempts' = [attempts EXCEPT ![cur[p]] = attempts[cur[p]]]
        /\ attempts[cur[p]] \in Nat
        /\ Consume(p, <<cur[p], 0>>, "reap", "claim", p)
    BY <1>2, <1>3, <1>9, <2>1 DEF ReapSkip, MarkSkippedRow, UpdateRow
  <2> QED BY <1>5, <2>1, <2>2
<1> QED BY <1>4, <1>7, <1>8, <1>9 DEF Reap

(* The SELECTs of either process, and the ends of their passes.            *)
LEMMA SelectSolo ==
    ASSUME Deployed, TypeOK, Held, Solo, NEW p \in Process,
           \/ ReapSelect(p) \/ ClaimSelect(p) \/ ClaimRefused(p) \/ SweepEnd(p)
           \/ RepairSelect(p) \/ ReplaySelect(p)
    PROVE  Solo'
<1>1. /\ status \in [Episode -> Status] /\ attempts \in [Episode -> Nat]
      /\ Sweeper \cap Dreamer = {} /\ Process = Sweeper \cup Dreamer
      /\ UNCHANGED <<status, attempts, task, delivered>>
  BY ProcessAssumption
  DEF TypeOK, TableTypeOK, RowTypeOK, Process, Deployed, ReapSelect, ClaimSelect,
      ClaimRefused, SweepEnd, RepairSelect, ReplaySelect, tableVars, rowVars, workVars
<1>2. /\ p \in Sweeper => pc[p] \in {"idle", "reap", "reapSkip", "claim", "claimed", "work"}
      /\ p \in Dreamer => pc[p] \in {"idle", "repairRow", "replay", "replayRow", "close"}
      /\ p \in Sweeper /\ pc[p] # "work" => \A e \in Episode : task[p][e].st = "none"
  BY DEF Solo, Roles, Phases
<1>3. CASE ReapSelect(p)
  <2> DEFINE stuck == {e \in Episode : status[e] = "processing" /\ aged[e]}
             rows == {<<e, attempts[e]>> : e \in stuck}
             l == IF stuck = {} THEN "claim" ELSE "reap"
  <2>1. p \in Sweeper /\ p \notin Dreamer /\ Fetch(p, rows, l) /\ pc[p] = "idle"
    BY <1>1, <1>3 DEF ReapSelect, AfterReap, Deployed
  <2>2. /\ rows \in SUBSET (Episode \X Nat) /\ l \in Pc
        /\ l = "claim" => rows = {}
        /\ l \in {"claim", "reap"}
        /\ \A q, r \in rows : q[1] = r[1] => q = r
        /\ \A r \in rows : status[r[1]] \in Active
    BY <1>1 DEF Pc, Active
  <2> HIDE DEF rows, l
  <2> QED BY <1>1, <1>2, <2>1, <2>2, FetchSolo
<1>4. CASE ClaimSelect(p)
  <2>1. PICK S \in LimitTo({e \in Episode : status[e] = "queued"}, BatchLimit) :
          Fetch(p, {<<e, attempts[e]>> : e \in S}, IF S = {} THEN "idle" ELSE "claimed")
    BY <1>4 DEF ClaimSelect
  <2> DEFINE rows == {<<e, attempts[e]>> : e \in S}
             l == IF S = {} THEN "idle" ELSE "claimed"
  <2>2. p \in Sweeper /\ p \notin Dreamer /\ Fetch(p, rows, l) /\ pc[p] = "claim"
    BY <1>1, <1>4, <2>1 DEF ClaimSelect
  <2>3. S \subseteq Episode /\ \A e \in S : status[e] = "queued"
    BY <2>1 DEF LimitTo
  <2>4. /\ rows \in SUBSET (Episode \X Nat) /\ l \in Pc
        /\ l = "idle" => rows = {}
        /\ l \in {"idle", "claimed"}
        /\ \A q, r \in rows : q[1] = r[1] => q = r
        /\ \A r \in rows : status[r[1]] \in Active
    BY <1>1, <2>3 DEF Pc, Active
  <2> HIDE DEF rows, l
  <2> QED BY <1>1, <1>2, <2>2, <2>4, FetchSolo
<1>5. CASE ClaimRefused(p) \/ SweepEnd(p)
  <2>1. Fetch(p, {}, "idle") /\ p \in Sweeper /\ p \notin Dreamer
        /\ \A e \in Episode : task[p][e].st = "none"
    BY <1>1, <1>2, <1>5 DEF ClaimRefused, SweepEnd
  <2> QED BY <1>1, <2>1, FetchSolo DEF Pc
<1>6. CASE RepairSelect(p)
  <2>1. PICK S \in LimitTo(Repairable, ReapLimit) :
          Fetch(p, {<<e, 0>> : e \in S}, IF S = {} THEN AfterRepair(p) ELSE "repairRow")
    BY <1>6 DEF RepairSelect
  <2> DEFINE rows == {<<e, 0>> : e \in S}
             l == IF S = {} THEN "replay" ELSE "repairRow"
  <2>2. p \in Dreamer /\ p \notin Sweeper /\ Fetch(p, rows, l)
    BY <1>1, <1>2, <1>6, <2>1 DEF RepairSelect, AfterRepair
  <2>3. S \subseteq Episode /\ \A e \in S : /\ status[e] \in {"failed", "aborted"}
                                       /\ Below(attempts[e])
    BY <2>1 DEF LimitTo, Repairable, Below
  <2>4. /\ rows \in SUBSET (Episode \X Nat) /\ l \in Pc
        /\ l \in {"replay", "repairRow"}
        /\ \A r \in rows : /\ r[2] = 0 /\ status[r[1]] \in {"failed", "aborted"}
                           /\ Below(attempts[r[1]])
    BY <2>3 DEF Pc
  <2> HIDE DEF rows, l
  <2> QED BY <1>1, <2>2, <2>4, FetchSolo
<1>7. CASE ReplaySelect(p)
  <2>1. PICK S \in SUBSET Replayable :
          Fetch(p, {<<e, 0>> : e \in S}, IF S = {} THEN "idle" ELSE "replayRow")
    BY <1>7 DEF ReplaySelect
  <2> DEFINE rows == {<<e, 0>> : e \in S}
             l == IF S = {} THEN "idle" ELSE "replayRow"
  <2>2. p \in Dreamer /\ p \notin Sweeper /\ Fetch(p, rows, l)
    BY <1>1, <1>2, <1>7, <2>1 DEF ReplaySelect
  <2>3. /\ rows \in SUBSET (Episode \X Nat) /\ l \in Pc
        /\ l \in {"idle", "replayRow"}
        /\ \A r \in rows : r[2] = 0
    BY DEF Pc, Replayable
  <2> HIDE DEF rows, l
  <2> QED BY <1>1, <2>2, <2>3, FetchSolo
<1> QED BY <1>3, <1>4, <1>5, <1>6, <1>7

(* The claim: the selected rows go to the coroutines.                      *)
LEMMA ClaimSolo ==
    ASSUME Deployed, TypeOK, Held, Solo, NEW p \in Process, ClaimUpdate(p)
    PROVE  Solo'
<1> DEFINE ids == PickedIds(p)
<1>1. /\ status \in [Episode -> Status] /\ attempts \in [Episode -> Nat]
      /\ pc \in [Process -> Pc] /\ picked \in [Process -> SUBSET (Episode \X Nat)]
      /\ task \in [Sweeper -> [Episode -> Task]]
      /\ \A q \in Process : PickedIds(q) \subseteq Episode
  BY DEF TypeOK, TableTypeOK, RowTypeOK, ProcTypeOK, WorkTypeOK, PickedIds
<1>2. /\ p \in Sweeper /\ Sweeper = {p} /\ Dreamer \subseteq Process \ {p}
      /\ pc[p] = "claimed" /\ Process = Sweeper \cup Dreamer
  <2>1. pc[p] = "claimed"
    BY DEF ClaimUpdate
  <2> QED BY <2>1, ProcessAssumption DEF Process, Deployed, Solo, Roles
<1>3. /\ picked'[p] = {} /\ PickedIds(p)' = {} /\ pc'[p] = "work"
      /\ \A q \in Process \ {p} : /\ PickedIds(q)' = PickedIds(q)
                                 /\ picked'[q] = picked[q] /\ pc'[q] = pc[q]
      /\ cur' = cur /\ attempts' = attempts /\ delivered' = delivered
  BY <1>1 DEF ClaimUpdate, Fetch, PickedIds
<1>4. \A e \in Episode :
        /\ e \in ids => status'[e] = "processing" /\ task'[p][e].st \in {"failing", "waiting"}
        /\ e \notin ids => status'[e] = status[e] /\ task'[p][e].st = "none"
  <2>1. \A e \in Episode : status'[e] = IF e \in ids THEN "processing" ELSE status[e]
    BY DEF ClaimUpdate
  <2>2. PICK D \in SUBSET ids :
          task' = [task EXCEPT ![p] = [e \in Episode |->
            IF e \notin ids THEN NoTask
            ELSE [st |-> IF e \in D THEN "failing" ELSE "waiting",
                  n |-> (CHOOSE r \in picked[p] : r[1] = e)[2],
                  err |-> IF e \in D THEN "Transient" ELSE "None"]]]
    BY DEF ClaimUpdate
  <2>3. \A e \in Episode : task'[p][e] =
            IF e \notin ids THEN NoTask
            ELSE [st |-> IF e \in D THEN "failing" ELSE "waiting",
                  n |-> (CHOOSE r \in picked[p] : r[1] = e)[2],
                  err |-> IF e \in D THEN "Transient" ELSE "None"]
    <3> HIDE DEF ids
    <3> QED BY <1>1, <1>2, <2>2
  <2>4. \A e \in Episode : /\ e \in ids => task'[p][e].st \in {"failing", "waiting"}
                           /\ e \notin ids => task'[p][e].st = "none"
    <3> HIDE DEF ids
    <3> TAKE e \in Episode
    <3> DEFINE n == (CHOOSE r \in picked[p] : r[1] = e)[2]
    <3>3. e \in ids => task'[p][e] = [st |-> IF e \in D THEN "failing" ELSE "waiting",
                  n |-> n,
                  err |-> IF e \in D THEN "Transient" ELSE "None"]
      BY <2>3
    <3>1. e \in ids => task'[p][e].st = IF e \in D THEN "failing" ELSE "waiting"
      <4> HIDE DEF n
      <4> QED BY <3>3
    <3>2. e \notin ids => task'[p][e] = NoTask
      BY <2>3
    <3> QED BY <3>1, <3>2 DEF NoTask
  <2> QED BY <2>1, <2>4
<1>5. \A e \in Episode : /\ e \in ids => InHand(e)
                         /\ e \notin ids => (InHand(e)' => InHand(e))
  BY <1>2, <1>3, <1>4 DEF InHand
<1>6. Roles' /\ Phases' /\ OneEach'
  BY <1>2, <1>3 DEF Solo, Roles, Phases, OneEach
<1>7. Apart'
  BY <1>1, <1>2, <1>3, <1>5 DEF Solo, Apart
<1>8. NotFailed' /\ Ceiling'
  BY <1>3, <1>4, <1>5 DEF Solo, NotFailed, Ceiling
<1>9. Once'
  <2>1. \A e \in ids : delivered[e] # "present"
    BY <1>1, <1>2 DEF Solo, Once
  <2>2. \A e \in Episode : task[p][e].st = "none"
    BY <1>2 DEF Solo, Phases
  <2>3. ASSUME NEW e \in Episode, delivered'[e] = "present"
        PROVE  /\ e \notin ids /\ status'[e] = "done" /\ task'[p][e].st = "none"
               /\ \A d \in Dreamer : pc[d] = "repairRow" => e \notin PickedIds(d)
    BY <1>2, <1>3, <1>4, <2>1, <2>2, <2>3 DEF Solo, Once
  <2>4. \A e \in Episode : delivered'[e] # "duplicate"
    BY <1>3 DEF Solo, Once
  <2> QED BY <1>2, <1>3, <2>3, <2>4 DEF Once
<1> QED BY <1>6, <1>7, <1>8, <1>9 DEF Solo

(* The dream's phase 4, row by row.                                        *)
LEMMA RepairSolo ==
    ASSUME Deployed, TypeOK, Held, Solo, NEW p \in Process, RepairRow(p)
    PROVE  Solo'
<1>1. /\ status \in [Episode -> Status] /\ attempts \in [Episode -> Nat]
      /\ pc \in [Process -> Pc] /\ picked \in [Process -> SUBSET (Episode \X Nat)]
      /\ cur \in [Process -> Episode \cup {NoEpisode}]
      /\ \A q \in Process : PickedIds(q) \subseteq Episode
  BY DEF TypeOK, TableTypeOK, RowTypeOK, ProcTypeOK, PickedIds
<1>2. /\ p \in Dreamer /\ Dreamer = {p} /\ Sweeper \subseteq Process \ {p}
      /\ pc[p] = "repairRow" /\ Process = Sweeper \cup Dreamer
      /\ UNCHANGED <<task, delivered>>
  <2>1. pc[p] = "repairRow" /\ UNCHANGED <<task, delivered>>
    BY DEF RepairRow, workVars
  <2> QED BY <2>1, ProcessAssumption DEF Process, Deployed, Solo, Roles
<1>3. PICK r \in picked[p] :
        /\ IF Conflicts(r[1])
           THEN UNCHANGED rowVars
           ELSE UpdateRow(r[1], "queued", attempts[r[1]], lastError[r[1]])
        /\ Consume(p, r, "repairRow", "replay", writer)
  BY <1>2 DEF RepairRow, AfterRepair
<1> DEFINE e == r[1]
<1>4. e \in Episode /\ e \in PickedIds(p) /\ ~InHand(e) /\ Below(attempts[e])
  BY <1>1, <1>2 DEF PickedIds, Solo, Apart
<1>5. /\ attempts' = attempts
      /\ \A f \in Episode \ {e} : status'[f] = status[f]
      /\ status'[e] = "queued" \/ status'[e] = status[e]
  <2>1. attempts' = [attempts EXCEPT ![e] = attempts[e]] \/ attempts' = attempts
    BY <1>3 DEF UpdateRow, rowVars
  <2>2. status' = [status EXCEPT ![e] = "queued"] \/ status' = status
    BY <1>3 DEF UpdateRow, rowVars
  <2> QED BY <1>1, <1>4, <2>1, <2>2
<1>6. /\ picked'[p] = picked[p] \ {r} /\ pc'[p] \in {"repairRow", "replay"}
      /\ pc'[p] = "replay" => picked'[p] = {}
      /\ \A q \in Process \ {p} : /\ PickedIds(q)' = PickedIds(q) /\ cur'[q] = cur[q]
                                 /\ picked'[q] = picked[q] /\ pc'[q] = pc[q]
  BY <1>1, <1>3 DEF Consume, PickedIds
<1>7. e \notin PickedIds(p)' /\ PickedIds(p)' \subseteq PickedIds(p)
  BY <1>1, <1>2, <1>6 DEF PickedIds, Solo, OneEach
<1>8. \A f \in Episode \ {e} : InHand(f)' <=> InHand(f)
  BY <1>2, <1>5, <1>6 DEF InHand
<1> HIDE DEF e
<1>9. Roles' /\ Phases' /\ OneEach'
  BY <1>2, <1>6 DEF Solo, Roles, Phases, OneEach
<1>10. Apart'
  BY <1>1, <1>2, <1>5, <1>6, <1>7, <1>8 DEF Solo, Apart
<1>11. NotFailed'
  <2>1. InHand(e)' => status'[e] = "queued"
    BY <1>2, <1>4, <1>5, <1>6 DEF InHand
  <2> QED BY <1>5, <1>8, <2>1 DEF Solo, NotFailed
<1>12. Ceiling'
  BY <1>4, <1>5 DEF Solo, Ceiling
<1>13. Once'
  <2>1. delivered[e] # "present"
    BY <1>2, <1>4 DEF Solo, Once
  <2> QED BY <1>1, <1>2, <1>4, <1>5, <1>6, <1>7, <2>1 DEF Solo, Once
<1> QED BY <1>9, <1>10, <1>11, <1>12, <1>13 DEF Solo

LEMMA ReplaySolo ==
    ASSUME Deployed, TypeOK, Held, Solo, NEW p \in Process, Replay(p)
    PROVE  Solo'
<1>1. /\ status \in [Episode -> Status] /\ attempts \in [Episode -> Nat]
      /\ pc \in [Process -> Pc] /\ picked \in [Process -> SUBSET (Episode \X Nat)]
      /\ cur \in [Process -> Episode \cup {NoEpisode}]
      /\ delivered \in [Episode -> Delivered]
      /\ \A q \in Process : PickedIds(q) \subseteq Episode
  BY DEF TypeOK, TableTypeOK, RowTypeOK, ProcTypeOK, WorkTypeOK, PickedIds
<1>2. /\ p \in Dreamer /\ Dreamer = {p} /\ Sweeper \subseteq Process \ {p}
      /\ pc[p] \in {"replayRow", "close"} /\ Process = Sweeper \cup Dreamer
      /\ UNCHANGED <<task, delivered>>
  <2>1. pc[p] \in {"replayRow", "close"} /\ UNCHANGED <<task, delivered>>
    BY DEF Replay, ReplayRequeue, ReplayConflict, ReplayDone, ReplayClose, workVars
  <2> QED BY <2>1, ProcessAssumption DEF Process, Deployed, Solo, Roles
<1>3. /\ picked'[p] \subseteq picked[p] /\ pc'[p] \in {"replayRow", "close", "idle"}
      /\ \A q \in Process \ {p} : /\ PickedIds(q)' = PickedIds(q) /\ cur'[q] = cur[q]
                                 /\ picked'[q] = picked[q] /\ pc'[q] = pc[q]
  <2>1. \/ \E r, tx : Consume(p, r, "replayRow", "idle", tx)
        \/ \E r : Hold(p, r, "close")
    BY DEF Replay, ReplayRequeue, ReplayConflict, ReplayDone, ReplayClose
  <2>2. ASSUME NEW r, NEW tx, Consume(p, r, "replayRow", "idle", tx) PROVE <1>3!:
    BY <1>1, <2>2 DEF Consume, PickedIds
  <2>3. ASSUME NEW r, Hold(p, r, "close") PROVE <1>3!:
    BY <1>1, <2>3 DEF Hold, PickedIds
  <2> QED BY <2>1, <2>2, <2>3
<1>4. Roles' /\ Phases' /\ OneEach'
  BY <1>2, <1>3 DEF Solo, Roles, Phases, OneEach
<1>5. CASE UNCHANGED <<status, attempts>>
  <2>1. \A f \in Episode : InHand(f)' <=> InHand(f)
    BY <1>2, <1>3, <1>5 DEF InHand
  <2>2. Apart' /\ NotFailed' /\ Ceiling'
    BY <1>1, <1>2, <1>3, <1>5, <2>1 DEF Solo, Apart, NotFailed, Ceiling
  <2>3. Once'
    BY <1>1, <1>2, <1>3, <1>5 DEF Solo, Once
  <2> QED BY <1>4, <2>2, <2>3 DEF Solo
<1>6. CASE ReplayRequeue(p)
  <2>1. PICK r \in picked[p] : /\ status[r[1]] # "done"
                               /\ UpdateRow(r[1], "queued", 0, "None")
                               /\ Hold(p, r, "close")
    BY <1>6 DEF ReplayRequeue
  <2> DEFINE e == r[1]
  <2>2. e \in Episode /\ status[e] # "none"
    BY <1>1 DEF Held, HeldByProcess
  <2>3. /\ status'[e] = "queued" /\ attempts'[e] = 0 /\ status[e] # "done"
        /\ \A f \in Episode \ {e} : status'[f] = status[f] /\ attempts'[f] = attempts[f]
    BY <1>1, <2>1, <2>2 DEF UpdateRow
  <2> HIDE DEF e
  <2>4. pc'[p] = "close"
    BY <1>1, <2>1 DEF Hold
  <2>5. \A f \in Episode \ {e} : InHand(f)' <=> InHand(f)
    BY <1>2, <1>3, <2>3 DEF InHand
  <2>6. Apart'
    BY <1>2, <2>4 DEF Apart
  <2>7. NotFailed' /\ Ceiling'
    BY <2>3, <2>5, AttemptsAssumption DEF Solo, NotFailed, Ceiling, Below
  <2>8. Once'
    <3>1. delivered[e] = "present" => \E s \in Sweeper : task[s][e].st = "marking"
      BY <2>2, <2>3 DEF Solo, Once
    <3> QED BY <1>1, <1>2, <1>3, <2>3, <2>4, <3>1 DEF Solo, Once
  <2> QED BY <1>4, <2>6, <2>7, <2>8 DEF Solo
<1> QED
  BY <1>5, <1>6
  DEF Replay, ReplayConflict, ReplayDone, ReplayClose, tableVars, rowVars

(* A crash forgets what the process held; what an interrupted sweep had    *)
(* ingested is not known to be in the graph any more.                      *)
LEMMA CrashSolo ==
    ASSUME Deployed, TypeOK, Held, Solo, NEW p \in Process, Crash(p)
    PROVE  Solo'
<1>1. /\ pc \in [Process -> Pc] /\ picked \in [Process -> SUBSET (Episode \X Nat)]
      /\ task \in [Sweeper -> [Episode -> Task]]
      /\ cur \in [Process -> Episode \cup {NoEpisode}]
      /\ delivered \in [Episode -> Delivered]
      /\ status' = status /\ attempts' = attempts
      /\ \A q \in Process : PickedIds(q) \subseteq Episode
  BY DEF TypeOK, ProcTypeOK, WorkTypeOK, PickedIds, Crash, tableVars, rowVars
<1>2. /\ picked'[p] = {} /\ PickedIds(p)' = {} /\ pc'[p] = "idle"
      /\ \A q \in Process \ {p} : /\ PickedIds(q)' = PickedIds(q) /\ cur'[q] = cur[q]
                                 /\ picked'[q] = picked[q] /\ pc'[q] = pc[q]
  BY <1>1 DEF Crash, PickedIds
<1>3. /\ Sweeper \subseteq Process /\ Dreamer \subseteq Process
      /\ Sweeper \cap Dreamer = {} /\ Process = Sweeper \cup Dreamer
      /\ p \in Sweeper => Sweeper = {p}
      /\ p \in Dreamer => Dreamer = {p}
  BY ProcessAssumption DEF Process, Deployed
<1>4. /\ p \in Sweeper => \A e \in Episode : task'[p][e].st = "none"
      /\ p \notin Sweeper => UNCHANGED <<task, delivered>>
  BY <1>1 DEF Crash, workVars, NoTask
<1>5. \A e \in Episode : InHand(e)' => InHand(e)
  BY <1>1, <1>2, <1>3, <1>4 DEF InHand
<1>6. Roles' /\ Phases' /\ OneEach'
  BY <1>2, <1>3, <1>4 DEF Solo, Roles, Phases, OneEach
<1>7. Apart' /\ NotFailed' /\ Ceiling'
  BY <1>1, <1>2, <1>3, <1>5 DEF Solo, Apart, NotFailed, Ceiling
<1>8. \A e \in Episode :
        /\ delivered'[e] # "duplicate"
        /\ delivered'[e] = "present" => delivered[e] = "present"
        /\ p \in Sweeper /\ delivered'[e] = "present" => task[p][e].st # "marking"
  <2>1. CASE p \in Sweeper
    <3>1. PICK LL \in SUBSET {e \in Episode \ Blank : task[p][e].st = "running"} :
            delivered' = [e \in Episode |->
                    CASE e \in LL -> Lose(Deliver(delivered[e]))
                      [] task[p][e].st = "marking" -> Lose(delivered[e])
                      [] OTHER -> delivered[e]]
      BY <2>1 DEF Crash
    <3> SUFFICES ASSUME NEW e \in Episode
                 PROVE  /\ delivered'[e] # "duplicate"
                        /\ delivered'[e] = "present" => delivered[e] = "present"
                        /\ delivered'[e] = "present" => task[p][e].st # "marking"
      BY <2>1
    <3>2. /\ delivered[e] \in Delivered \ {"duplicate"}
          /\ e \in LL => task[p][e].st = "running" /\ delivered[e] # "present"
      BY <1>1, <2>1 DEF Solo, Once
    <3>3. \/ e \in LL /\ delivered'[e] = Lose(Deliver(delivered[e]))
          \/ task[p][e].st = "marking" /\ delivered'[e] = Lose(delivered[e])
          \/ task[p][e].st # "marking" /\ delivered'[e] = delivered[e]
      BY <3>1
    <3>4. /\ Lose(delivered[e]) \notin {"present", "duplicate"}
          /\ e \in LL => Lose(Deliver(delivered[e])) = "lost"
      BY <3>2 DEF Delivered, Lose, Deliver
    <3> QED BY <3>2, <3>3, <3>4
  <2>2. CASE p \notin Sweeper
    BY <1>4, <2>2 DEF Solo, Once
  <2> QED BY <2>1, <2>2
<1>9. Once'
  <2>1. ASSUME NEW s \in Sweeper, pc'[s] = "reapSkip"
        PROVE  delivered'[cur'[s]] # "present"
    <3>1. s # p /\ s \in Process \ {p} /\ cur'[s] = cur[s] /\ pc[s] = "reapSkip"
      BY <1>2, <1>3, <2>1
    <3>2. p \notin Sweeper
      BY <1>3, <3>1
    <3> QED BY <1>4, <3>1, <3>2 DEF Solo, Once
  <2>2. ASSUME NEW e \in Episode, delivered'[e] = "present"
        PROVE  /\ \A s \in Sweeper :
                    e \notin PickedIds(s)' /\ task'[s][e].st \in {"none", "marking"}
               /\ status'[e] = "done" \/ \E s \in Sweeper : task'[s][e].st = "marking"
               /\ \A d \in Dreamer : pc'[d] = "repairRow" => e \notin PickedIds(d)'
    <3>1. delivered[e] = "present"
      BY <1>8, <2>2
    <3>2. CASE p \in Sweeper
      BY <1>1, <1>2, <1>3, <1>4, <1>8, <2>2, <3>1, <3>2 DEF Solo, Once
    <3>3. CASE p \notin Sweeper
      BY <1>1, <1>2, <1>3, <1>4, <2>2, <3>1, <3>3 DEF Solo, Once
    <3> QED BY <3>2, <3>3
  <2> QED BY <1>8, <2>1, <2>2 DEF Once
<1> QED BY <1>6, <1>7, <1>9 DEF Solo

LEMMA InitSolo == ASSUME Deployed, Init PROVE Solo
<1>1. /\ \A e \in Episode : status[e] = "none" /\ attempts[e] = 0 /\ delivered[e] = "absent"
      /\ \A p \in Process : pc[p] = "idle" /\ picked[p] = {} /\ PickedIds(p) = {}
      /\ \A s \in Sweeper, e \in Episode : task[s][e].st = "none"
  BY DEF Init, TableInit, NoTask, PickedIds
<1>2. Sweeper \subseteq Process /\ Dreamer \subseteq Process
  BY DEF Process
<1>3. Roles /\ Phases /\ OneEach
  BY <1>1, <1>2 DEF Roles, Phases, OneEach
<1>4. \A e \in Episode : ~InHand(e)
  BY <1>1, <1>2 DEF InHand, Active
<1>5. Apart /\ NotFailed /\ Ceiling
  BY <1>1, <1>2, <1>4, AttemptsAssumption DEF Apart, NotFailed, Ceiling, Below
<1>6. Once
  BY <1>1, <1>2 DEF Once
<1> QED BY <1>3, <1>5, <1>6 DEF Solo

LEMMA SoloStep ==
    ASSUME Deployed, TypeOK, Held, Solo, [Next]_vars
    PROVE  Solo'
<1>1. CASE \E e \in Episode : Enqueue(e)
  BY <1>1, EnqueueSolo
<1>2. CASE \/ \E e \in Episode : Age(e)
           \/ UNCHANGED vars
  BY <1>2, SoloSame DEF Age, vars, tableVars, rowVars, workVars
<1>3. CASE \E s \in Sweeper, e \in Episode : Work(s, e) \/ LateMarkDone(s, e)
  BY <1>3, WorkSolo, LateSolo
<1>4. ASSUME NEW p \in Process, ReapSelect(p) \/ Crash(p) \/ Step(p)
      PROVE  Solo'
  <2>1. pc[p] # "manual"
    BY DEF Process, Deployed, Solo, Roles
  <2> QED
    BY <1>4, <2>1, SelectSolo, ReapSolo, ClaimSolo, RepairSolo, ReplaySolo, CrashSolo
    DEF Step, Claim, Manual, ManualRequeue, ManualRefused
<1> QED
  BY <1>1, <1>2, <1>3, <1>4 DEF Next, Deployed

(* What the daemon's own processes keep between any two steps.             *)
THEOREM SoloAlways == ASSUME Deployed PROVE Spec => []Solo
<1>1. Init => Solo
  BY InitSolo
<1>2. TypeOK /\ Held /\ Solo /\ [Next]_vars => Solo'
  BY SoloStep
<1> QED
  BY <1>1, <1>2, TypeCorrect, HeldAlways, PTL DEF Spec

(* In the daemon content enters the graph twice only after an ingestion    *)
(* whose outcome was lost: no reap, repair or replay of the dead-letter    *)
(* queue, and no left-over thread, leads to a second add_episode.          *)
THEOREM NoSpuriousDuplicateAlways ==
    ASSUME Deployed PROVE Spec => []NoSpuriousDuplicate
<1>1. Solo => NoSpuriousDuplicate
  BY DEF Solo, Once, NoSpuriousDuplicate
<1> QED
  BY <1>1, SoloAlways, PTL

(* In the daemon a queued row has fewer attempts than the larger of the    *)
(* two limits, whatever both are set to: the sweep requeues by the default *)
(* and the dream by the setting, each from counts it read earlier.         *)
THEOREM QueuedBelowCeilingAlways ==
    ASSUME Deployed PROVE Spec => []QueuedBelowCeiling
<1>1. Solo => QueuedBelowCeiling
  BY DEF Solo, Ceiling, Below, QueuedBelowCeiling
<1> QED
  BY <1>1, SoloAlways, PTL
=============================================================================
