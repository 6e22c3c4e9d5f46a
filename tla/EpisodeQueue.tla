---------------------------- MODULE EpisodeQueue ----------------------------
(***************************************************************************)
(* The life of an episode row: the processes that claim, ingest, reap,     *)
(* retry and replay the rows of one queue database.                        *)
(*                                                                         *)
(*  - a sweeper runs run_cron_sweep (the daemon's cron loop, or a CLI      *)
(*    sweep): reap stuck rows, claim a batch, process it concurrently;     *)
(*  - a dreamer runs phase 4 of run_dream: requeue failed and aborted      *)
(*    rows, then replay open dead-letter rows;                             *)
(*  - an operator runs `queue reap` and `queue retry` (CLI or MCP tool).   *)
(*                                                                         *)
(* Each of them has its own EpisodeQueue object, so the asyncio lock of    *)
(* one excludes none of the others.  What SQLite gives is modelled: every  *)
(* SELECT sees the committed rows and is over when its rows are fetched;   *)
(* a write transaction opens at the first DML statement and holds the      *)
(* write lock (variable writer) until it commits; a SAVEPOINT outside a    *)
(* transaction is one, and commits when it is released.  While a           *)
(* transaction is open nobody else takes a step: another writer waits,     *)
(* and a reader sees the rows as they were before it, so it might as well  *)
(* have read before.  A crash inside a transaction rolls it back, which is *)
(* a crash before it.                                                      *)
(***************************************************************************)
EXTENDS EpisodeTable

CONSTANTS
    Sweeper, Dreamer, Operator,  \* the processes, by role
    Gates,         \* the dedup modes of the writers that insert rows
    BatchLimit,    \* pipeline.drain_batch_size
    Concurrency,   \* pipeline.worker_concurrency
    ReapLimit,     \* retry_policy.reap_limit
    MaxLate,       \* bound on the mark_done threads outliving their sweep
    Raised,        \* the errors add_episode raises
    ReplayClasses, \* the errors dlq_replay.classes matches
    Backstop,      \* pipeline.dedup.backstop.enabled
    MaxCrashes,    \* bound on the number of process crashes
    MaxRows,       \* bound on the number of rows that are inserted
    NoProcess      \* nobody holds the SQLite write lock

Process == Sweeper \cup Dreamer \cup Operator

ASSUME ProcessAssumption ==
    /\ Sweeper \cap Dreamer = {} /\ Sweeper \cap Operator = {}
    /\ Dreamer \cap Operator = {}
    /\ NoProcess \notin Process
ASSUME ParameterAssumption ==
    /\ Gates \subseteq Gate
    /\ BatchLimit \in Nat \ {0} /\ Concurrency \in Nat \ {0}
    /\ ReapLimit \in Nat \ {0} /\ MaxCrashes \in Nat /\ MaxLate \in Nat
    /\ MaxRows \in Nat
    /\ Raised \subseteq Error \ {"None"}
    /\ ReplayClasses \subseteq Error /\ Backstop \in BOOLEAN

VARIABLES
    pc,        \* where each process is
    picked,    \* the rows <<id, attempt_count>> its last SELECT returned
    cur,       \* the row between two statements about the same row
    writer,    \* the process whose write transaction is open
    task,      \* per sweeper and episode, the coroutine processing it
    late,      \* mark_done threads left running by a cancelled wait_for
    delivered, \* history: what add_episode did for this episode so far
    crashes    \* how many crashes happened

procVars == <<pc, picked, cur, writer>>
workVars == <<task, late, delivered>>
vars == <<tableVars, procVars, workVars, crashes>>

Pc == {"idle", "reap", "reapSkip", "claim", "claimed", "work",
       "repair", "repairRow", "replay", "replayRow", "manual", "close"}
TaskState == {"none", "waiting", "running", "skipping", "marking",
              "failing", "aborting", "burying"}
Task == [st : TaskState, n : Nat, err : Error]
NoTask == [st |-> "none", n |-> 0, err |-> "None"]

(* "absent": never ingested; "present": ingested, and not known to be lost *)
(* on the way back; "lost": the ingestion happened but its process died or *)
(* gave up before it could record it; "duplicate": ingested again although *)
(* nothing was lost.                                                       *)
Delivered == {"absent", "present", "lost", "duplicate"}

ProcTypeOK ==
    /\ pc \in [Process -> Pc]
    /\ picked \in [Process -> SUBSET (Episode \X Nat)]
    /\ cur \in [Process -> Episode \cup {NoEpisode}]
    /\ writer \in Process \cup {NoProcess}

WorkTypeOK ==
    /\ task \in [Sweeper -> [Episode -> Task]]
    /\ late \in [Sweeper -> SUBSET Episode]
    /\ delivered \in [Episode -> Delivered]

TypeOK ==
    /\ TableTypeOK /\ ProcTypeOK /\ WorkTypeOK
    /\ crashes \in 0..MaxCrashes

Init ==
    /\ TableInit
    /\ pc = [p \in Process |-> "idle"]
    /\ picked = [p \in Process |-> {}]
    /\ cur = [p \in Process |-> NoEpisode]
    /\ writer = NoProcess
    /\ task = [s \in Sweeper |-> [e \in Episode |-> NoTask]]
    /\ late = [s \in Sweeper |-> {}]
    /\ delivered = [e \in Episode |-> "absent"]
    /\ crashes = 0

-----------------------------------------------------------------------------
(* Control of a process that works through the rows of a SELECT.           *)

Free(p) == writer \in {NoProcess, p}

(* p has fetched rows and continues at l, with no transaction open.        *)
Fetch(p, rows, l) ==
    /\ picked' = [picked EXCEPT ![p] = rows]
    /\ pc' = [pc EXCEPT ![p] = l]
    /\ UNCHANGED <<cur, writer>>

(* p is done with row r; it stays at l for the next one, and after the     *)
(* last one commits and goes on at next.  tx is the lock it holds if rows  *)
(* remain: p after a plain DML, writer after a released SAVEPOINT.         *)
Consume(p, r, l, next, tx) ==
    LET rest == picked[p] \ {r}
    IN  /\ picked' = [picked EXCEPT ![p] = rest]
        /\ pc' = [pc EXCEPT ![p] = IF rest = {} THEN next ELSE l]
        /\ writer' = IF rest = {} THEN NoProcess ELSE tx
        /\ cur' = [cur EXCEPT ![p] = NoEpisode]

(* p goes on at l about row r, whose second statement is still to come.    *)
Hold(p, r, l) ==
    /\ picked' = [picked EXCEPT ![p] = @ \ {r}]
    /\ pc' = [pc EXCEPT ![p] = l]
    /\ cur' = [cur EXCEPT ![p] = r[1]]
    /\ UNCHANGED writer

(* The branch taken when the stuck reaper returns: a sweep claims, the     *)
(* operator's `queue reap` repairs.                                        *)
AfterReap(p) == IF p \in Sweeper THEN "claim" ELSE "repair"
AfterRepair(p) == IF p \in Dreamer THEN "replay" ELSE "idle"

(* A LIMIT clause: at most n of the rows, all of them if they are fewer.   *)
(* Which ones, the ORDER BY decides; here it is left open.                 *)
LimitTo(S, n) ==
    {T \in SUBSET S : Cardinality(T) = IF Cardinality(S) < n THEN Cardinality(S) ELSE n}

-----------------------------------------------------------------------------
(* Producers.  The two-layer gate has a module of its own (DedupGate); of  *)
(* it only the effect on the table remains: a row appears, or the index    *)
(* refuses it.                                                             *)
Enqueue(e) ==
    /\ Cardinality({f \in Episode : status[f] # "none"}) < MaxRows
    /\ \E g \in Gates :
        /\ ~InsertConflicts(e, g)
        /\ Insert(e, g)
        /\ UNCHANGED <<procVars, workVars, crashes>>

(* Time passes: the claim of row e gets older than the reap timeout.       *)
Age(e) ==
    /\ status[e] = "processing"
    /\ ~aged[e]
    /\ aged' = [aged EXCEPT ![e] = TRUE]
    /\ UNCHANGED <<status, gate, attempts, lastError, dlqVars>>
    /\ UNCHANGED <<procVars, workVars, crashes>>
-----------------------------------------------------------------------------
(* reap_stuck_processing, by a sweep or by the operator.                   *)

(* max_attempts: a sweep leaves it at the default, `queue reap` passes the *)
(* setting.                                                                *)
ReapCeiling(p) == IF p \in Operator THEN MaxAttempts ELSE DefaultAttempts

(* Mutant: rows without an attempt left are not selected.                  *)
ReapSelect_BelowCeiling(p) ==
    /\ p \in Sweeper \cup Operator
    /\ pc[p] = "idle"
    /\ LET stuck == {e \in Episode : /\ status[e] = "processing" /\ aged[e]
                                     /\ attempts[e] + 1 < ReapCeiling(p)}
       IN  Fetch(p, {<<e, attempts[e]>> : e \in stuck},
                 IF stuck = {} THEN AfterReap(p) ELSE "reap")
    /\ UNCHANGED <<tableVars, workVars, crashes>>

ReapSelect(p) ==
    /\ p \in Sweeper \cup Operator
    /\ pc[p] = "idle"
    /\ LET stuck == {e \in Episode : status[e] = "processing" /\ aged[e]}
       IN  Fetch(p, {<<e, attempts[e]>> : e \in stuck},
                 IF stuck = {} THEN AfterReap(p) ELSE "reap")
    /\ UNCHANGED <<tableVars, workVars, crashes>>

(* The attempts are used up: the row is dead-lettered.                     *)
ReapAbort(p) ==
    /\ pc[p] = "reap"
    /\ \E r \in picked[p] :
        /\ r[2] + 1 >= ReapCeiling(p)
        /\ MarkAbortedRow(r[1], r[2], "Transient")
        /\ Consume(p, r, "reap", AfterReap(p), p)
    /\ UNCHANGED <<workVars, crashes>>

(* SAVEPOINT, UPDATE, RELEASE: the row goes back to the queue.             *)
ReapRequeue(p) ==
    /\ pc[p] = "reap"
    /\ \E r \in picked[p] :
        /\ r[2] + 1 < ReapCeiling(p)
        /\ ~Conflicts(r[1])
        /\ UpdateRow(r[1], "queued", r[2] + 1, lastError[r[1]])
        /\ Consume(p, r, "reap", AfterReap(p), writer)
    /\ UNCHANGED <<dlqVars, workVars, crashes>>

(* The index refuses the UPDATE: it is rolled back, and the SAVEPOINT is   *)
(* released before the row is marked.                                      *)
ReapConflict(p) ==
    /\ pc[p] = "reap"
    /\ \E r \in picked[p] :
        /\ r[2] + 1 < ReapCeiling(p)
        /\ Conflicts(r[1])
        /\ Hold(p, r, "reapSkip")
    /\ UNCHANGED <<tableVars, workVars, crashes>>

ReapSkip(p) ==
    /\ pc[p] = "reapSkip"
    /\ MarkSkippedRow(cur[p])
    /\ Consume(p, <<cur[p], 0>>, "reap", AfterReap(p), p)
    /\ UNCHANGED <<workVars, crashes>>

-----------------------------------------------------------------------------
(* claim_next_batch: a SELECT, then an UPDATE by id alone.                 *)

(* Mutant: rows that were tried before are not claimed.                    *)
ClaimSelect_FreshOnly(s) ==
    /\ s \in Sweeper
    /\ pc[s] = "claim"
    /\ \E S \in LimitTo({e \in Episode : status[e] = "queued" /\ attempts[e] = 0},
                       BatchLimit) :
        Fetch(s, {<<e, attempts[e]>> : e \in S}, IF S = {} THEN "idle" ELSE "claimed")
    /\ UNCHANGED <<tableVars, workVars, crashes>>

ClaimSelect(s) ==
    /\ s \in Sweeper
    /\ pc[s] = "claim"
    /\ \E S \in LimitTo({e \in Episode : status[e] = "queued"}, BatchLimit) :
        Fetch(s, {<<e, attempts[e]>> : e \in S}, IF S = {} THEN "idle" ELSE "claimed")
    /\ UNCHANGED <<tableVars, workVars, crashes>>

PickedIds(p) == {r[1] : r \in picked[p]}

(* Taking rows S out of whatever status they have to processing violates   *)
(* the index if two enforcing twins would then both be active.             *)
ClaimConflicts(S) ==
    \E e \in S : gate[e] = "enforce" /\
        \E f \in Twins(e) : gate[f] = "enforce" /\ (f \in S \/ status[f] \in Active)

(* The records of the batch, with the attempt_count the SELECT saw.  A     *)
(* coroutine checks the sweep's soft deadline before anything else: those  *)
(* in D found it passed and only mark their row failed.                    *)
ClaimUpdate(s) ==
    /\ pc[s] = "claimed"
    /\ ~ClaimConflicts(PickedIds(s))
    /\ status' = [e \in Episode |-> IF e \in PickedIds(s) THEN "processing" ELSE status[e]]
    /\ aged' = [e \in Episode |-> aged[e] /\ e \notin PickedIds(s)]
    /\ \E D \in SUBSET PickedIds(s) :
        task' = [task EXCEPT ![s] = [e \in Episode |->
            IF e \notin PickedIds(s) THEN NoTask
            ELSE [st |-> IF e \in D THEN "failing" ELSE "waiting",
                  n |-> (CHOOSE r \in picked[s] : r[1] = e)[2],
                  err |-> IF e \in D THEN "Transient" ELSE "None"]]]
    /\ Fetch(s, {}, "work")
    /\ UNCHANGED <<gate, attempts, lastError, dlqVars, late, delivered, crashes>>

(* The UPDATE raises IntegrityError: the sweep ends without a batch.       *)
ClaimRefused(s) ==
    /\ pc[s] = "claimed"
    /\ ClaimConflicts(PickedIds(s))
    /\ Fetch(s, {}, "idle")
    /\ UNCHANGED <<tableVars, workVars, crashes>>

(* asyncio.gather returns when every coroutine of the batch has.           *)
SweepEnd(s) ==
    /\ s \in Sweeper
    /\ pc[s] = "work"
    /\ \A e \in Episode : task[s][e].st = "none"
    /\ Fetch(s, {}, "idle")
    /\ UNCHANGED <<tableVars, workVars, crashes>>
-----------------------------------------------------------------------------
(* EpisodeWorker.process_record, one coroutine per claimed row.            *)

InState(s, e, st) == s \in Sweeper /\ task[s][e].st = st

SetTask(s, e, t) == task' = [task EXCEPT ![s][e] = t]

Goto(s, e, st) == SetTask(s, e, [task[s][e] EXCEPT !.st = st])

(* should_retry decides with the attempt_count of the claimed record.      *)
Raise(s, e, err) ==
    SetTask(s, e, [task[s][e] EXCEPT
        !.st = IF ShouldRetry(task[s][e].n, err) THEN "failing" ELSE "aborting",
        !.err = err])

(* A free slot of the semaphore.                                           *)
Slot(s) == Cardinality({e \in Episode :
                task[s][e].st \notin {"none", "waiting"}}) < Concurrency

(* Mutant: the backstop's query forgets the status.                        *)
Ingested_AnyStatus(e) == {f \in Twins(e) \cup {e} : status[f] # "none"}

(* find_ingested_duplicate: the done rows with the content of e.           *)
Ingested(e) == {f \in Twins(e) \cup {e} : status[f] = "done"}

(* The backstop finds no ingested row with this content, or finds this one.*)
Start(s, e) ==
    /\ InState(s, e, "waiting") /\ Slot(s)
    /\ Backstop => Ingested(e) = {} \/ e \in Ingested(e)
    /\ Goto(s, e, "running")
    /\ UNCHANGED <<tableVars, procVars, late, delivered, crashes>>

(* The backstop finds another row: the newest one, which is left open.     *)
BackstopHit(s, e) ==
    /\ InState(s, e, "waiting") /\ Slot(s)
    /\ Backstop
    /\ Ingested(e) \ {e} # {}
    /\ Goto(s, e, "skipping")
    /\ UNCHANGED <<tableVars, procVars, late, delivered, crashes>>

MarkSkipped(s, e) ==
    /\ InState(s, e, "skipping")
    /\ MarkSkippedRow(e)
    /\ SetTask(s, e, NoTask)
    /\ UNCHANGED <<procVars, late, delivered, crashes>>

Deliver(d) == CASE d \in {"absent", "lost"} -> "present"
                [] OTHER -> "duplicate"
Lose(d) == IF d = "present" THEN "lost" ELSE d

(* A row without content is marked done, and add_episode is not called.    *)
PassBlank(s, e) ==
    /\ InState(s, e, "running") /\ e \in Blank
    /\ Goto(s, e, "marking")
    /\ UNCHANGED <<tableVars, procVars, late, delivered, crashes>>

(* add_episode returns: the content is in the graph.                       *)
AddEpisode(s, e) ==
    /\ InState(s, e, "running") /\ e \notin Blank
    /\ delivered' = [delivered EXCEPT ![e] = Deliver(@)]
    /\ Goto(s, e, "marking")
    /\ UNCHANGED <<tableVars, procVars, late, crashes>>

AddEpisodeFails(s, e) ==
    /\ InState(s, e, "running") /\ e \notin Blank
    /\ \E err \in Raised : Raise(s, e, err)
    /\ UNCHANGED <<tableVars, procVars, late, delivered, crashes>>

(* Mutant: a cancelled ingestion is taken for a finished one.              *)
Timeout_AsSuccess(s, e) ==
    /\ InState(s, e, "running") /\ e \notin Blank
    /\ \E d \in {delivered[e], Lose(Deliver(delivered[e]))} :
        delivered' = [delivered EXCEPT ![e] = d]
    /\ Goto(s, e, "marking")
    /\ UNCHANGED <<tableVars, procVars, late, crashes>>

(* wait_for cancels add_episode: the graph may or may not have the content.*)
Timeout(s, e) ==
    /\ InState(s, e, "running") /\ e \notin Blank
    /\ \E d \in {delivered[e], Lose(Deliver(delivered[e]))} :
        delivered' = [delivered EXCEPT ![e] = d]
    /\ Raise(s, e, "Transient")
    /\ UNCHANGED <<tableVars, procVars, late, crashes>>

MarkDone(s, e) ==
    /\ InState(s, e, "marking")
    /\ MarkDoneRow(e)
    /\ SetTask(s, e, NoTask)
    /\ UNCHANGED <<procVars, late, delivered, crashes>>

(* wait_for cancels mark_done, or its transaction times out on the lock:   *)
(* the write is never made, or its thread outlives the cancellation.       *)
MarkDoneCancelled(s, e) ==
    /\ InState(s, e, "marking")
    /\ delivered' = [delivered EXCEPT ![e] = Lose(@)]
    /\ Raise(s, e, "Transient")
    /\ \/ UNCHANGED late
       \/ /\ Cardinality(late[s]) < MaxLate
          /\ late' = [late EXCEPT ![s] = @ \cup {e}]
    /\ UNCHANGED <<tableVars, procVars, crashes>>

LateMarkDone(s, e) ==
    /\ s \in Sweeper /\ e \in late[s]
    /\ MarkDoneRow(e)
    /\ late' = [late EXCEPT ![s] = @ \ {e}]
    /\ UNCHANGED <<procVars, task, delivered, crashes>>

MarkFailed(s, e) ==
    /\ InState(s, e, "failing")
    /\ MarkFailedRow(e, task[s][e].err)
    /\ SetTask(s, e, NoTask)
    /\ UNCHANGED <<procVars, late, delivered, crashes>>

(* mark_aborted reads attempt_count, then writes it back incremented.      *)
AbortSelect(s, e) ==
    /\ InState(s, e, "aborting")
    /\ SetTask(s, e, [task[s][e] EXCEPT !.st = "burying", !.n = attempts[e]])
    /\ UNCHANGED <<tableVars, procVars, late, delivered, crashes>>

MarkAborted(s, e) ==
    /\ InState(s, e, "burying")
    /\ MarkAbortedRow(e, task[s][e].n, task[s][e].err)
    /\ SetTask(s, e, NoTask)
    /\ UNCHANGED <<procVars, late, delivered, crashes>>

(* The status write itself raises (database locked): gather swallows it,   *)
(* and the row stays processing; the backstop swallows it and goes on.     *)
WriteFails(s, e) ==
    /\ s \in Sweeper
    /\ \/ /\ task[s][e].st \in {"failing", "aborting", "burying"}
          /\ SetTask(s, e, NoTask)
       \/ /\ task[s][e].st = "skipping"
          /\ Goto(s, e, "running")
    /\ UNCHANGED <<tableVars, procVars, late, delivered, crashes>>
-----------------------------------------------------------------------------
(* reap_failed_or_aborted, by the dream or by the operator.                *)

(* Mutant: the policy without its attempt ceiling.                         *)
Repairable_NoCeiling ==
    {e \in Episode : /\ status[e] \in {"failed", "aborted"}
                     /\ PolicyAllows(lastError[e])
                     /\ ~(status[e] = "failed" /\ dlq[e] = "open")}

(* RetryPolicy.max_attempts: the setting, and 3 where it is 0.             *)
RepairLimit == IF MaxAttempts = 0 THEN DefaultAttempts ELSE MaxAttempts

Repairable ==
    {e \in Episode : /\ status[e] \in {"failed", "aborted"}
                     /\ PolicyAllows(lastError[e])
                     /\ RespectCeiling => attempts[e] < RepairLimit
                     /\ ~(status[e] = "failed" /\ dlq[e] = "open")}

RepairSelect(p) ==
    /\ \/ p \in Dreamer /\ pc[p] = "idle"
       \/ pc[p] = "repair"
    /\ \E S \in LimitTo(Repairable, ReapLimit) :
        Fetch(p, {<<e, 0>> : e \in S},
              IF S = {} THEN AfterRepair(p) ELSE "repairRow")
    /\ UNCHANGED <<tableVars, workVars, crashes>>

(* requeue_guarded by id alone; attempt_count and last_error are kept.     *)
RepairRow(p) ==
    /\ pc[p] = "repairRow"
    /\ \E r \in picked[p] :
        /\ IF Conflicts(r[1])
           THEN UNCHANGED rowVars
           ELSE UpdateRow(r[1], "queued", attempts[r[1]], lastError[r[1]])
        /\ Consume(p, r, "repairRow", AfterRepair(p), writer)
    /\ UNCHANGED <<gate, dlqVars, workVars, crashes>>

-----------------------------------------------------------------------------
(* replay_dlq_batch, by the dream.  min_age_sec holds back any of them.    *)

Replayable ==
    {e \in Episode : /\ dlq[e] = "open"
                     /\ dlqError[e] \in ReplayClasses
                     /\ PolicyAllows(dlqError[e])}

ReplaySelect(d) ==
    /\ pc[d] = "replay"
    /\ \E S \in SUBSET Replayable :
        Fetch(d, {<<e, 0>> : e \in S}, IF S = {} THEN "idle" ELSE "replayRow")
    /\ UNCHANGED <<tableVars, workVars, crashes>>

(* Mutant: the UPDATE without AND status != 'done'.                        *)
ReplayRequeue_EvenDone(d) ==
    /\ pc[d] = "replayRow"
    /\ \E r \in picked[d] :
        /\ ~Conflicts(r[1])
        /\ UpdateRow(r[1], "queued", 0, "None")
        /\ Hold(d, r, "close")
    /\ UNCHANGED <<dlqVars, workVars, crashes>>

(* UPDATE ... WHERE id = e AND status != 'done' changes the row and is     *)
(* committed with its SAVEPOINT, unless an earlier row left a transaction. *)
ReplayRequeue(d) ==
    /\ pc[d] = "replayRow"
    /\ \E r \in picked[d] :
        /\ status[r[1]] # "done"
        /\ ~Conflicts(r[1])
        /\ UpdateRow(r[1], "queued", 0, "None")
        /\ Hold(d, r, "close")
    /\ UNCHANGED <<dlqVars, workVars, crashes>>

(* The index refuses it: the row stays dead and its DLQ row open.          *)
ReplayConflict(d) ==
    /\ pc[d] = "replayRow"
    /\ \E r \in picked[d] :
        /\ status[r[1]] # "done"
        /\ Conflicts(r[1])
        /\ Consume(d, r, "replayRow", "idle", writer)
    /\ UNCHANGED <<tableVars, workVars, crashes>>

(* It has succeeded in the meantime: only its DLQ row is closed.           *)
ReplayDone(d) ==
    /\ pc[d] = "replayRow"
    /\ \E r \in picked[d] :
        /\ status[r[1]] = "done"
        /\ CloseDlq(r[1])
        /\ Consume(d, r, "replayRow", "idle", d)
    /\ UNCHANGED <<gate, rowVars, workVars, crashes>>

(* The dead-letter row is marked recovered after the requeue.              *)
ReplayClose(p) ==
    /\ pc[p] = "close"
    /\ CloseDlq(cur[p])
    /\ Consume(p, <<cur[p], 0>>, "replayRow", "idle", p)
    /\ UNCHANGED <<gate, rowVars, workVars, crashes>>

-----------------------------------------------------------------------------
(* replay_dlq_episode, by the operator: the dead-letter row is looked up   *)
(* whether it is open or not, and the episode requeued by id alone.        *)

ManualSelect(o, e) ==
    /\ o \in Operator /\ pc[o] = "idle"
    /\ dlq[e] # "absent"
    /\ PolicyAllows(dlqError[e])
    /\ Fetch(o, {<<e, 0>>}, "manual")
    /\ UNCHANGED <<tableVars, workVars, crashes>>

ManualRequeue(o) ==
    /\ pc[o] = "manual"
    /\ \E r \in picked[o] :
        /\ ~Conflicts(r[1])
        /\ UpdateRow(r[1], "queued", 0, "None")
        /\ Hold(o, r, "close")
    /\ UNCHANGED <<dlqVars, workVars, crashes>>

ManualRefused(o) ==
    /\ pc[o] = "manual"
    /\ \E r \in picked[o] : Conflicts(r[1])
    /\ Fetch(o, {}, "idle")
    /\ UNCHANGED <<tableVars, workVars, crashes>>
-----------------------------------------------------------------------------
(* A process dies.  Its coroutines and threads die with it; what an        *)
(* add_episode under way did to the graph is not known.                    *)
Crash(p) ==
    /\ crashes < MaxCrashes
    /\ \/ pc[p] # "idle"
       \/ p \in Sweeper /\ late[p] # {}
    /\ writer # p
    /\ crashes' = crashes + 1
    /\ pc' = [pc EXCEPT ![p] = "idle"]
    /\ picked' = [picked EXCEPT ![p] = {}]
    /\ cur' = [cur EXCEPT ![p] = NoEpisode]
    /\ IF p \in Sweeper
       THEN /\ task' = [task EXCEPT ![p] = [e \in Episode |-> NoTask]]
            /\ late' = [late EXCEPT ![p] = {}]
            /\ \E L \in SUBSET {e \in Episode \ Blank : task[p][e].st = "running"} :
                delivered' = [e \in Episode |->
                    CASE e \in L -> Lose(Deliver(delivered[e]))
                      [] task[p][e].st = "marking" -> Lose(delivered[e])
                      [] OTHER -> delivered[e]]
       ELSE UNCHANGED workVars
    /\ UNCHANGED <<tableVars, writer>>

Reap(p) == ReapAbort(p) \/ ReapRequeue(p) \/ ReapConflict(p) \/ ReapSkip(p)
Claim(s) == ClaimUpdate(s) \/ ClaimRefused(s)
Replay(d) == ReplayRequeue(d) \/ ReplayConflict(d) \/ ReplayDone(d) \/ ReplayClose(d)
Manual(o) == ManualRequeue(o) \/ ManualRefused(o)

(* What the code of one coroutine does next.                               *)
Work(s, e) ==
    \/ Start(s, e) \/ BackstopHit(s, e) \/ MarkSkipped(s, e)
    \/ PassBlank(s, e) \/ AddEpisode(s, e) \/ AddEpisodeFails(s, e) \/ Timeout(s, e)
    \/ MarkDone(s, e) \/ MarkDoneCancelled(s, e)
    \/ MarkFailed(s, e) \/ AbortSelect(s, e) \/ MarkAborted(s, e)
    \/ WriteFails(s, e)

(* What a process does on its own once it has started, one pass.           *)
Step(p) ==
    \/ Reap(p) \/ ClaimSelect(p) \/ Claim(p) \/ SweepEnd(p)
    \/ RepairSelect(p) \/ RepairRow(p) \/ ReplaySelect(p) \/ Replay(p) \/ Manual(p)

Next ==
    \/ /\ writer = NoProcess
       /\ \/ \E e \in Episode : Enqueue(e) \/ Age(e)
          \/ \E s \in Sweeper, e \in Episode : Work(s, e) \/ LateMarkDone(s, e)
          \/ \E o \in Operator, e \in Episode : ManualSelect(o, e)
          \/ \E p \in Process : ReapSelect(p) \/ Crash(p)
    \/ \E p \in Process : Free(p) /\ Step(p)

Spec == Init /\ [][Next]_vars

(* A running event loop makes progress: time passes, every coroutine that  *)
(* can go on does, and the cron loop starts a sweep again and again.       *)
(* Nothing is assumed of producers, operators, dreams, crashes, or which   *)
(* way an ingestion ends.                                                  *)
Fairness ==
    /\ \A e \in Episode : WF_vars(writer = NoProcess /\ Age(e))
    /\ \A s \in Sweeper :
        /\ WF_vars(writer = NoProcess /\ ReapSelect(s))
        /\ \A e \in Episode : WF_vars(writer = NoProcess /\ Work(s, e))
    /\ \A p \in Process : WF_vars(Free(p) /\ pc[p] # "idle" /\ Step(p))

FairSpec == Spec /\ Fairness

-----------------------------------------------------------------------------
(* A row that has content reaches done only after add_episode returned for *)
(* it, whichever of the racing processes writes the status, and however    *)
(* late: the branch for empty content is the only way around add_episode.  *)
DoneMeansDelivered ==
    \A e \in Episode \ Blank : status[e] = "done" => delivered[e] # "absent"

(* A skip never drops content: if a row was skipped, its content is in the *)
(* graph, or another row with it can still be ingested, retried or seen in *)
(* the DLQ - although the twin it was skipped for may be gone by then.     *)
(* Not so when a row with its hash has a payload_json that cannot be read: *)
(* that row is done, and the backstop takes it for ingested.               *)
SkipLosesNothing ==
    \A e \in Episode :
        /\ status[e] = "skipped_duplicate"
        /\ (Twins(e) \cup {e}) \cap Blank = {}
        =>
        \/ \E f \in Twins(e) \cup {e} : delivered[f] # "absent"
        \/ \E f \in Twins(e) : status[f] \notin {"none", "skipped_duplicate"}

(* With one sweeper, content enters the graph a second time only after an  *)
(* ingestion whose outcome was lost (a crash, a timeout, a failed write):  *)
(* delivery is at least once, and no requeue path duplicates it by itself. *)
NoSpuriousDuplicate == \A e \in Episode : delivered[e] # "duplicate"

(* With one sweeper and one dream, the two limits together bound the       *)
(* attempts of a row in the queue, although each path checks only its own, *)
(* against a count it read earlier: a sweep requeues below the default, a  *)
(* dream below the setting, as long as it respects the ceiling at all.     *)
QueuedBelowCeiling ==
    RespectCeiling =>
        \A e \in Episode : status[e] = "queued" =>
            attempts[e] < DefaultAttempts \/ attempts[e] < RepairLimit

(* No row is stuck: a claimed row leaves processing, even when its worker  *)
(* has died or failed to write, because a later sweep reaps it.            *)
ProcessingResolves ==
    \A e \in Episode : (status[e] = "processing") ~> (status[e] # "processing")

(* Every queued row is claimed (the batch limit is not exceeded here).     *)
QueuedIsClaimed ==
    \A e \in Episode : (status[e] = "queued") ~> (status[e] # "queued")

(* What the processes hold between two statements is still true when they  *)
(* use it, as far as it must be: the row exists, and whoever is going to   *)
(* write done, a left-over thread included, has ingested the content, if   *)
(* there is any.                                                           *)
Passed(e) == e \in Blank \/ delivered[e] # "absent"

HeldByProcess ==
    \A p \in Process :
        /\ \A r \in picked[p] : status[r[1]] # "none"
        /\ cur[p] # NoEpisode => status[cur[p]] # "none"
        /\ pc[p] \in {"reapSkip", "close"} => cur[p] # NoEpisode

HeldByWork ==
    \A s \in Sweeper, e \in Episode :
        /\ task[s][e].st # "none" => status[e] # "none"
        /\ task[s][e].st = "marking" => Passed(e)
        /\ e \in late[s] => status[e] # "none" /\ Passed(e)

HeldByDlq == \A e \in Episode : dlq[e] # "absent" => status[e] # "none"

Held == HeldByProcess /\ HeldByWork /\ HeldByDlq

(* The queue implements the row machine of EpisodeLifecycle: whatever      *)
(* stale rows the processes hold, every transaction they commit is one of  *)
(* its steps, and changes no other row.                                    *)
L == INSTANCE EpisodeLifecycle
        WITH ingested <- {e \in Episode : delivered[e] # "absent"}

ImplementsLifecycle == L!Spec

-----------------------------------------------------------------------------
(* What comments and docstrings of the code claim, and the code refutes.   *)

(* mark_skipped_duplicate: done "means 'this content WAS ingested'".       *)
DoneIsIngested == \A e \in Episode : status[e] = "done" => delivered[e] # "absent"

(* should_retry: "whether an episode should be retried or sent to DLQ":    *)
(* a failed row has an attempt left, or it has been sent there.            *)
FailedIsNotStranded ==
    \A e \in Episode : status[e] = "failed" =>
        (RespectCeiling => attempts[e] < RepairLimit) \/ dlq[e] # "absent"

(* claim_next_batch: "Atomically claim next batch of queued episodes".     *)
ClaimIsExclusive ==
    \A e \in Episode, s, t \in Sweeper :
        s # t => task[s][e].st = "none" \/ task[t][e].st = "none"

(* replay_dlq_batch: "Never requeue an episode that already succeeded."    *)
(* Here of both replays: the batch's UPDATE and the operator's.            *)
ReplayKeepsDone ==
    [][\A e \in Episode, p \in Process :
        status[e] = "done" /\ pc'[p] = "close" /\ cur'[p] = e
            => status'[e] = "done"]_vars

(* reap_failed_or_aborted: "Rows whose last_error carries a permanent      *)
(* upstream code are never requeued by ANY path."                          *)
PermanentIsNotRequeued ==
    [][\A e \in Episode : status[e] = "failed" /\ lastError[e] = "Permanent"
            => status'[e] # "queued"]_vars

(* mark_skipped_duplicate: "The row is TERMINAL: it is never claimed       *)
(* again".                                                                 *)
SkippedIsTerminal ==
    [][\A e \in Episode : status[e] = "skipped_duplicate" =>
            status'[e] = "skipped_duplicate"]_vars

(* reap_failed_or_aborted: "mark_aborted writes a dead_letter row with     *)
(* recovered_at IS NULL, so every aborted episode has an open DLQ row".    *)
AbortedHasOpenDlq ==
    \A e \in Episode : status[e] = "aborted" => dlq[e] = "open"
=============================================================================
