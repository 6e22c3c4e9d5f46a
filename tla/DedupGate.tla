----------------------------- MODULE DedupGate ------------------------------
(***************************************************************************)
(* The enqueue gate: how the processes that write episodes keep duplicates *)
(* out of the queue, and what they leave in the dedup_events ledger.       *)
(*                                                                         *)
(*  - an MCP writer (the stdio server, or the python a hook spawns) runs   *)
(*    EpisodeQueue.enqueue: its calls take turns under the asyncio lock of *)
(*    its own process, and another process does not see that lock;         *)
(*  - the daemon runs EpisodeQueueAdapter.enqueue_guarded for every        *)
(*    POST /episodes: no lock at all.                                      *)
(*                                                                         *)
(* Both look for a row in flight with the same hash, and insert; between   *)
(* the two lies at least one await, and the UNIQUE partial index is what   *)
(* decides then.  Each step below is one statement run in a thread, that   *)
(* is one SQLite transaction: the lookup of the holder after a failed      *)
(* INSERT belongs to it, because the failed statement leaves the           *)
(* transaction open and with it the write lock.                            *)
(*                                                                         *)
(* What the workers do to the rows is IntakeGate's RowsMove, which every   *)
(* step of EpisodeLifecycle but the insertion is (LifecycleIsGated).       *)
(***************************************************************************)
EXTENDS Naturals, FiniteSets

CONSTANTS
    Episode,    \* the episode ids (uuid4), one for each call
    PayloadOf,  \* the canonical hash of each call's content
    NoEpisode,  \* stands for None
    Mcp,        \* the processes with an EpisodeQueue
    Daemon,     \* the processes with an EpisodeQueueAdapter
    Modes,      \* the values of pipeline.dedup.mode over time
    MaxCrashes, \* bound on the number of crashes
    MaxFailures \* bound on the statements that fail (locked or read-only)

Process == Mcp \cup Daemon
Gate == {"off", "observe", "enforce"}

ASSUME NoEpisodeAssumption == NoEpisode \notin Episode
ASSUME ProcessAssumption ==
    /\ Mcp \cap Daemon = {} /\ NoEpisode \notin Process
    /\ Modes \subseteq Gate
ASSUME BoundAssumption == MaxCrashes \in Nat /\ MaxFailures \in Nat

VARIABLES
    row,      \* none, active (queued or processing), done, or idle
    gate,     \* episodes.dedup_gate
    mode,     \* per process, the mode it resolved when it started
    pc,       \* per call, where it is
    by,       \* per call, the process that runs it, if that is alive
    holder,   \* per call, the existing episode it found
    lock,     \* per MCP process, the call that holds its _write_lock
    event,    \* per call, its row in dedup_events
    crashes,
    failures

rowVars == <<row, gate>>
vars == <<rowVars, mode, pc, by, holder, lock, event, crashes, failures>>

Pc == {"idle", "called", "checked", "rejecting", "detecting",
       "accepted", "rejected", "failed"}

TypeOK ==
    /\ row \in [Episode -> {"none", "active", "done", "idle"}]
    /\ gate \in [Episode -> Gate]
    /\ mode \in [Process -> Gate]
    /\ pc \in [Episode -> Pc]
    /\ by \in [Episode -> Process \cup {NoEpisode}]
    /\ holder \in [Episode -> Episode \cup {NoEpisode}]
    /\ lock \in [Mcp -> Episode \cup {NoEpisode}]
    /\ event \in [Episode -> {"none", "detected", "rejected"}]
    /\ crashes \in 0..MaxCrashes
    /\ failures \in 0..MaxFailures

Init ==
    /\ row = [e \in Episode |-> "none"]
    /\ gate = [e \in Episode |-> "off"]
    /\ mode \in [Process -> Modes]
    /\ pc = [e \in Episode |-> "idle"]
    /\ by = [e \in Episode |-> NoEpisode]
    /\ holder = [e \in Episode |-> NoEpisode]
    /\ lock = [w \in Mcp |-> NoEpisode]
    /\ event = [e \in Episode |-> "none"]
    /\ crashes = 0
    /\ failures = 0

-----------------------------------------------------------------------------
Twins(e) == {f \in Episode \ {e} : PayloadOf[f] = PayloadOf[e]}
Inserted(e) == row[e] # "none"
Indexed(e) == row[e] = "active" /\ gate[e] = "enforce"
ModeOf(e) == mode[by[e]]

(* Mutant: the lookup also finds rows that are no longer in flight.        *)
ActiveTwins_AnyStatus(e) == {f \in Twins(e) : Inserted(f)}

(* find_active_duplicate; which of several it names depends on created_at. *)
ActiveTwins(e) == {f \in Twins(e) : row[f] = "active"}

(* The rows that make the UNIQUE index refuse the INSERT of e.             *)
IndexHolders(e) ==
    IF ModeOf(e) = "enforce" THEN {f \in Twins(e) : Indexed(f)} ELSE {}

At(e, l) == by[e] \in Process /\ pc[e] = l
Locked(e) == by[e] \in Mcp

(* e can go on: its process runs no other call under the lock.             *)
Free(e) == Locked(e) => lock[by[e]] \in {e, NoEpisode}

Acquire(e) ==
    IF Locked(e) THEN lock' = [lock EXCEPT ![by[e]] = e] ELSE UNCHANGED lock

Release(e) ==
    IF Locked(e) /\ lock[by[e]] = e
    THEN lock' = [lock EXCEPT ![by[e]] = NoEpisode]
    ELSE UNCHANGED lock

(* Mutant: leaving the async with by an exception keeps the lock.          *)
GoTo_KeepsLockOnReject(e, l) ==
    /\ pc' = [pc EXCEPT ![e] = l]
    /\ IF l \in {"checked", "rejecting", "rejected"} THEN Acquire(e) ELSE Release(e)

(* e continues at l; the lock of its process is held from the lookup to    *)
(* the end of the insertion or of the rejection.                           *)
GoTo(e, l) ==
    /\ pc' = [pc EXCEPT ![e] = l]
    /\ IF l \in {"checked", "rejecting"} THEN Acquire(e) ELSE Release(e)

-----------------------------------------------------------------------------
(* The tool or the route is called, with a fresh episode id.  A daemon     *)
(* whose lock mode is mcp_only refuses here and changes nothing.           *)
Call(e, w) ==
    /\ pc[e] = "idle"
    /\ pc' = [pc EXCEPT ![e] = "called"]
    /\ by' = [by EXCEPT ![e] = w]
    /\ UNCHANGED <<rowVars, mode, holder, lock, event, crashes, failures>>

(* off: no lookup.                                                         *)
CheckSkipped(e) ==
    /\ At(e, "called") /\ Free(e)
    /\ ModeOf(e) = "off"
    /\ GoTo(e, "checked")
    /\ UNCHANGED <<rowVars, mode, by, holder, event, crashes, failures>>

CheckFindsNone(e) ==
    /\ At(e, "called") /\ Free(e)
    /\ ModeOf(e) # "off"
    /\ ActiveTwins(e) = {}
    /\ GoTo(e, "checked")
    /\ UNCHANGED <<rowVars, mode, by, holder, event, crashes, failures>>

(* The daemon records a detection before it inserts, the MCP writer after. *)
CheckFinds(e, f) ==
    /\ At(e, "called") /\ Free(e)
    /\ ModeOf(e) # "off"
    /\ f \in ActiveTwins(e)
    /\ holder' = [holder EXCEPT ![e] = f]
    /\ GoTo(e, IF ModeOf(e) = "enforce" THEN "rejecting"
               ELSE IF Locked(e) THEN "checked" ELSE "detecting")
    /\ UNCHANGED <<rowVars, mode, by, event, crashes, failures>>

InsertRow(e) ==
    /\ At(e, "checked")
    /\ IndexHolders(e) = {}
    /\ row' = [row EXCEPT ![e] = "active"]
    /\ gate' = [gate EXCEPT ![e] = ModeOf(e)]
    /\ GoTo(e, IF Locked(e) /\ holder[e] # NoEpisode THEN "detecting" ELSE "accepted")
    /\ UNCHANGED <<mode, by, holder, event, crashes, failures>>

(* Mutant: the daemon names the row it failed to insert.                   *)
InsertConflicts_NamesItself(e, f) ==
    /\ At(e, "checked")
    /\ f \in IndexHolders(e)
    /\ holder' = [holder EXCEPT ![e] = e]
    /\ GoTo(e, IF Locked(e) THEN "rejecting" ELSE "rejected")
    /\ UNCHANGED <<rowVars, mode, by, event, crashes, failures>>

(* IntegrityError.  The MCP writer records the rejection; the daemon only  *)
(* raises EpisodeDuplicateError.                                           *)
InsertConflicts(e, f) ==
    /\ At(e, "checked")
    /\ f \in IndexHolders(e)
    /\ holder' = [holder EXCEPT ![e] = f]
    /\ GoTo(e, IF Locked(e) THEN "rejecting" ELSE "rejected")
    /\ UNCHANGED <<rowVars, mode, by, event, crashes, failures>>

(* Where a call goes once its ledger row is, or could not be, written.     *)
AfterEvent(e) ==
    IF pc[e] = "rejecting" THEN "rejected"
    ELSE IF Locked(e) THEN "accepted" ELSE "checked"

(* Mutant: both kinds of event are recorded as rejections.                 *)
RecordEvent_AlwaysRejected(e) ==
    /\ At(e, "rejecting") \/ At(e, "detecting")
    /\ event' = [event EXCEPT ![e] = "rejected"]
    /\ GoTo(e, AfterEvent(e))
    /\ UNCHANGED <<rowVars, mode, by, holder, crashes, failures>>

RecordEvent(e) ==
    /\ At(e, "rejecting") \/ At(e, "detecting")
    /\ event' = [event EXCEPT
                    ![e] = IF pc[e] = "rejecting" THEN "rejected" ELSE "detected"]
    /\ GoTo(e, AfterEvent(e))
    /\ UNCHANGED <<rowVars, mode, by, holder, crashes, failures>>

(* The ledger never fails an enqueue: an error is logged and dropped.      *)
RecordEventFails(e) ==
    /\ At(e, "rejecting") \/ At(e, "detecting")
    /\ failures < MaxFailures
    /\ failures' = failures + 1
    /\ GoTo(e, AfterEvent(e))
    /\ UNCHANGED <<rowVars, mode, by, holder, event, crashes>>

-----------------------------------------------------------------------------
(* The process dies with its calls, and a new one resolves the mode again. *)
Crash(w, m) ==
    /\ crashes < MaxCrashes
    /\ crashes' = crashes + 1
    /\ mode' = [mode EXCEPT ![w] = m]
    /\ by' = [e \in Episode |-> IF by[e] = w THEN NoEpisode ELSE by[e]]
    /\ lock' = [v \in Mcp |-> IF v = w THEN NoEpisode ELSE lock[v]]
    /\ UNCHANGED <<rowVars, pc, holder, event, failures>>

Enforced(e) == gate[e] = "enforce"

(* Mutant: a requeue does not go through the index.                        *)
Admissible_Always(S) == TRUE

Admissible(S) ==
    \A e \in S, f \in Episode : f \in Twins(e) =>
        ~ (/\ Enforced(e) /\ Enforced(f)
           /\ f \in S \/ row[f] = "active")

(* A sweep, a reaper or a replay commits: the rows S change their status.  *)
RowsMove(S, st) ==
    /\ \A e \in S : Inserted(e)
    /\ st = "active" => Admissible(S)
    /\ row' = [e \in Episode |-> IF e \in S THEN st ELSE row[e]]
    /\ UNCHANGED <<gate, mode, pc, by, holder, lock, event, crashes, failures>>

(* Another exception of the lookup or of the INSERT reaches the caller.    *)
StatementFails(e) ==
    /\ \/ At(e, "called") /\ Free(e) /\ ModeOf(e) # "off"
       \/ At(e, "checked")
    /\ failures < MaxFailures
    /\ failures' = failures + 1
    /\ GoTo(e, "failed")
    /\ UNCHANGED <<rowVars, mode, by, holder, event, crashes>>

Step(e) ==
    \/ StatementFails(e)
    \/ CheckSkipped(e) \/ CheckFindsNone(e) \/ InsertRow(e)
    \/ \E f \in Episode : CheckFinds(e, f) \/ InsertConflicts(e, f)
    \/ RecordEvent(e) \/ RecordEventFails(e)

Next ==
    \/ \E e \in Episode, w \in Process : Call(e, w)
    \/ \E e \in Episode : Step(e)
    \/ \E w \in Process, m \in Modes : Crash(w, m)
    \/ \E S \in SUBSET Episode, st \in {"active", "done", "idle"} : RowsMove(S, st)

Spec == Init /\ [][Next]_vars

(* A coroutine that is ready runs, and a thread comes back.                *)
FairSpec == Spec /\ \A e \in Episode : WF_vars(Step(e))

-----------------------------------------------------------------------------
(* The verdict on a call falls when its lookup or its INSERT finds the     *)
(* holder, and not when the caller hears of it.                            *)
refusal ==
    [e \in Episode |->
        IF pc[e] \in {"rejecting", "rejected"} THEN holder[e] ELSE NoEpisode]

Gated == INSTANCE IntakeGate

(* The gate is atomic: seen from outside every call is decided in one      *)
(* step, although the lookup, the INSERT and the ledger are transactions   *)
(* of their own and two writer processes share no lock.                    *)
ImplementsGate == Gated!Spec

(* Only enforce refuses.  Neither the lookup nor the UNIQUE index may cost *)
(* an observing or an ungated writer its episode.                          *)
OnlyEnforceRefuses ==
    \A e \in Episode :
        pc[e] \in {"rejecting", "rejected"} /\ by[e] \in Process => ModeOf(e) = "enforce"

(* An event of the ledger is true of the call it was recorded for: a       *)
(* rejected episode is not in the queue, and a detected one is, unless the *)
(* daemon has yet to insert it, or has died or failed before it could.     *)
LedgerIsHonest ==
    \A e \in Episode :
        /\ event[e] = "rejected" => pc[e] = "rejected" /\ ~Inserted(e)
        /\ event[e] = "detected" => Inserted(e) \/ pc[e] \in {"checked", "failed"}

(* The lock of an MCP process is held by exactly the call that is between  *)
(* its lookup and its INSERT or its rejection, and by nobody else.         *)
LockIsOwned ==
    \A w \in Mcp, e \in Episode :
        lock[w] = e <=> by[e] = w /\ pc[e] \in {"checked", "rejecting"}

(* Every call of a process that stays alive is answered: no path through   *)
(* enqueue leaves the lock behind.                                         *)
CallsAreAnswered ==
    \A e \in Episode :
        pc[e] = "called" ~>
            pc[e] \in {"accepted", "rejected", "failed"} \/ by[e] = NoEpisode

-----------------------------------------------------------------------------
(* What the documentation says and the code does not do.                   *)

(* The daemon is "the SECOND writer of the same table, so its duplicates   *)
(* have to land in the SAME ledger": every rejection has its event (with   *)
(* no ledger write failing).                                               *)
RejectionsAreRecorded ==
    \A e \in Episode : pc[e] = "rejected" => event[e] = "rejected"

(* observe: "duplicates detected and counted".  A row that enters the      *)
(* queue beside another one with its content was found to be a duplicate.  *)
ObserveDetects ==
    [][\A e \in Episode :
        InsertRow(e) /\ ModeOf(e) = "observe" /\ ActiveTwins(e) # {}
            => holder[e] # NoEpisode]_vars

(* "detected": a duplicate was found and the episode was still enqueued.   *)
DetectedIsEnqueued ==
    \A e \in Episode :
        event[e] = "detected" /\ by[e] = NoEpisode => Inserted(e)

(* The adapter rejects content that exists in queued, processing or done.  *)
DoneIsRejected ==
    [][\A e \in Episode :
        InsertRow(e) /\ ModeOf(e) = "enforce"
            => \A f \in Twins(e) : row[f] # "done"]_vars

(* get_dedup_stats: the contents with more than one hashed row in flight.  *)
Hashed(e) == row[e] = "active" /\ gate[e] # "off"
activeDuplicates ==
    Cardinality({PayloadOf[e] : e \in {f \in Episode :
        Hashed(f) /\ \E g \in Twins(f) : Hashed(g)}})

(* "the enforce gate would reject N rows right now": of the rows with one  *)
(* content, all but the first.                                             *)
ActiveDuplicatesAreRejectable ==
    LET rows == {e \in Episode : Hashed(e)}
    IN  activeDuplicates
            = Cardinality(rows) - Cardinality({PayloadOf[e] : e \in rows})
=============================================================================
