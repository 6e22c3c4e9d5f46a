---------------------------- MODULE EpisodeTable ----------------------------
(***************************************************************************)
(* The two SQLite tables every process of janus-graph shares: `episodes`   *)
(* (the queue) and `dead_letter` (the DLQ).  A column is a function from   *)
(* episode ids; a row that was never inserted has status "none".  The      *)
(* operators are the statements of pipeline/queue.py and core/dedup.py,    *)
(* one per statement; the processes that issue them are modelled in the    *)
(* modules that extend this one.                                           *)
(*                                                                         *)
(* Time stamps, the JSON payload and the forensic columns are left out.    *)
(* An error text is reduced to what the retry policy reads in it.          *)
(***************************************************************************)
EXTENDS Naturals, FiniteSets

CONSTANTS
    Episode,     \* the episode ids (uuid4) that can be inserted
    Payload,     \* the canonical hashes
    PayloadOf,   \* the canonical hash of each episode's content
    Blank,       \* the episodes whose content is empty, or whose payload_json
                 \* cannot be parsed, which claim_next_batch reads as empty
    DefaultAttempts, \* the 3 that should_retry and the stuck reaper default to
    MaxAttempts, \* pipeline.max_attempts
    RespectCeiling, \* retry_policy.respect_attempt_ceiling
    NoEpisode    \* stands for None where a column may hold an episode id

ASSUME PayloadAssumption == PayloadOf \in [Episode -> Payload]
ASSUME BlankAssumption == Blank \subseteq Episode
ASSUME AttemptsAssumption ==
    DefaultAttempts \in Nat \ {0} /\ MaxAttempts \in Nat /\ RespectCeiling \in BOOLEAN
ASSUME NoEpisodeAssumption == NoEpisode \notin Episode

VARIABLES
    status,      \* episodes.status
    gate,        \* episodes.dedup_gate, the mode that wrote the row
    attempts,    \* episodes.attempt_count
    lastError,   \* episodes.last_error, as a class
    aged,        \* processing, and started_at is past the reap timeout
    dlq,         \* dead_letter: no row, recovered_at NULL, recovered_at set
    dlqError     \* dead_letter.last_error, as a class

tableVars == <<status, gate, attempts, lastError, aged, dlq, dlqError>>
rowVars == <<status, attempts, lastError, aged>>
dlqVars == <<dlq, dlqError>>

Active == {"queued", "processing"}
Status == {"none", "done", "failed", "aborted", "skipped_duplicate"} \cup Active
Gate == {"off", "observe", "enforce"}

(* What the code tells apart in an error text: NULL; a permanent upstream  *)
(* code (404, 402); an error should_retry refuses (schema, type or value   *)
(* errors); anything else, the timeouts included.                          *)
Error == {"None", "Permanent", "Invalid", "Transient"}

RowTypeOK ==
    /\ status \in [Episode -> Status]
    /\ gate \in [Episode -> Gate]
    /\ attempts \in [Episode -> Nat]
    /\ lastError \in [Episode -> Error]
    /\ aged \in [Episode -> BOOLEAN]

DlqTypeOK ==
    /\ dlq \in [Episode -> {"absent", "open", "recovered"}]
    /\ dlqError \in [Episode -> Error]

TableTypeOK == RowTypeOK /\ DlqTypeOK

TableInit ==
    /\ status = [e \in Episode |-> "none"]
    /\ gate = [e \in Episode |-> "off"]
    /\ attempts = [e \in Episode |-> 0]
    /\ lastError = [e \in Episode |-> "None"]
    /\ aged = [e \in Episode |-> FALSE]
    /\ dlq = [e \in Episode |-> "absent"]
    /\ dlqError = [e \in Episode |-> "None"]

-----------------------------------------------------------------------------
(* The partial UNIQUE index on canonical_hash covers the active rows an    *)
(* enforcing writer inserted.  That it exists is assumed: when the code    *)
(* cannot create it, it logs and goes on without.                          *)

Indexed(e) == status[e] \in Active /\ gate[e] = "enforce"

Twins(e) == {f \in Episode \ {e} : PayloadOf[f] = PayloadOf[e]}

(* An UPDATE that puts row e into the index's scope raises IntegrityError. *)
Conflicts(e) == gate[e] = "enforce" /\ \E f \in Twins(e) : Indexed(f)

(* Mutant: the partial index covers the queued rows only.                  *)
InsertConflicts_QueuedOnly(e, g) ==
    g = "enforce" /\ \E f \in Twins(e) : Indexed(f) /\ status[f] = "queued"

(* The INSERT of row e by a writer in mode g raises IntegrityError.        *)
InsertConflicts(e, g) == g = "enforce" /\ \E f \in Twins(e) : Indexed(f)

Insert(e, g) ==
    /\ status[e] = "none"
    /\ status' = [status EXCEPT ![e] = "queued"]
    /\ gate' = [gate EXCEPT ![e] = g]
    /\ UNCHANGED <<attempts, lastError, aged, dlqVars>>

(* UPDATE episodes SET status, attempt_count, last_error WHERE id = e, to  *)
(* any status but processing.                                              *)
UpdateRow(e, st, n, err) ==
    /\ status' = [status EXCEPT ![e] = st]
    /\ attempts' = [attempts EXCEPT ![e] = n]
    /\ lastError' = [lastError EXCEPT ![e] = err]
    /\ aged' = [aged EXCEPT ![e] = FALSE]
    /\ UNCHANGED gate

OpenDlq(e, err) ==
    /\ dlq' = [dlq EXCEPT ![e] = "open"]
    /\ dlqError' = [dlqError EXCEPT ![e] = err]

(* UPDATE dead_letter SET recovered_at WHERE episode_id = e.               *)
CloseDlq(e) ==
    /\ dlq' = [dlq EXCEPT ![e] = IF @ = "absent" THEN @ ELSE "recovered"]
    /\ UNCHANGED dlqError

(* The shared retry policy with its default denylist; NULL passes.         *)
PolicyAllows(err) == err # "Permanent"

(* should_retry on a record whose snapshot says attempt_count = n.  Its    *)
(* limit is the default of its parameter: the worker passes none.          *)
ShouldRetry(n, err) == n + 1 < DefaultAttempts /\ err # "Invalid"

-----------------------------------------------------------------------------
(* Mutant: mark_done before its fix, which left the DLQ row open.          *)
MarkDoneRow_KeepsDlq(e) ==
    /\ UpdateRow(e, "done", attempts[e], lastError[e])
    /\ UNCHANGED dlqVars

(* mark_done: the success also resolves an open dead-letter row, in the    *)
(* same transaction.                                                       *)
MarkDoneRow(e) ==
    /\ UpdateRow(e, "done", attempts[e], lastError[e])
    /\ CloseDlq(e)

(* mark_failed: no check of the row's present status or owner.             *)
MarkFailedRow(e, err) ==
    /\ UpdateRow(e, "failed", attempts[e] + 1, err)
    /\ UNCHANGED dlqVars

(* mark_aborted's transaction; n is the attempt count it read before.      *)
MarkAbortedRow(e, n, err) ==
    /\ UpdateRow(e, "aborted", n + 1, err)
    /\ OpenDlq(e, err)

(* mark_skipped_duplicate, and the conflict branch of the stuck reaper.    *)
MarkSkippedRow(e) ==
    /\ UpdateRow(e, "skipped_duplicate", attempts[e], "Transient")
    /\ UNCHANGED dlqVars

-----------------------------------------------------------------------------
(* Two enforcing rows with the same content are never in flight together:  *)
(* the promise of the UNIQUE index on which the whole dedup design rests.  *)
UniqueActive ==
    \A e, f \in Episode :
        e # f /\ PayloadOf[e] = PayloadOf[f] => ~(Indexed(e) /\ Indexed(f))

(* The open dead-letter rows are the real backlog: no open row belongs to  *)
(* an episode that has succeeded (the defect measured in mark_done).       *)
NoOpenDlqWhenDone == \A e \in Episode : dlq[e] = "open" => status[e] # "done"
=============================================================================
