------------------------------ MODULE DreamRun ------------------------------
(***************************************************************************)
(* The nightly run of the dream: the loop of the daemon that starts it     *)
(* (daemon/cron_loop.py), its four phases (pipeline/dream.py), the row it  *)
(* keeps in dream_runs and the report it emits.                            *)
(*                                                                         *)
(* The phases are seen from outside here, as what became of each and what  *)
(* the run says of it; EntityMerge, EpisodicFold, OrphanPrune and          *)
(* EpisodeQueue have their insides.  Phases 1 to 3 run without an await,   *)
(* so that stop() can cancel a run only at the others; the process may be  *)
(* killed anywhere.                                                        *)
(***************************************************************************)
EXTENDS Naturals

CONSTANTS
    Run,          \* run_ids
    NoRun,        \* the loop awaits no run
    LastDay,      \* bound on the days
    MaxFailures,  \* bound on what fails
    MaxRestarts   \* bound on how often the daemon stops or is killed

ASSUME DreamAssumption ==
    /\ NoRun \notin Run /\ LastDay \in Nat \ {0}
    /\ MaxFailures \in Nat /\ MaxRestarts \in Nat

Phase == {"cluster", "dedup", "prune", "repair"}
Outcome == {"pending", "done", "skipped", "partial", "unread", "raised"}
Text == {"PENDING", "DONE", "SKIPPED", "PARTIAL", "FAILED"}
Status == {"none", "running", "completed", "completed_with_failures"}
Pc == {"new", "record", "close", "report", "returned", "lost"} \cup Phase
Results == [Phase -> Text]

VARIABLES
    day,          \* the UTC date
    inWindow,     \* it is 02:30 to 02:59 ICT
    up,           \* the daemon runs
    open,         \* the circuit of FalkorDB is OPEN
    lastRunDate,  \* local to the loop
    cron,         \* the run the loop awaits
    pc,           \* per run, its next step
    results,      \* per run, what its dictionary says of each phase
    became,       \* per run, what became of each phase (history)
    rows,         \* dream_runs: the status and the phases of each run
    reports,      \* the same of what was emitted
    nights,       \* per run, the day it was started (history)
    failures,
    restarts

clock == <<day, inWindow>>
loop == <<up, lastRunDate, cron>>
work == <<pc, results, became, rows, reports>>
vars == <<clock, loop, open, work, nights, failures, restarts>>

NoResults == [p \in Phase |-> IF p = "cluster" THEN "SKIPPED" ELSE "PENDING"]
Said(s, res) == [status |-> s, phases |-> res]
Nothing == Said("none", NoResults)

TypeOK ==
    /\ day \in 1..LastDay /\ inWindow \in BOOLEAN
    /\ up \in BOOLEAN /\ open \in BOOLEAN
    /\ lastRunDate \in 0..LastDay /\ cron \in Run \cup {NoRun}
    /\ pc \in [Run -> Pc]
    /\ results \in [Run -> Results]
    /\ became \in [Run -> [Phase -> Outcome]]
    /\ rows \in [Run -> [status : Status, phases : Results]]
    /\ reports \in [Run -> [status : Status, phases : Results]]
    /\ nights \in [Run -> 0..LastDay]
    /\ failures \in 0..MaxFailures /\ restarts \in 0..MaxRestarts

Init ==
    /\ day = 1 /\ inWindow = FALSE
    /\ up = TRUE /\ open \in BOOLEAN
    /\ lastRunDate = 0 /\ cron = NoRun
    /\ pc = [r \in Run |-> "new"]
    /\ results = [r \in Run |-> NoResults]
    /\ became = [r \in Run |-> [p \in Phase |-> "pending"]]
    /\ rows = [r \in Run |-> Nothing] /\ reports = [r \in Run |-> Nothing]
    /\ nights = [r \in Run |-> 0]
    /\ failures = 0 /\ restarts = 0

-----------------------------------------------------------------------------
Due == up /\ cron = NoRun /\ inWindow /\ lastRunDate # day /\ ~open

(* The clock.  The window is half an hour and the loop looks once a        *)
(* minute: the window closes on a run that is due only if every look at it *)
(* raised (BeginFails).                                                    *)
Tick ==
    /\ IF inWindow THEN ~Due /\ day < LastDay ELSE TRUE
    /\ inWindow' = ~inWindow
    /\ day' = IF inWindow THEN day + 1 ELSE day
    /\ UNCHANGED <<loop, open, work, nights, failures, restarts>>

(* The circuit opens or closes (FalkorSupervisor).                         *)
Flip == open' = ~open /\ UNCHANGED <<clock, loop, work, nights, failures, restarts>>

(* _dream_loop starts a run; with the queue open it has a fresh run_id.    *)
Begin(r) ==
    /\ Due /\ pc[r] = "new"
    /\ cron' = r
    /\ pc' = [pc EXCEPT ![r] = "record"]
    /\ nights' = [nights EXCEPT ![r] = day]
    /\ UNCHANGED <<clock, up, lastRunDate, open, results, became, rows, reports,
                   failures, restarts>>

MayFail == failures < MaxFailures /\ failures' = failures + 1

(* Opening the queue database and setting up the dispatcher come before    *)
(* the run_id and outside every try: the loop logs what they raise, notes  *)
(* no day and looks again a minute later.  Either a later look finds it    *)
(* working or every one raises until the window closes on the night.       *)
BeginFails ==
    /\ Due /\ MayFail
    /\ \/ UNCHANGED clock
       \/ day < LastDay /\ inWindow' = FALSE /\ day' = day + 1
    /\ UNCHANGED <<loop, open, work, nights, restarts>>

At(r, l) == cron = r /\ pc[r] = l
GoTo(r, l) == pc' = [pc EXCEPT ![r] = l]
Rest == UNCHANGED <<clock, open, nights, restarts>>

Inserted(r) == [rows EXCEPT ![r] = Said("running", NoResults)]

(* INSERT INTO dream_runs, before any phase.                               *)
Record(r) ==
    /\ At(r, "record") /\ GoTo(r, "cluster")
    /\ rows' = Inserted(r)
    /\ UNCHANGED <<loop, results, became, reports, failures>> /\ Rest

(* Mutant: the run does not go on without its row.                         *)
RecordFails_Raises(r) ==
    /\ At(r, "record") /\ MayFail /\ GoTo(r, "lost")
    /\ cron' = NoRun
    /\ UNCHANGED <<up, lastRunDate, results, became, rows, reports>> /\ Rest

(* "audit trail must not kill the run"                                     *)
RecordFails(r) ==
    /\ At(r, "record") /\ MayFail /\ GoTo(r, "cluster")
    /\ UNCHANGED <<loop, results, became, rows, reports>> /\ Rest

After(p) ==
    CASE p = "cluster" -> "dedup" [] p = "dedup" -> "prune"
      [] p = "prune" -> "repair" [] p = "repair" -> "close"

(* Unreachable is skipped, an unreadable snapshot is unread, what phase 2  *)
(* and 3 could not do in part is partial; anything else is an exception.   *)
EndsIn(p) ==
    CASE p = "repair" -> {"done", "raised"}
      [] p = "cluster" -> {"done", "skipped", "unread", "raised"}
      [] OTHER -> {"done", "skipped", "partial", "unread", "raised"}
Bad == {"partial", "unread", "raised"}

(* What the run says of a phase.  cluster_report rebuilds a result without *)
(* nodes when the snapshot could not be read, and says SKIPPED.            *)
Says(p, o) ==
    CASE o = "done" -> "DONE"
      [] o = "skipped" -> "SKIPPED"
      [] o = "partial" -> "PARTIAL"
      [] o = "unread" /\ p = "cluster" -> "SKIPPED"
      [] OTHER -> "FAILED"

RunPhase(r, p) ==
    \E o \in EndsIn(p) :
        /\ At(r, p) /\ GoTo(r, After(p))
        /\ IF o \in Bad THEN MayFail ELSE failures' = failures
        /\ results' = [results EXCEPT ![r][p] = Says(p, o)]
        /\ became' = [became EXCEPT ![r][p] = o]
        /\ UNCHANGED <<loop, rows, reports>> /\ Rest

Final(r) ==
    IF \E p \in Phase : results[r][p] = "FAILED"
    THEN "completed_with_failures" ELSE "completed"

(* Mutant: the row is closed with what was known when phase 4 began.       *)
Updated_BeforeRepair(r) ==
    IF rows[r].status = "none" THEN rows
    ELSE [rows EXCEPT ![r] = Said(Final(r), [results[r] EXCEPT !["repair"] = "PENDING"])]

(* UPDATE dream_runs, which matches nothing if there is no row.            *)
Updated(r) ==
    IF rows[r].status = "none" THEN rows
    ELSE [rows EXCEPT ![r] = Said(Final(r), results[r])]

Close(r) ==
    /\ At(r, "close") /\ GoTo(r, "report")
    /\ rows' = Updated(r)
    /\ UNCHANGED <<loop, results, became, reports, failures>> /\ Rest

CloseFails(r) ==
    /\ At(r, "close") /\ MayFail /\ GoTo(r, "report")
    /\ UNCHANGED <<loop, results, became, rows, reports>> /\ Rest

Emitted(r) == [reports EXCEPT ![r] = Said(Final(r), results[r])]

(* Mutant: the loop forgets to note the day.                               *)
Return_Forgets(r) ==
    /\ At(r, "report") /\ GoTo(r, "returned")
    /\ reports' = Emitted(r) /\ failures' = failures
    /\ cron' = NoRun
    /\ UNCHANGED <<up, lastRunDate, results, became, rows>> /\ Rest

(* The report is emitted, or is not; the loop notes the day it began on,   *)
(* even if that is over.                                                   *)
Return(r) ==
    /\ At(r, "report") /\ GoTo(r, "returned")
    /\ \/ reports' = Emitted(r) /\ failures' = failures
       \/ UNCHANGED reports /\ MayFail
    /\ cron' = NoRun /\ lastRunDate' = nights[r]
    /\ UNCHANGED <<up, results, became, rows>> /\ Rest

(* The daemon ends, by a signal or by stop(), which cancels the run it     *)
(* awaits.  A statement that was under way may be committed or not, and a  *)
(* report that was is, the emit being shielded.                            *)
Down ==
    /\ up /\ restarts < MaxRestarts
    /\ up' = FALSE /\ cron' = NoRun /\ restarts' = restarts + 1
    /\ pc' = [r \in Run |-> IF r = cron THEN "lost" ELSE pc[r]]
    /\ rows' \in {rows} \cup {Inserted(r) : r \in {q \in Run : At(q, "record")}}
                        \cup {Updated(r) : r \in {q \in Run : At(q, "close")}}
    /\ reports' \in {reports} \cup {Emitted(r) : r \in {q \in Run : At(q, "report")}}
    /\ UNCHANGED <<clock, open, lastRunDate, results, became, nights, failures>>

Up ==
    /\ ~up
    /\ up' = TRUE /\ lastRunDate' = 0
    /\ UNCHANGED <<clock, cron, open, work, nights, failures, restarts>>

Proceed(r) ==
    \/ Record(r) \/ RecordFails(r) \/ (\E p \in Phase : RunPhase(r, p))
    \/ Close(r) \/ CloseFails(r) \/ Return(r)
Next ==
    \/ Tick \/ Flip \/ Down \/ Up \/ BeginFails
    \/ \E r \in Run : Begin(r) \/ Proceed(r)

Spec == Init /\ [][Next]_vars

(* A run goes on: it awaits only itself.                                   *)
FairSpec == Spec /\ \A r \in Run : WF_vars(Proceed(r))

-----------------------------------------------------------------------------
(* A night with a run that was finished has no other run (_dream_loop,     *)
(* "once per day at 02:30 ICT", "so we don't double-fire").                *)
OncePerNight ==
    \A q, r \in Run : pc[q] = "returned" /\ nights[r] = nights[q] => r = q

(* So it is as long as the daemon stays up: lastRunDate is all it knows of *)
(* the nights gone by.                                                     *)
OncePerNightWhileUp == restarts = 0 => OncePerNight

(* A row that is closed says what the report says, also when the run is    *)
(* lost in between (run_dream_consolidation, "The phase columns store the  *)
(* SAME status strings the report carries").                               *)
ClosedRowIsTheReport ==
    \A r \in Run : rows[r].status \notin {"none", "running"} =>
        /\ rows[r] = Said(Final(r), results[r])
        /\ reports[r].status # "none" => reports[r] = rows[r]

(* Whatever fails from the INSERT on, a run comes back to the loop and its *)
(* night is noted ("must not kill the run", five times in                  *)
(* run_dream_consolidation).  What is raised before the INSERT ends the    *)
(* call without a run_id and is no run here (BeginFails): the loop calls   *)
(* again until the window closes, and the night may be without a run.      *)
RunsReturn == \A r \in Run : cron = r ~> pc[r] = "returned" \/ ~up

(* A run is only completed if no phase failed ("any phase that actually    *)
(* failed downgrades the whole run").                                      *)
FailuresDowngrade ==
    \A r \in Run : reports[r].status = "completed" =>
        \A p \in Phase : became[r][p] \notin {"unread", "raised"}

(* The row of a run that was reported is the report ("the audit trail and  *)
(* the report can never disagree about what happened").                    *)
RowIsTheReport ==
    \A r \in Run : reports[r].status # "none" => rows[r] = reports[r]
=============================================================================
