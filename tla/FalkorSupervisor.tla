------------------------- MODULE FalkorSupervisor -------------------------
(***************************************************************************)
(* The daemon's guard around the FalkorDB server: the circuit breaker      *)
(* (daemon/circuit_breaker.py), the supervisor that probes through it      *)
(* (falkordb_supervisor.py), the restart policy its hook drives            *)
(* (falkordb_restart_policy.py), the boot sequence (lifespan.py), the two  *)
(* request handlers that probe, and the sweep loop that reads the breaker. *)
(*                                                                         *)
(* One asyncio event loop: code between two awaits is one step.  The       *)
(* breaker's lock is never held across an await, so each of its methods is *)
(* part of the step that calls it, the on_open hook and manager.start()    *)
(* included.  PING and the pidfile check run in threads and are steps of   *)
(* their own.                                                              *)
(*                                                                         *)
(* time.monotonic() is modelled by timers: what remains until _retry_at,   *)
(* and the ages of the restarts, which stop counting once no comparison of *)
(* the code can tell them apart any more.                                  *)
(***************************************************************************)
EXTENDS Integers, Sequences, FiniteSets

CONSTANTS
    Poller,             \* requests that come through GET /health
    Searcher,           \* requests that come through GET /search/memory
    Threshold,          \* falkor_circuit.failure_threshold
    Reset,              \* falkor_circuit.reset_timeout_sec
    HalfOpenMaxProbes,  \* falkor_circuit.half_open_max_probes
    Cooldown,           \* falkor_restart_policy.cooldown_sec
    Budget,             \* falkor_restart_policy.max_per_hour
    Window              \* the hour of the rolling window

ASSUME ThresholdAssumption == Threshold \in Nat \ {0}
ASSUME ResetAssumption == Reset \in Nat
ASSUME CooldownAssumption == Cooldown \in Nat
ASSUME BudgetAssumption == Budget \in Nat
ASSUME WindowAssumption == Window \in Nat

Client == Poller \cup Searcher

VARIABLES
    falkor,     \* what answers on host:port
    pidAlive,   \* manager.is_running(): the pidfile names a live process
    wasDead,    \* history: falkor has been "down" or "bare"
    breaker,    \* breaker._state
    failures,   \* breaker._failure_count, saturated at Threshold
    retryIn,    \* breaker._retry_at - now, NoTimer when it is None
    policy,     \* restart_policy._state
    disabled,   \* restart_policy._disabled_by_operator, set at boot
    restarts,   \* the ages of restart_policy._restart_times
    sinceLast,  \* now - restart_policy._last_restart_at
    boot,       \* where lifespan.boot is
    pc,         \* where each request's probe() is
    outcome,    \* what the probe has established so far
    halfOpen,   \* history: the probe was admitted in HALF_OPEN
    cron        \* the sweep loop

env == <<falkor, pidAlive, wasDead>>
circuit == <<breaker, failures, retryIn>>
restart == <<policy, restarts, sinceLast>>
tasks == <<pc, outcome, halfOpen>>
vars == <<env, circuit, restart, disabled, boot, tasks, cron>>

NoTimer == -1
Server == {"up", "loading", "bare", "down"}  \* "bare": redis without the module
Dead == {"bare", "down"}

TypeOK ==
    /\ falkor \in Server
    /\ pidAlive \in BOOLEAN
    /\ wasDead \in BOOLEAN
    /\ breaker \in {"closed", "open", "half_open"}
    /\ failures \in 0..Threshold
    /\ retryIn \in 0..Reset \cup {NoTimer}
    /\ policy \in {"ok", "cooling_down", "fatal_degraded"}
    /\ disabled \in BOOLEAN
    /\ restarts \in Seq(0..(Window + 1))
    /\ sinceLast \in 0..Cooldown \cup {NoTimer}
    /\ boot \in {"probe", "start", "reprobe", "failed", "serving"}
    /\ pc \in [Client -> {"idle", "ping", "pid", "record"}]
    /\ outcome \in [Client -> {"none", "warming", "dead", "success", "failure"}]
    /\ halfOpen \in [Client -> BOOLEAN]
    /\ cron \in {"waiting", "sweeping", "skipped"}

(* DaemonContext is built and the binaries are checked: the policy starts  *)
(* disabled when bin/falkordb.so is missing.                               *)
Init ==
    /\ falkor \in Server
    /\ pidAlive \in BOOLEAN
    /\ wasDead \in BOOLEAN /\ (wasDead <=> falkor \in Dead)
    /\ breaker = "closed" /\ failures = 0 /\ retryIn = NoTimer
    /\ policy = "ok" /\ restarts = << >> /\ sinceLast = NoTimer
    /\ disabled \in BOOLEAN
    /\ boot = "probe"
    /\ pc = [c \in Client |-> "idle"]
    /\ outcome = [c \in Client |-> "none"]
    /\ halfOpen = [c \in Client |-> FALSE]
    /\ cron = "waiting"

-----------------------------------------------------------------------------
(* The world: the server, the pidfile, and time.                           *)

Becomes(s) == falkor' = s /\ wasDead' = IF s \in Dead THEN TRUE ELSE wasDead

FalkorChanges ==
    /\ \E s \in Server : Becomes(s)
    /\ pidAlive' \in BOOLEAN
    /\ UNCHANGED <<circuit, restart, disabled, boot, tasks, cron>>

(* supervisor.stop(), on the operator's behalf: SIGTERM and unlink.        *)
Stop ==
    /\ pidAlive /\ pidAlive' = FALSE
    /\ Becomes("down")
    /\ UNCHANGED <<circuit, restart, disabled, boot, tasks, cron>>

Older(age, cap) == IF age < cap THEN age + 1 ELSE age

Tick ==
    /\ retryIn' = IF retryIn > 0 THEN retryIn - 1 ELSE retryIn
    /\ restarts' = [i \in DOMAIN restarts |-> Older(restarts[i], Window + 1)]
    /\ sinceLast' = IF sinceLast = NoTimer THEN NoTimer ELSE Older(sinceLast, Cooldown)
    /\ UNCHANGED <<env, breaker, failures, policy, disabled, boot, tasks, cron>>

(* FalkorDBServerManager.start(): TRUE at once when the pidfile's process  *)
(* lives; FileNotFoundError without the module; otherwise redis-server is  *)
(* run, which may fail ("raise"), hang or die ("false"), or come up and    *)
(* still be loading ("ok").                                                *)
StartServer(result) ==
    \/ /\ pidAlive
       /\ result = "ok"
       /\ UNCHANGED env
    \/ /\ ~pidAlive
       /\ result = "raise"
       /\ UNCHANGED env
    \/ /\ ~pidAlive /\ ~disabled
       /\ result = "false"
       /\ UNCHANGED env
    \/ /\ ~pidAlive /\ ~disabled
       /\ result = "ok"
       /\ pidAlive' = TRUE
       /\ \E s \in {falkor, "loading", "up"} : Becomes(s)

-----------------------------------------------------------------------------
(* FalkorRestartPolicy                                                     *)

(* The time stamps are in order: popleft drops the stale ones in front.    *)
Recent(age) == age <= Window
Stale == {i \in DOMAIN restarts : ~Recent(restarts[i])}
Pruned == SubSeq(restarts, Cardinality(Stale) + 1, Len(restarts))
CoolingDown == sinceLast # NoTimer /\ sinceLast < Cooldown

RestartRefused(quiet) ==
    /\ disabled \/ policy = "fatal_degraded"
    /\ restarts' = quiet
    /\ UNCHANGED <<policy, sinceLast, env>>

RestartCoolsDown ==
    /\ CoolingDown
    /\ policy' = "cooling_down"
    /\ restarts' = Pruned
    /\ UNCHANGED <<sinceLast, env>>

RestartBudgetSpent ==
    /\ ~CoolingDown
    /\ Len(Pruned) >= Budget
    /\ policy' = "fatal_degraded"
    /\ restarts' = Pruned
    /\ UNCHANGED <<sinceLast, env>>

RestartRaises ==
    /\ ~CoolingDown
    /\ Len(Pruned) < Budget
    /\ StartServer("raise")
    /\ policy' = "fatal_degraded"
    /\ restarts' = Pruned
    /\ UNCHANGED sinceLast

RestartIssued_OneOver ==
    /\ ~CoolingDown
    /\ Len(Pruned) <= Budget
    /\ StartServer("ok") \/ StartServer("false")
    /\ policy' = "ok"
    /\ restarts' = Append(Pruned, 0)
    /\ sinceLast' = 0

(* A start that returned False is counted like one that returned True.     *)
RestartIssued ==
    /\ ~CoolingDown
    /\ Len(Pruned) < Budget
    /\ StartServer("ok") \/ StartServer("false")
    /\ policy' = "ok"
    /\ restarts' = Append(Pruned, 0)
    /\ sinceLast' = 0

AttemptRestart(quiet) ==
    \/ RestartRefused(quiet)
    \/ /\ ~disabled /\ policy # "fatal_degraded"
       /\ \/ RestartCoolsDown
          \/ RestartBudgetSpent
          \/ RestartRaises
          \/ RestartIssued

-----------------------------------------------------------------------------
(* FalkorCircuitBreaker                                                    *)

Admits == breaker # "open" \/ retryIn = 0

AllowProbe ==
    /\ Admits
    /\ breaker' = IF breaker = "open" THEN "half_open" ELSE breaker
    /\ UNCHANGED <<failures, retryIn>>

(* A success that comes in while the circuit is OPEN is dropped.           *)
RecordSuccess ==
    IF breaker = "open"
    THEN UNCHANGED circuit
    ELSE /\ breaker' = "closed"
         /\ failures' = 0
         /\ retryIn' = NoTimer

Counted == IF failures < Threshold THEN failures + 1 ELSE failures
Trips == breaker = "closed" /\ Counted >= Threshold

(* The restart storm of an earlier draft: the hook on every OPEN.          *)
RecordFailure_HookOnEveryOpen(quiet) ==
    /\ failures' = Counted
    /\ IF Trips \/ breaker = "half_open"
       THEN breaker' = "open" /\ AttemptRestart(quiet) /\ retryIn' = Reset
       ELSE UNCHANGED <<breaker, retryIn, policy, sinceLast, env>> /\ restarts' = quiet

(* retry_at cleared when the half-open probe fails.                        *)
RecordFailure_LosesRetryAt(quiet) ==
    /\ failures' = Counted
    /\ IF Trips
       THEN breaker' = "open" /\ AttemptRestart(quiet) /\ retryIn' = Reset
       ELSE /\ IF breaker = "half_open"
               THEN breaker' = "open" /\ retryIn' = NoTimer
               ELSE UNCHANGED <<breaker, retryIn>>
            /\ restarts' = quiet
            /\ UNCHANGED <<policy, sinceLast, env>>

(* record_failure; the hook fires on CLOSED -> OPEN only, and `quiet` is   *)
(* what becomes of restarts where no restart is considered.                *)
RecordFailure(quiet) ==
    /\ failures' = Counted
    /\ IF Trips
       THEN /\ breaker' = "open"
            /\ AttemptRestart(quiet)
            /\ retryIn' = Reset
       ELSE /\ IF breaker = "half_open"
               THEN breaker' = "open" /\ retryIn' = Reset
               ELSE UNCHANGED <<breaker, retryIn>>
            /\ restarts' = quiet
            /\ UNCHANGED <<policy, sinceLast, env>>

-----------------------------------------------------------------------------
(* lifespan.boot: nothing else runs until it has returned.                 *)

StrictlyAlive == falkor = "up"

BootProbe ==
    /\ boot = "probe"
    /\ IF StrictlyAlive
       THEN boot' = "serving" /\ RecordSuccess
       ELSE boot' = "start" /\ UNCHANGED circuit
    /\ UNCHANGED <<env, restart, disabled, tasks, cron>>

BootStart ==
    /\ boot = "start"
    /\ \/ /\ StartServer("ok")
          /\ boot' = "reprobe"
          /\ UNCHANGED <<circuit, restart>>
       \/ /\ StartServer("false")
          /\ boot' = "failed"
          /\ UNCHANGED <<circuit, restart>>
       \/ /\ StartServer("raise")
          /\ boot' = "failed"
          /\ RecordFailure(restarts)
    /\ UNCHANGED <<disabled, tasks, cron>>

(* WARMING_UP is a failure here, unlike in probe().                        *)
BootReprobe ==
    /\ boot = "reprobe"
    /\ boot' = "serving"
    /\ IF StrictlyAlive
       THEN RecordSuccess /\ UNCHANGED <<env, restart>>
       ELSE RecordFailure(restarts)
    /\ UNCHANGED <<disabled, tasks, cron>>

BootFailed ==
    /\ boot = "failed"
    /\ boot' = "serving"
    /\ RecordFailure(restarts)
    /\ UNCHANGED <<disabled, tasks, cron>>

-----------------------------------------------------------------------------
(* supervisor.probe() as the two handlers run it.                          *)

(* /health prunes the restart window for its snapshot when it answers.     *)
AfterAnswer(c) == IF c \in Poller THEN Pruned ELSE restarts

ProbeStart(c) ==
    /\ boot = "serving" /\ pc[c] = "idle"
    /\ AllowProbe
    /\ pc' = [pc EXCEPT ![c] = "ping"]
    /\ halfOpen' = [halfOpen EXCEPT ![c] = breaker' = "half_open"]
    /\ UNCHANGED <<env, restart, disabled, boot, outcome, cron>>

ProbeSkipped(c) ==
    /\ boot = "serving" /\ pc[c] = "idle"
    /\ ~Admits
    /\ restarts' = AfterAnswer(c)
    /\ UNCHANGED <<env, circuit, policy, sinceLast, disabled, boot, tasks, cron>>

Ping(c) ==
    /\ pc[c] = "ping"
    /\ \/ /\ falkor \in {"up", "bare"}
          /\ outcome' = [outcome EXCEPT ![c] = "success"]
          /\ pc' = [pc EXCEPT ![c] = "record"]
       \/ /\ falkor \in {"loading", "down"}
          /\ outcome' = [outcome EXCEPT ![c] =
                            IF falkor = "loading" THEN "warming" ELSE "dead"]
          /\ pc' = [pc EXCEPT ![c] = "pid"]
    /\ UNCHANGED <<env, circuit, restart, disabled, boot, halfOpen, cron>>

PidCheck_WarmingFails(c) ==
    /\ pc[c] = "pid"
    /\ pc' = [pc EXCEPT ![c] = "record"]
    /\ outcome' = [outcome EXCEPT ![c] = IF pidAlive THEN "success" ELSE "failure"]
    /\ UNCHANGED <<env, circuit, restart, disabled, boot, halfOpen, cron>>

PidCheck(c) ==
    /\ pc[c] = "pid"
    /\ pc' = [pc EXCEPT ![c] = "record"]
    /\ outcome' = [outcome EXCEPT ![c] =
                      IF pidAlive THEN "success"
                      ELSE IF @ = "warming" THEN "warming" ELSE "failure"]
    /\ UNCHANGED <<env, circuit, restart, disabled, boot, halfOpen, cron>>

Finish(c) ==
    /\ pc' = [pc EXCEPT ![c] = "idle"]
    /\ outcome' = [outcome EXCEPT ![c] = "none"]
    /\ halfOpen' = [halfOpen EXCEPT ![c] = FALSE]
    /\ UNCHANGED <<disabled, boot, cron>>

Record(c) ==
    /\ pc[c] = "record"
    /\ \/ /\ outcome[c] = "success"
          /\ RecordSuccess
          /\ restarts' = AfterAnswer(c)
          /\ UNCHANGED <<env, policy, sinceLast>>
       \/ /\ outcome[c] = "warming"
          /\ restarts' = AfterAnswer(c)
          /\ UNCHANGED <<env, circuit, policy, sinceLast>>
       \/ /\ outcome[c] = "failure"
          /\ RecordFailure(AfterAnswer(c))
    /\ Finish(c)

(* /search/memory gives the probe one second: wait_for cancels it at       *)
(* whatever await it is at, and nothing is recorded.                       *)
ProbeCancelled(c) ==
    /\ c \in Searcher /\ pc[c] # "idle"
    /\ Finish(c)
    /\ UNCHANGED <<env, circuit, restart>>

(* supervisor.is_running(): allow_probe, but no outcome is ever recorded.  *)
IsRunning ==
    /\ boot = "serving"
    /\ AllowProbe
    /\ UNCHANGED <<env, restart, disabled, boot, tasks, cron>>

-----------------------------------------------------------------------------
(* CronLoop._sweep_loop reads breaker.state and never probes.              *)

SweepTick ==
    /\ boot = "serving" /\ cron = "waiting"
    /\ cron' = IF breaker = "open" THEN "skipped" ELSE "sweeping"
    /\ UNCHANGED <<env, circuit, restart, disabled, boot, tasks>>

SweepWait ==
    /\ cron # "waiting"
    /\ cron' = "waiting"
    /\ UNCHANGED <<env, circuit, restart, disabled, boot, tasks>>

Boot == BootProbe \/ BootStart \/ BootReprobe \/ BootFailed
Probe(c) == Ping(c) \/ PidCheck(c) \/ Record(c)
Sweep == SweepTick \/ SweepWait
World == FalkorChanges \/ Stop

Next ==
    \/ World
    \/ Tick
    \/ Boot
    \/ Sweep
    \/ IsRunning
    \/ \E c \in Client :
          ProbeStart(c) \/ ProbeSkipped(c) \/ Probe(c) \/ ProbeCancelled(c)

(* Time passes, boot and the sweep loop go on, and a probe that has begun  *)
(* ends: its threads are bounded by the socket timeout.  Nothing obliges   *)
(* anyone to send a request.                                               *)
Fairness ==
    /\ WF_vars(Tick)
    /\ WF_vars(Boot)
    /\ WF_vars(Sweep)
    /\ \A c \in Client : WF_vars(Probe(c))

Spec == Init /\ [][Next]_vars /\ Fairness

(* Somebody polls /health for ever.                                        *)
PolledSpec == Spec /\ \A c \in Poller : WF_vars(ProbeStart(c))

-----------------------------------------------------------------------------
(* Safety                                                                  *)

(* The circuit is closed exactly while fewer than failure_threshold        *)
(* failures have been counted, whatever late results of probes admitted in *)
(* an earlier state of the circuit come in (circuit_breaker.py:130-162).   *)
TripCount == breaker = "closed" <=> failures < Threshold

(* Every restart answers a fresh outage: the policy starts the server only *)
(* in the step that takes the circuit from CLOSED to OPEN, never when a    *)
(* half-open probe fails (circuit_breaker.py:220-262, _transition_to).     *)
Issued == sinceLast' = 0 /\ sinceLast # 0
RestartOnlyOnTrip ==
    [][Issued => breaker = "closed" /\ breaker' = "open" /\ ~disabled]_vars

(* No rolling hour sees more than max_per_hour restarts, and two restarts  *)
(* are cooldown_sec apart (falkordb_restart_policy.py:241-292).            *)
RestartsBounded ==
    /\ Cardinality(DOMAIN restarts \ Stale) <= Budget
    /\ \A i, j \in DOMAIN restarts :
          i < j => \/ restarts[i] - restarts[j] >= Cooldown
                   \/ ~Recent(restarts[i])

(* FATAL_DEGRADED is left by a daemon restart only, and no restart of the  *)
(* server is issued in it (falkordb_restart_policy.py:226, 302).           *)
FatalIsFinal ==
    [][policy = "fatal_degraded" => policy' = "fatal_degraded" /\ ~Issued]_vars

(* The breaker already spaces restarts: between two trips it spends        *)
(* reset_timeout_sec in OPEN, so with the default settings (60 and 60) the *)
(* cooldown gate never refuses a restart, and no trip is left unanswered   *)
(* because of it (proved in FalkorSupervisor_proofs).                      *)
CooldownNeverRefuses == Reset >= Cooldown => policy # "cooling_down"

(* A server that is only ever loading or up does not open the circuit at   *)
(* the default threshold of 3, although boot counts up to two failures for *)
(* it (falkordb_supervisor.py:18, lifespan.py:286-318).                    *)
HydrationNeverTrips == Threshold >= 3 /\ ~wasDead => breaker = "closed"

(* Liveness                                                                *)

(* While somebody polls /health, a server that is back for good closes the *)
(* circuit for good, whatever results were still under way.                *)
RecoversWhenPolled == <>[](falkor = "up") => <>[](breaker = "closed")

(* "the supervisor will already be probing" (cron_loop.py:148): once the   *)
(* server is back for good, sweeps run again.                              *)
SweepsResume == <>[](falkor = "up") => []<>(cron = "sweeping")

-----------------------------------------------------------------------------
(* What the documentation says, and the code does not do.                  *)

(* "concurrent probes deduplicate to half_open_max_probes total attempts"  *)
(* (circuit_breaker.py:15); acquire_probe_slot is never called.            *)
HalfOpenDeduplicates ==
    Cardinality({c \in Client : halfOpen[c]}) <= HalfOpenMaxProbes

(* "WARMING_UP: ... do NOT count as failure" (falkordb_supervisor.py:18);  *)
(* boot counts it.                                                         *)
WarmingIsNoFailure == ~wasDead => failures = 0

(* FATAL_DEGRADED means "Max restarts exhausted in 1h window"              *)
(* (docs/AUTO_RESTART_SUPERVISOR.md:101); one exception of manager.start() *)
(* is enough.                                                              *)
FatalMeansBudgetSpent ==
    [][policy # "fatal_degraded" /\ policy' = "fatal_degraded"
          => Len(Pruned) >= Budget]_vars

(* "Falkor starts but immediately crashes ... recorded as failure; rolling *)
(* budget tracks", and "after max_per_hour -> FATAL_DEGRADED"              *)
(* (docs/AUTO_RESTART_SUPERVISOR.md:113, 49): an armed policy whose server *)
(* stays down gives up only when it is FATAL_DEGRADED.                     *)
GivesUpOnlyWhenFatal ==
    <>[](falkor = "down" /\ ~pidAlive) /\ ~disabled
        => <>(policy = "fatal_degraded")

=============================================================================
