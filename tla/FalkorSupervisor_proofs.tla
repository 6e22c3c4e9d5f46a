---------------------- MODULE FalkorSupervisor_proofs ----------------------
(***************************************************************************)
(* The safety properties of FalkorSupervisor for every threshold, timeout, *)
(* budget and set of requests.  The inductive invariant is the conjunction *)
(* of TypeOK, TripCount and three parts: what the restart window holds,    *)
(* how the breaker spaces restarts, and what a server that has never been  *)
(* dead can have done to the breaker.                                      *)
(***************************************************************************)
EXTENDS FalkorSupervisor, FiniteSetTheorems, TLAPS

USE ThresholdAssumption, ResetAssumption, CooldownAssumption,
    BudgetAssumption, WindowAssumption

(* What a step does to the restart window: the clock ages it, a restart is *)
(* added to its recent part, or at most stale entries go.                  *)
Ages ==
    /\ restarts' = [i \in DOMAIN restarts |-> Older(restarts[i], Window + 1)]
    /\ sinceLast' = IF sinceLast = NoTimer THEN NoTimer ELSE Older(sinceLast, Cooldown)
    /\ retryIn' = IF retryIn > 0 THEN retryIn - 1 ELSE retryIn
    /\ UNCHANGED <<breaker, failures, policy>>

Adds ==
    /\ ~CoolingDown /\ Len(Pruned) < Budget
    /\ restarts' = Append(Pruned, 0)
    /\ sinceLast' = 0
    /\ policy' = "ok" /\ policy # "fatal_degraded" /\ ~disabled
    /\ Trips /\ failures' = Counted /\ breaker' = "open" /\ retryIn' = Reset

Keeps ==
    /\ restarts' \in {restarts, Pruned}
    /\ sinceLast' = sinceLast
    /\ policy = "fatal_degraded" => policy' = "fatal_degraded"
    /\ \/ policy' = policy
       \/ policy' = "fatal_degraded"
       \/ policy' = "cooling_down" /\ CoolingDown /\ breaker = "closed"

(* What a step that does not age or restart does to the circuit.           *)
Circuit ==
    \/ UNCHANGED circuit
    \/ AllowProbe
    \/ RecordSuccess
    \/ /\ failures' = Counted
       /\ \/ Trips /\ breaker' = "open" /\ retryIn' = Reset
          \/ ~Trips /\ breaker = "half_open" /\ breaker' = "open" /\ retryIn' = Reset
          \/ ~Trips /\ breaker # "half_open" /\ UNCHANGED <<breaker, retryIn>>

LEMMA FailureStep ==
    ASSUME NEW quiet, quiet \in {restarts, Pruned}, RecordFailure(quiet)
    PROVE  Adds \/ (Keeps /\ Circuit)
<1>1. CASE ~Trips
  BY <1>1 DEF RecordFailure, Keeps, Circuit
<1>2. CASE Trips
  <2>1. AttemptRestart(quiet) /\ failures' = Counted /\ breaker' = "open" /\ retryIn' = Reset
    BY <1>2 DEF RecordFailure
  <2>2. breaker = "closed"
    BY <1>2 DEF Trips
  <2>3. Circuit
    BY <1>2, <2>1 DEF Circuit
  <2>4. CASE RestartRefused(quiet)
    BY <2>3, <2>4 DEF RestartRefused, Keeps
  <2>5. CASE ~disabled /\ policy # "fatal_degraded" /\ RestartCoolsDown
    BY <2>2, <2>3, <2>5 DEF RestartCoolsDown, Keeps
  <2>6. CASE ~disabled /\ policy # "fatal_degraded" /\ RestartBudgetSpent
    BY <2>3, <2>6 DEF RestartBudgetSpent, Keeps
  <2>7. CASE ~disabled /\ policy # "fatal_degraded" /\ RestartRaises
    BY <2>3, <2>7 DEF RestartRaises, Keeps
  <2>8. CASE ~disabled /\ policy # "fatal_degraded" /\ RestartIssued
    BY <1>2, <2>1, <2>8 DEF RestartIssued, Adds
  <2> QED
    BY <2>1, <2>4, <2>5, <2>6, <2>7, <2>8 DEF AttemptRestart
<1> QED
  BY <1>1, <1>2

LEMMA EveryStep ==
    ASSUME [Next]_vars
    PROVE  Ages \/ Adds \/ (Keeps /\ Circuit)
<1>1. CASE World
  BY <1>1 DEF World, FalkorChanges, Stop, Keeps, Circuit, circuit, restart
<1>2. CASE Tick
  BY <1>2 DEF Tick, Ages
<1>3. CASE BootProbe
  BY <1>3 DEF BootProbe, Keeps, Circuit, restart
<1>4. CASE BootStart
  <2>1. CASE UNCHANGED <<circuit, restart>>
    BY <2>1 DEF Keeps, Circuit, restart
  <2>2. CASE RecordFailure(restarts)
    BY <2>2, FailureStep
  <2> QED
    BY <1>4, <2>1, <2>2 DEF BootStart
<1>5. CASE BootReprobe
  <2>1. CASE RecordSuccess /\ UNCHANGED <<env, restart>>
    BY <2>1 DEF Keeps, Circuit, restart
  <2>2. CASE RecordFailure(restarts)
    BY <2>2, FailureStep
  <2> QED
    BY <1>5, <2>1, <2>2 DEF BootReprobe
<1>6. CASE BootFailed
  BY <1>6, FailureStep DEF BootFailed
<1>7. CASE Sweep
  BY <1>7 DEF Sweep, SweepTick, SweepWait, Keeps, Circuit, restart
<1>8. CASE IsRunning
  BY <1>8 DEF IsRunning, Keeps, Circuit, restart
<1>9. ASSUME NEW c \in Client, ProbeStart(c)
      PROVE  Keeps /\ Circuit
  BY <1>9 DEF ProbeStart, Keeps, Circuit, restart
<1>10. ASSUME NEW c \in Client, ProbeSkipped(c)
       PROVE  Keeps /\ Circuit
  BY <1>10 DEF ProbeSkipped, AfterAnswer, Keeps, Circuit
<1>11. ASSUME NEW c \in Client, Ping(c) \/ PidCheck(c)
       PROVE  Keeps /\ Circuit
  BY <1>11 DEF Ping, PidCheck, Keeps, Circuit, restart
<1>12. ASSUME NEW c \in Client, Record(c)
       PROVE  Adds \/ (Keeps /\ Circuit)
  <2>1. AfterAnswer(c) \in {restarts, Pruned}
    BY DEF AfterAnswer
  <2>2. CASE RecordFailure(AfterAnswer(c))
    BY <2>1, <2>2, FailureStep
  <2>3. CASE RecordSuccess /\ restarts' = AfterAnswer(c) /\ UNCHANGED <<env, policy, sinceLast>>
    BY <2>1, <2>3 DEF Keeps, Circuit
  <2>4. CASE restarts' = AfterAnswer(c) /\ UNCHANGED <<env, circuit, policy, sinceLast>>
    BY <2>1, <2>4 DEF Keeps, Circuit
  <2> QED
    BY <1>12, <2>2, <2>3, <2>4 DEF Record
<1>13. ASSUME NEW c \in Client, ProbeCancelled(c)
       PROVE  Keeps /\ Circuit
  BY <1>13 DEF ProbeCancelled, Keeps, Circuit, restart
<1>14. CASE UNCHANGED vars
  BY <1>14 DEF vars, circuit, restart, Keeps, Circuit
<1> QED
  BY <1>1, <1>2, <1>3, <1>4, <1>5, <1>6, <1>7, <1>8, <1>9, <1>10, <1>11,
     <1>12, <1>13, <1>14 DEF Next, Boot, Probe

-----------------------------------------------------------------------------
(* The restart window.                                                     *)

Ages_Type == restarts \in Seq(0..(Window + 1))

LEMMA StaleCount ==
    ASSUME Ages_Type
    PROVE  Cardinality(Stale) \in 0..Len(restarts)
<1>1. DOMAIN restarts = 1..Len(restarts) /\ Len(restarts) \in Nat
  BY DEF Ages_Type
<1> DEFINE n == Len(restarts)
<1>2. n \in Nat
  BY <1>1
<1> HIDE DEF n
<1>3. IsFiniteSet(1..n)
  BY <1>2, FS_Interval
<1>4. Cardinality(1..n) = n
  <2>1. Cardinality(1..n) = IF 1 > n THEN 0 ELSE n - 1 + 1
    BY <1>2, FS_Interval
  <2> QED
    BY <1>2, <2>1
<1>5. Stale \subseteq 1..n
  BY <1>1 DEF Stale, n
<1>6. IsFiniteSet(Stale) /\ Cardinality(Stale) <= n
  BY <1>3, <1>4, <1>5, FS_Subset
<1>7. Cardinality(Stale) \in Nat
  BY <1>6, FS_CardinalityType
<1> QED
  BY <1>2, <1>6, <1>7 DEF n

LEMMA PrunedShape ==
    ASSUME Ages_Type
    PROVE  /\ Pruned \in Seq(0..(Window + 1))
           /\ \E k \in Nat :
                 /\ Len(Pruned) = Len(restarts) - k
                 /\ \A i \in 1..Len(Pruned) :
                       i + k \in 1..Len(restarts) /\ Pruned[i] = restarts[i + k]
<1> DEFINE k == Cardinality(Stale)
<1>1. k \in 0..Len(restarts) /\ Len(restarts) \in Nat
  BY StaleCount DEF Ages_Type
<1> HIDE DEF k
<1>2. Pruned = SubSeq(restarts, k + 1, Len(restarts))
  BY DEF Pruned, k
<1>3. Pruned \in Seq(0..(Window + 1)) /\ Len(Pruned) = Len(restarts) - k
  BY <1>1, <1>2 DEF Ages_Type
<1>4. \A i \in 1..Len(Pruned) :
         i + k \in 1..Len(restarts) /\ Pruned[i] = restarts[i + k]
  BY <1>1, <1>2, <1>3 DEF Ages_Type
<1> QED
  BY <1>1, <1>3, <1>4

-----------------------------------------------------------------------------
(* Type correctness.                                                       *)

LEMMA InitType == Init => TypeOK
BY DEF Init, TypeOK, NoTimer, Server

LEMMA CircuitType ==
    ASSUME TypeOK, Circuit
    PROVE  /\ breaker' \in {"closed", "open", "half_open"}
           /\ failures' \in 0..Threshold
           /\ retryIn' \in 0..Reset \cup {NoTimer}
BY DEF TypeOK, Circuit, circuit, AllowProbe, RecordSuccess, Counted

LEMMA RestartType ==
    ASSUME TypeOK, [Next]_vars
    PROVE  /\ breaker' \in {"closed", "open", "half_open"}
           /\ failures' \in 0..Threshold
           /\ retryIn' \in 0..Reset \cup {NoTimer}
           /\ policy' \in {"ok", "cooling_down", "fatal_degraded"}
           /\ restarts' \in Seq(0..(Window + 1))
           /\ sinceLast' \in 0..Cooldown \cup {NoTimer}
<1>1. Pruned \in Seq(0..(Window + 1))
  BY PrunedShape DEF TypeOK, Ages_Type
<1>2. CASE Ages
  <2>1. restarts' \in Seq(0..(Window + 1))
    <3>1. /\ Len(restarts) \in Nat /\ DOMAIN restarts = 1..Len(restarts)
          /\ \A i \in 1..Len(restarts) : restarts[i] \in 0..(Window + 1)
      BY DEF TypeOK
    <3>2. \A i \in 1..Len(restarts) : Older(restarts[i], Window + 1) \in 0..(Window + 1)
      BY <3>1 DEF Older
    <3>3. restarts' = [i \in 1..Len(restarts) |-> Older(restarts[i], Window + 1)]
      BY <1>2, <3>1 DEF Ages
    <3> QED
      BY <3>1, <3>2, <3>3
  <2>2. retryIn' \in 0..Reset \cup {NoTimer}
    BY <1>2 DEF Ages, TypeOK, NoTimer
  <2>3. sinceLast' \in 0..Cooldown \cup {NoTimer}
    BY <1>2 DEF Ages, TypeOK, Older, NoTimer
  <2> QED
    BY <1>2, <2>1, <2>2, <2>3 DEF Ages, TypeOK
<1>3. CASE Adds
  BY <1>1, <1>3 DEF Adds, TypeOK, Counted
<1>4. CASE Keeps /\ Circuit
  BY <1>1, <1>4, CircuitType DEF Keeps, TypeOK
<1> QED
  BY <1>2, <1>3, <1>4, EveryStep

LEMMA EnvType ==
    ASSUME TypeOK, [Next]_vars
    PROVE  falkor' \in Server /\ pidAlive' \in BOOLEAN /\ wasDead' \in BOOLEAN
<1>0. ASSUME UNCHANGED env \/ StartServer("ok") \/ StartServer("false") \/ StartServer("raise")
      PROVE  falkor' \in Server /\ pidAlive' \in BOOLEAN /\ wasDead' \in BOOLEAN
  BY <1>0 DEF StartServer, Becomes, env, TypeOK, Server, Dead
<1>1. ASSUME NEW quiet, RecordFailure(quiet)
      PROVE  UNCHANGED env \/ StartServer("ok") \/ StartServer("false") \/ StartServer("raise")
  BY <1>1 DEF RecordFailure, AttemptRestart, RestartRefused, RestartCoolsDown,
        RestartBudgetSpent, RestartRaises, RestartIssued
<1>2. CASE World
  BY <1>2 DEF World, FalkorChanges, Stop, Becomes, TypeOK, Server, Dead
<1>3. CASE Boot
  BY <1>0, <1>1, <1>3 DEF Boot, BootProbe, BootStart, BootReprobe, BootFailed
<1>4. ASSUME NEW c \in Client,
             ProbeStart(c) \/ ProbeSkipped(c) \/ Probe(c) \/ ProbeCancelled(c)
      PROVE  falkor' \in Server /\ pidAlive' \in BOOLEAN /\ wasDead' \in BOOLEAN
  BY <1>0, <1>1, <1>4 DEF ProbeStart, ProbeSkipped, Probe, Ping, PidCheck, Record,
        ProbeCancelled
<1>5. CASE Tick \/ Sweep \/ IsRunning \/ UNCHANGED vars
  BY <1>0, <1>5 DEF Tick, Sweep, SweepTick, SweepWait, IsRunning, vars
<1> QED
  BY <1>2, <1>3, <1>4, <1>5 DEF Next

TaskTypeOK ==
    /\ disabled \in BOOLEAN
    /\ boot \in {"probe", "start", "reprobe", "failed", "serving"}
    /\ pc \in [Client -> {"idle", "ping", "pid", "record"}]
    /\ outcome \in [Client -> {"none", "warming", "dead", "success", "failure"}]
    /\ halfOpen \in [Client -> BOOLEAN]
    /\ cron \in {"waiting", "sweeping", "skipped"}

LEMMA TaskType == TypeOK /\ [Next]_vars => TaskTypeOK'
<1> SUFFICES ASSUME TaskTypeOK, [Next]_vars
             PROVE  TaskTypeOK'
  BY DEF TypeOK, TaskTypeOK
<1>1. CASE World \/ Tick \/ Sweep \/ IsRunning \/ UNCHANGED vars
  BY <1>1 DEF TaskTypeOK, World, FalkorChanges, Stop, Tick, Sweep, SweepTick, SweepWait,
        IsRunning, vars, tasks
<1>2. CASE Boot
  BY <1>2 DEF TaskTypeOK, Boot, BootProbe, BootStart, BootReprobe, BootFailed, tasks
<1>3. ASSUME NEW c \in Client, ProbeStart(c)
      PROVE  TaskTypeOK'
  BY <1>3 DEF TaskTypeOK, ProbeStart
<1>4. ASSUME NEW c \in Client, ProbeSkipped(c)
      PROVE  TaskTypeOK'
  BY <1>4 DEF TaskTypeOK, ProbeSkipped, tasks
<1>5. ASSUME NEW c \in Client, Ping(c) \/ PidCheck(c)
      PROVE  TaskTypeOK'
  BY <1>5 DEF TaskTypeOK, Ping, PidCheck
<1>6. ASSUME NEW c \in Client, Record(c) \/ ProbeCancelled(c)
      PROVE  TaskTypeOK'
  BY <1>6 DEF TaskTypeOK, Record, ProbeCancelled, Finish
<1> QED
  BY <1>1, <1>2, <1>3, <1>4, <1>5, <1>6 DEF Next, Probe

(* Every variable keeps its type.                                          *)
LEMMA StepType == TypeOK /\ [Next]_vars => TypeOK'
BY RestartType, EnvType, TaskType DEF TypeOK, TaskTypeOK

(* TypeOK holds for every number of requests and all settings              *)
(* (circuit_breaker.py, falkordb_restart_policy.py).                       *)
THEOREM TypeCorrect == Spec => []TypeOK
BY InitType, StepType, PTL DEF Spec

-----------------------------------------------------------------------------
(* The breaker's count.                                                    *)

LEMMA StepTripCount == TypeOK /\ TripCount /\ [Next]_vars => TripCount'
<1> SUFFICES ASSUME TypeOK, TripCount, [Next]_vars
             PROVE  TripCount'
  OBVIOUS
<1>1. CASE Ages
  BY <1>1 DEF Ages, TripCount
<1>2. CASE Adds
  BY <1>2 DEF Adds, Trips, Counted, TripCount, TypeOK
<1>3. CASE Keeps /\ Circuit
  BY <1>3 DEF Circuit, circuit, AllowProbe, RecordSuccess, Trips, Counted, TripCount, TypeOK
<1> QED
  BY <1>1, <1>2, <1>3, EveryStep

(* The circuit is closed exactly while fewer than failure_threshold        *)
(* failures are counted (circuit_breaker.py:130-162).                      *)
THEOREM TripCountAlways == Spec => []TripCount
<1>1. Init => TripCount
  BY DEF Init, TripCount
<1> QED
  BY <1>1, TypeCorrect, StepTripCount, PTL DEF Spec

-----------------------------------------------------------------------------
(* The restart window: what an entry's age says about sinceLast, the       *)
(* distance between two entries, and how many there are.                   *)

WindowOK ==
    /\ sinceLast = NoTimer => restarts = << >>
    /\ \A i \in 1..Len(restarts) : restarts[i] >= sinceLast \/ ~Recent(restarts[i])
    /\ \A i, j \in 1..Len(restarts) :
          i < j => restarts[i] - restarts[j] >= Cooldown \/ ~Recent(restarts[i])
    /\ Len(restarts) <= Budget

LEMMA StepWindow == TypeOK /\ WindowOK /\ [Next]_vars => WindowOK'
<1> SUFFICES ASSUME TypeOK, WindowOK, [Next]_vars
             PROVE  WindowOK'
  OBVIOUS
<1> USE DEF Recent, NoTimer
<1>0. Len(restarts) \in Nat /\ \A i \in 1..Len(restarts) : restarts[i] \in 0..(Window + 1)
  BY DEF TypeOK
<1>1. CASE Ages
  <2>1. restarts' \in Seq(0..(Window + 1)) /\ Len(restarts') = Len(restarts)
    BY <1>1 DEF Ages, TypeOK, Older
  <2>2. \A i \in 1..Len(restarts) : restarts'[i] = Older(restarts[i], Window + 1)
    BY <1>1 DEF Ages, TypeOK
  <2>3. sinceLast' = IF sinceLast = -1 THEN -1 ELSE Older(sinceLast, Cooldown)
    BY <1>1 DEF Ages
  <2>4. sinceLast' = NoTimer => restarts' = << >>
    <3>1. sinceLast' = -1 => sinceLast = -1
      BY <2>3 DEF Older, TypeOK
    <3>2. sinceLast = -1 => restarts = << >>
      BY DEF WindowOK
    <3>3. restarts = << >> => restarts' = << >>
      BY <2>1
    <3> QED
      BY <3>1, <3>2, <3>3
  <2>5. \A i \in 1..Len(restarts') : restarts'[i] >= sinceLast' \/ ~Recent(restarts'[i])
    <3> SUFFICES ASSUME NEW i \in 1..Len(restarts)
                 PROVE  restarts'[i] >= sinceLast' \/ ~Recent(restarts'[i])
      BY <2>1
    <3>1. restarts[i] >= sinceLast \/ ~Recent(restarts[i])
      BY DEF WindowOK
    <3>2. restarts'[i] = Older(restarts[i], Window + 1)
      BY <2>2
    <3>3. restarts[i] \in 0..(Window + 1) /\ sinceLast \in 0..Cooldown \cup {-1}
      BY DEF TypeOK
    <3> QED
      BY <1>0, <2>3, <3>1, <3>2, <3>3 DEF Older
  <2>6. \A i, j \in 1..Len(restarts') :
          i < j => restarts'[i] - restarts'[j] >= Cooldown \/ ~Recent(restarts'[i])
    <3> SUFFICES ASSUME NEW i \in 1..Len(restarts), NEW j \in 1..Len(restarts), i < j
                 PROVE  restarts'[i] - restarts'[j] >= Cooldown \/ ~Recent(restarts'[i])
      BY <2>1
    <3>1. restarts[i] - restarts[j] >= Cooldown \/ ~Recent(restarts[i])
      BY DEF WindowOK
    <3>2. restarts'[i] = Older(restarts[i], Window + 1) /\ restarts'[j] = Older(restarts[j], Window + 1)
      BY <2>2
    <3> QED
      BY <1>0, <3>1, <3>2 DEF Older
  <2> QED
    BY <2>1, <2>4, <2>5, <2>6 DEF WindowOK
<1>2. PICK k \in Nat :
         /\ Len(Pruned) = Len(restarts) - k
         /\ \A i \in 1..Len(Pruned) :
               i + k \in 1..Len(restarts) /\ Pruned[i] = restarts[i + k]
  BY PrunedShape DEF TypeOK, Ages_Type
<1>3. Pruned \in Seq(0..(Window + 1)) /\ Len(Pruned) \in Nat
  BY PrunedShape DEF TypeOK, Ages_Type
<1>4. \A i \in 1..Len(Pruned) : Pruned[i] >= sinceLast \/ ~Recent(Pruned[i])
  BY <1>2 DEF WindowOK
<1>5. \A i, j \in 1..Len(Pruned) :
         i < j => Pruned[i] - Pruned[j] >= Cooldown \/ ~Recent(Pruned[i])
  <2> SUFFICES ASSUME NEW i \in 1..Len(Pruned), NEW j \in 1..Len(Pruned), i < j
               PROVE  Pruned[i] - Pruned[j] >= Cooldown \/ ~Recent(Pruned[i])
    OBVIOUS
  <2>1. i + k \in 1..Len(restarts) /\ j + k \in 1..Len(restarts) /\ i + k < j + k
    BY <1>2
  <2>2. Pruned[i] = restarts[i + k] /\ Pruned[j] = restarts[j + k]
    BY <1>2
  <2> QED
    BY <2>1, <2>2 DEF WindowOK
<1>6. CASE Adds
  <2>1. restarts' = Append(Pruned, 0) /\ sinceLast' = 0
    BY <1>6 DEF Adds
  <2>2. Len(restarts') = Len(Pruned) + 1 /\ Len(restarts') <= Budget
    BY <1>3, <1>6, <2>1 DEF Adds
  <2>3. \A i \in 1..Len(Pruned) : restarts'[i] = Pruned[i] /\ Pruned[i] \in 0..(Window + 1)
    BY <1>3, <2>1
  <2>4. restarts'[Len(restarts')] = 0
    BY <1>3, <2>1, <2>2
  <2>5. \A i \in 1..Len(Pruned) : Pruned[i] >= Cooldown \/ ~Recent(Pruned[i])
    <3>1. sinceLast = -1 \/ sinceLast = Cooldown
      BY <1>6 DEF Adds, CoolingDown, TypeOK
    <3>2. CASE sinceLast = -1
      <4>1. Len(restarts) = 0
        BY <3>2 DEF WindowOK
      <4>2. Len(Pruned) = 0
        BY <1>2, <1>3, <4>1
      <4> QED
        BY <4>2
    <3>3. CASE sinceLast = Cooldown
      BY <1>4, <3>3
    <3> QED
      BY <3>1, <3>2, <3>3
  <2>6. \A i \in 1..Len(restarts') : restarts'[i] >= sinceLast' \/ ~Recent(restarts'[i])
    BY <1>3, <2>1, <2>2, <2>3, <2>4
  <2>7. \A i, j \in 1..Len(restarts') :
          i < j => restarts'[i] - restarts'[j] >= Cooldown \/ ~Recent(restarts'[i])
    <3> SUFFICES ASSUME NEW i \in 1..Len(restarts'), NEW j \in 1..Len(restarts'), i < j
                 PROVE  restarts'[i] - restarts'[j] >= Cooldown \/ ~Recent(restarts'[i])
      OBVIOUS
    <3>1. i \in 1..Len(Pruned)
      BY <1>3, <2>2
    <3>2. CASE j \in 1..Len(Pruned)
      BY <1>5, <2>3, <3>1, <3>2
    <3>3. CASE j = Len(restarts')
      BY <2>3, <2>4, <2>5, <3>1, <3>3
    <3> QED
      BY <1>3, <2>2, <3>2, <3>3
  <2> QED
    BY <2>1, <2>2, <2>6, <2>7 DEF WindowOK
<1>7. CASE Keeps /\ restarts' = restarts
  BY <1>7 DEF Keeps, WindowOK
<1>8. CASE Keeps /\ restarts' = Pruned
  <2>1. Len(Pruned) <= Budget
    BY <1>0, <1>2, <1>3 DEF WindowOK
  <2>2. sinceLast' = NoTimer => restarts' = << >>
    <3>1. restarts = << >> => Len(Pruned) = 0
      BY <1>0, <1>2, <1>3
    <3> QED
      BY <1>3, <1>8, <3>1 DEF Keeps, WindowOK
  <2> QED
    BY <1>4, <1>5, <1>8, <2>1, <2>2 DEF Keeps, WindowOK
<1> QED
  BY <1>1, <1>6, <1>7, <1>8, EveryStep DEF Keeps

LEMMA WindowBounds == TypeOK /\ WindowOK => RestartsBounded
<1> SUFFICES ASSUME TypeOK, WindowOK
             PROVE  RestartsBounded
  OBVIOUS
<1> DEFINE n == Len(restarts)
<1>1. n \in Nat /\ DOMAIN restarts = 1..n /\ n <= Budget
  BY DEF TypeOK, WindowOK
<1>2. \A i, j \in DOMAIN restarts :
         i < j => restarts[i] - restarts[j] >= Cooldown \/ ~Recent(restarts[i])
  BY <1>1 DEF WindowOK
<1> HIDE DEF n
<1>3. IsFiniteSet(1..n)
  BY <1>1, FS_Interval
<1>4. Cardinality(1..n) = n
  <2>1. Cardinality(1..n) = IF 1 > n THEN 0 ELSE n - 1 + 1
    BY <1>1, FS_Interval
  <2> QED
    BY <1>1, <2>1
<1>5. (1..n) \ Stale \subseteq 1..n
  OBVIOUS
<1>6. IsFiniteSet((1..n) \ Stale) /\ Cardinality((1..n) \ Stale) <= n
  BY <1>3, <1>4, <1>5, FS_Subset
<1>7. Cardinality((1..n) \ Stale) \in Nat
  BY <1>6, FS_CardinalityType
<1>8. Cardinality(DOMAIN restarts \ Stale) <= Budget
  BY <1>1, <1>6, <1>7
<1> QED
  BY <1>2, <1>8 DEF RestartsBounded

(* No rolling hour sees more than max_per_hour restarts and two restarts   *)
(* are cooldown_sec apart (falkordb_restart_policy.py:241-292).            *)
THEOREM RestartsBoundedAlways == Spec => []RestartsBounded
<1>1. Init => WindowOK
  BY DEF Init, WindowOK, NoTimer
<1> QED
  BY <1>1, TypeCorrect, StepWindow, WindowBounds, PTL DEF Spec

-----------------------------------------------------------------------------
(* The breaker's pace: since the last restart it has either waited out the *)
(* cooldown or is still OPEN for as long as the cooldown needs.            *)

Patience ==
    Reset >= Cooldown =>
        /\ policy # "cooling_down"
        /\ \/ sinceLast \in {NoTimer, Cooldown}
           \/ breaker = "open" /\ sinceLast + retryIn >= Cooldown

LEMMA StepPatience == TypeOK /\ Patience /\ [Next]_vars => Patience'
<1> SUFFICES ASSUME TypeOK, Patience, [Next]_vars, Reset >= Cooldown
             PROVE  /\ policy' # "cooling_down"
                    /\ \/ sinceLast' \in {NoTimer, Cooldown}
                       \/ breaker' = "open" /\ sinceLast' + retryIn' >= Cooldown
  BY DEF Patience
<1> USE DEF NoTimer
<1>1. CASE Ages
  BY <1>1 DEF Ages, Older, Patience, TypeOK
<1>2. CASE Adds
  BY <1>2 DEF Adds
<1>3. CASE Keeps /\ Circuit
  <2>1. breaker = "closed" => ~CoolingDown
    BY DEF Patience, CoolingDown
  <2>2. policy' # "cooling_down"
    BY <1>3, <2>1 DEF Keeps, Patience
  <2>3. CASE sinceLast \in {NoTimer, Cooldown}
    BY <1>3, <2>2, <2>3 DEF Keeps
  <2>4. CASE breaker = "open" /\ sinceLast + retryIn >= Cooldown
    <3>1. CASE UNCHANGED circuit \/ RecordSuccess
      BY <1>3, <2>2, <2>4, <3>1 DEF Keeps, circuit, RecordSuccess
    <3>2. CASE AllowProbe
      <4>1. retryIn = 0
        BY <2>4, <3>2 DEF AllowProbe, Admits
      <4>2. sinceLast = Cooldown
        BY <2>4, <4>1 DEF TypeOK
      <4> QED
        BY <1>3, <2>2, <4>2 DEF Keeps
    <3>3. CASE UNCHANGED <<breaker, retryIn>>
      BY <1>3, <2>2, <2>4, <3>3 DEF Keeps
    <3> QED
      BY <1>3, <2>4, <3>1, <3>2, <3>3 DEF Circuit, Trips
  <2> QED
    BY <2>3, <2>4 DEF Patience
<1> QED
  BY <1>1, <1>2, <1>3, EveryStep

(* With reset_timeout_sec >= cooldown_sec, as in the defaults, the         *)
(* cooldown gate refuses nothing (falkordb_restart_policy.py:245-256).     *)
THEOREM CooldownNeverRefusesAlways == Spec => []CooldownNeverRefuses
<1>1. Init => Patience
  BY DEF Init, Patience
<1>2. Patience => CooldownNeverRefuses
  BY DEF Patience, CooldownNeverRefuses
<1> QED
  BY <1>1, <1>2, TypeCorrect, StepPatience, PTL DEF Spec

(* FATAL_DEGRADED is final and nothing is restarted in it                  *)
(* (falkordb_restart_policy.py:226).                                       *)
THEOREM FatalIsFinalAlways == Spec => FatalIsFinal
<1>1. TypeOK /\ [Next]_vars /\ policy = "fatal_degraded"
        => policy' = "fatal_degraded" /\ ~Issued
  <2> SUFFICES ASSUME TypeOK, [Next]_vars, policy = "fatal_degraded"
               PROVE  policy' = "fatal_degraded" /\ ~Issued
    OBVIOUS
  <2>1. CASE Ages
    BY <2>1 DEF Ages, Issued, Older, TypeOK, NoTimer
  <2>2. CASE Adds
    BY <2>2 DEF Adds
  <2>3. CASE Keeps
    BY <2>3 DEF Keeps, Issued
  <2> QED
    BY <2>1, <2>2, <2>3, EveryStep
<1> QED
  BY <1>1, TypeCorrect, PTL DEF Spec, FatalIsFinal

(* A restart is issued in a step that takes the circuit from CLOSED to     *)
(* OPEN, and by an enabled policy (circuit_breaker.py:220-262).            *)
THEOREM RestartOnlyOnTripAlways == Spec => RestartOnlyOnTrip
<1>1. TypeOK /\ [Next]_vars /\ Issued
        => breaker = "closed" /\ breaker' = "open" /\ ~disabled
  <2> SUFFICES ASSUME TypeOK, [Next]_vars, Issued
               PROVE  breaker = "closed" /\ breaker' = "open" /\ ~disabled
    OBVIOUS
  <2>1. CASE Ages
    BY <2>1 DEF Ages, Issued, Older, TypeOK, NoTimer
  <2>2. CASE Adds
    BY <2>2 DEF Adds, Trips
  <2>3. CASE Keeps
    BY <2>3 DEF Keeps, Issued
  <2> QED
    BY <2>1, <2>2, <2>3, EveryStep
<1> QED
  BY <1>1, TypeCorrect, PTL DEF Spec, RestartOnlyOnTrip

-----------------------------------------------------------------------------
(* A server that has never been dead: boot has counted at most two         *)
(* failures, and no probe has established one.                             *)

Hydration ==
    ~wasDead =>
        /\ falkor \notin Dead
        /\ boot \in {"probe", "start", "reprobe"} => failures = 0
        /\ boot = "failed" => failures <= 1
        /\ failures <= 2
        /\ \A c \in Client : outcome[c] \notin {"dead", "failure"}
        /\ \A c \in Client : pc[c] = "pid" => outcome[c] = "warming"
        /\ boot # "serving" => \A c \in Client : pc[c] = "idle"

LEMMA StepHydration == TypeOK /\ Hydration /\ [Next]_vars => Hydration'
<1> SUFFICES ASSUME TypeOK, Hydration, [Next]_vars, ~wasDead'
             PROVE  /\ falkor' \notin Dead
                    /\ boot' \in {"probe", "start", "reprobe"} => failures' = 0
                    /\ boot' = "failed" => failures' <= 1
                    /\ failures' <= 2
                    /\ \A c \in Client : outcome'[c] \notin {"dead", "failure"}
                    /\ \A c \in Client : pc'[c] = "pid" => outcome'[c] = "warming"
                    /\ boot' # "serving" => \A c \in Client : pc'[c] = "idle"
  BY DEF Hydration
<1>1. CASE World
  BY <1>1 DEF World, FalkorChanges, Stop, Becomes, Hydration, circuit, tasks, Dead
<1>2. CASE Tick \/ Sweep \/ IsRunning \/ UNCHANGED vars
  BY <1>2 DEF Tick, Sweep, SweepTick, SweepWait, IsRunning, AllowProbe, vars,
        env, circuit, tasks, Hydration
<1>0. ASSUME NEW s, Becomes(s)
      PROVE  falkor' \notin Dead /\ ~wasDead
  BY <1>0 DEF Becomes
<1>a. ASSUME NEW result, StartServer(result)
      PROVE  falkor' \notin Dead /\ ~wasDead
  <2>1. CASE UNCHANGED env
    BY <2>1 DEF env, Hydration
  <2>2. CASE \E s \in {falkor, "loading", "up"} : Becomes(s)
    BY <1>0, <2>2
  <2> QED
    BY <1>a, <2>1, <2>2 DEF StartServer
<1>3. ASSUME NEW quiet, RecordFailure(quiet)
      PROVE  /\ falkor' \notin Dead
             /\ ~wasDead
             /\ failures' <= failures + 1
             /\ failures' \in Nat
  <2>1. UNCHANGED env \/ StartServer("ok") \/ StartServer("false") \/ StartServer("raise")
    BY <1>3 DEF RecordFailure, AttemptRestart, RestartRefused, RestartCoolsDown,
        RestartBudgetSpent, RestartRaises, RestartIssued
  <2>2. UNCHANGED env => falkor' \notin Dead /\ ~wasDead
    BY DEF env, Hydration
  <2>3. failures' = Counted
    BY <1>3 DEF RecordFailure
  <2> QED
    BY <1>a, <2>1, <2>2, <2>3 DEF Counted, TypeOK
<1>4. CASE BootProbe
  BY <1>4 DEF BootProbe, RecordSuccess, Hydration, TypeOK, env, circuit, tasks
<1>5. CASE BootStart
  <2>1. ASSUME UNCHANGED circuit,
               StartServer("ok") \/ StartServer("false")
        PROVE  falkor' \notin Dead /\ ~wasDead /\ failures' = failures
    BY <1>a, <2>1 DEF circuit
  <2>2. CASE RecordFailure(restarts) /\ boot' = "failed"
    <3>1. falkor' \notin Dead /\ ~wasDead /\ failures' <= failures + 1 /\ failures' \in Nat
      BY <1>3, <2>2
    <3>2. failures = 0
      BY <1>5, <3>1 DEF BootStart, Hydration
    <3> QED
      BY <1>5, <2>2, <3>1, <3>2 DEF BootStart, Hydration, tasks
  <2>3. CASE UNCHANGED circuit /\ (StartServer("ok") \/ StartServer("false")) /\ boot' \in {"reprobe", "failed"}
    BY <1>5, <2>1, <2>3 DEF BootStart, Hydration, tasks, TypeOK
  <2> QED
    BY <1>5, <2>2, <2>3 DEF BootStart
<1>6. CASE BootReprobe
  <2>1. CASE RecordSuccess /\ UNCHANGED env
    BY <1>6, <2>1 DEF BootReprobe, RecordSuccess, Hydration, TypeOK, env, circuit, tasks
  <2>2. CASE RecordFailure(restarts)
    <3>1. falkor' \notin Dead /\ ~wasDead /\ failures' <= failures + 1 /\ failures' \in Nat
      BY <1>3, <2>2
    <3>2. failures = 0
      BY <1>6, <3>1 DEF BootReprobe, Hydration
    <3> QED
      BY <1>6, <3>1, <3>2 DEF BootReprobe, Hydration, tasks
  <2> QED
    BY <1>6, <2>1, <2>2 DEF BootReprobe
<1>7. CASE BootFailed
  <2>1. falkor' \notin Dead /\ ~wasDead /\ failures' <= failures + 1 /\ failures' \in Nat
    BY <1>3, <1>7 DEF BootFailed
  <2>2. failures <= 1 /\ failures \in Nat
    BY <1>7, <2>1 DEF BootFailed, Hydration, TypeOK
  <2> QED
    BY <1>7, <2>1, <2>2 DEF BootFailed, Hydration, tasks
<1>8. ASSUME NEW c \in Client, ProbeStart(c) \/ ProbeSkipped(c)
      PROVE  Hydration'
  BY <1>8 DEF ProbeStart, ProbeSkipped, AllowProbe, Hydration, TypeOK, env, circuit, tasks
<1>9. ASSUME NEW c \in Client, Ping(c) \/ PidCheck(c)
      PROVE  Hydration'
  <2>1. UNCHANGED <<env, circuit, boot>> /\ ~wasDead
    BY <1>9 DEF Ping, PidCheck, env
  <2>2. falkor # "down" /\ outcome[c] # "dead"
    BY <2>1 DEF Hydration, Dead
  <2>3. boot = "serving"
    BY <1>9, <2>1 DEF Hydration, Ping, PidCheck
  <2>4. PidCheck(c) => outcome[c] = "warming"
    BY <2>1 DEF PidCheck, Hydration
  <2>5. \A d \in Client : outcome'[d] \notin {"dead", "failure"}
    BY <1>9, <2>1, <2>2, <2>4 DEF Ping, PidCheck, Hydration, TypeOK
  <2>6. \A d \in Client : pc'[d] = "pid" => outcome'[d] = "warming"
    BY <1>9, <2>1, <2>2, <2>4 DEF Ping, PidCheck, Hydration, TypeOK
  <2> QED
    BY <2>1, <2>3, <2>5, <2>6 DEF Hydration, env, circuit
<1>10. ASSUME NEW c \in Client, ProbeCancelled(c)
       PROVE  Hydration'
  BY <1>10 DEF ProbeCancelled, Finish, Hydration, TypeOK, env, circuit
<1>11. ASSUME NEW c \in Client, Record(c)
       PROVE  Hydration'
  <2>1. ~wasDead => outcome[c] # "failure"
    BY DEF Hydration
  <2>2. CASE outcome[c] # "failure"
    BY <1>11, <2>2 DEF Record, Finish, RecordSuccess, Hydration, TypeOK, env, circuit
  <2>3. CASE outcome[c] = "failure"
    <3>1. RecordFailure(AfterAnswer(c))
      BY <1>11, <2>3 DEF Record
    <3> QED
      BY <1>3, <2>1, <2>3, <3>1
  <2> QED
    BY <2>2, <2>3
<1> QED
  BY <1>1, <1>2, <1>4, <1>5, <1>6, <1>7, <1>8, <1>9, <1>10, <1>11
  DEF Next, Boot, Probe, Hydration

(* At the default threshold a server that is only ever loading or up never *)
(* opens the circuit (falkordb_supervisor.py:18, lifespan.py:286-318).     *)
THEOREM HydrationNeverTripsAlways == Spec => []HydrationNeverTrips
<1>1. Init => Hydration
  BY DEF Init, Hydration
<1>2. TypeOK /\ TripCount /\ Hydration => HydrationNeverTrips
  BY DEF Hydration, TripCount, HydrationNeverTrips, TypeOK
<1> QED
  BY <1>1, <1>2, TypeCorrect, TripCountAlways, StepHydration, PTL DEF Spec

=============================================================================
