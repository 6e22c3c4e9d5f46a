--------------------------- MODULE DreamRun_proofs --------------------------
(***************************************************************************)
(* DreamRun for any number of runs, days, failures and restarts.  A run's  *)
(* dictionary no longer changes once its row is closed, which is why row   *)
(* and report cannot differ, wherever the run is lost.  The other parts    *)
(* are about two of its phases: OrphanPrune and Clustering.                *)
(***************************************************************************)
EXTENDS Sequences, DreamRun, FiniteSetTheorems, WellFoundedInduction, TLAPS

(* Rows are closed after the phases, reports are emitted after that.       *)
Stages ==
    \A r \in Run :
        /\ pc[r] \notin {"report", "returned", "lost"} =>
               rows[r].status \in {"none", "running"}
        /\ pc[r] \notin {"returned", "lost"} => reports[r] = Nothing
        /\ reports[r].status # "none" => reports[r] = Said(Final(r), results[r])

IInv == TypeOK /\ ClosedRowIsTheReport /\ Stages

(* What rows and reports are made of has its type.                         *)
LEMMA FinalTypes ==
    ASSUME TypeOK, NEW r \in Run
    PROVE  /\ Final(r) \in {"completed", "completed_with_failures"}
           /\ Said(Final(r), results[r]) \in [status : Status, phases : Results]
           /\ Said("running", NoResults) \in [status : Status, phases : Results]
           /\ Nothing \in [status : Status, phases : Results]
  BY DEF TypeOK, Final, Said, Status, Nothing, NoResults, Results, Phase, Text

(* What a row says, in short.                                              *)
LEMMA SaidStatus ==
    /\ Said("running", NoResults).status = "running"
    /\ Nothing.status = "none"
  BY DEF Said, Nothing

(* A phase ends (run_dream_consolidation).                                 *)
LEMMA PhaseStep ==
    ASSUME IInv, NEW r \in Run, NEW p \in Phase, RunPhase(r, p)
    PROVE  IInv'
<1>1. PICK o \in EndsIn(p) :
          /\ At(r, p) /\ GoTo(r, After(p))
          /\ IF o \in Bad THEN MayFail ELSE failures' = failures
          /\ results' = [results EXCEPT ![r][p] = Says(p, o)]
          /\ became' = [became EXCEPT ![r][p] = o]
          /\ UNCHANGED <<loop, rows, reports>> /\ Rest
  BY DEF RunPhase
<1>2. After(p) \in Pc /\ Says(p, o) \in Text /\ o \in Outcome
  BY <1>1 DEF Phase, After, EndsIn, Says, Pc, Text, Outcome
<1>3. failures' \in 0..MaxFailures
  BY <1>1, DreamAssumption DEF IInv, TypeOK, MayFail
<1>4. TypeOK'
  BY <1>1, <1>2, <1>3 DEF IInv, TypeOK, GoTo, Rest, clock, loop, Results
<1>5. rows[r].status \in {"none", "running"} /\ reports[r] = Nothing
  BY <1>1 DEF IInv, Stages, At, Phase
<1>6. \A q \in Run \ {r} : results'[q] = results[q] /\ pc'[q] = pc[q]
  BY <1>1 DEF IInv, TypeOK, GoTo
<1>7. \A q \in Run \ {r} : Final(q)' = Final(q)
  BY <1>6 DEF Final
<1>8. ClosedRowIsTheReport'
  BY <1>1, <1>5, <1>6, <1>7 DEF IInv, ClosedRowIsTheReport, Said
<1>9. Stages'
  BY <1>1, <1>5, <1>6, <1>7 DEF IInv, Stages, Said, Nothing
<1> QED BY <1>4, <1>8, <1>9 DEF IInv

(* The row is closed, or is not (update_dream_run).                        *)
LEMMA CloseStep ==
    ASSUME IInv, NEW r \in Run, Close(r) \/ CloseFails(r)
    PROVE  IInv'
<1>1. /\ At(r, "close") /\ GoTo(r, "report")
      /\ rows' = Updated(r) \/ rows' = rows
      /\ UNCHANGED <<loop, results, became, reports>> /\ Rest
      /\ failures' \in 0..MaxFailures
  BY DreamAssumption DEF Close, CloseFails, IInv, TypeOK, MayFail
<1>2. \A q \in Run : Final(q)' = Final(q)
  BY <1>1 DEF Final
<1>3. rows' = [q \in Run |-> rows'[q]]
      /\ \A q \in Run : \/ rows'[q] = rows[q]
                        \/ q = r /\ rows'[q] = Said(Final(r), results[r])
  BY <1>1 DEF IInv, TypeOK, Updated
<1>4. TypeOK'
  BY <1>1, <1>3, FinalTypes DEF IInv, TypeOK, GoTo, Rest, clock, loop, Pc
<1>5. reports[r] = Nothing
  BY <1>1 DEF IInv, Stages, At
<1>6. ClosedRowIsTheReport'
  <2> SUFFICES ASSUME NEW q \in Run, rows'[q].status \notin {"none", "running"}
               PROVE  /\ rows'[q] = Said(Final(q), results[q])
                      /\ reports[q].status # "none" => reports[q] = rows'[q]
    BY <1>1, <1>2 DEF ClosedRowIsTheReport
  <2>1. CASE rows'[q] = rows[q]
    BY <2>1 DEF IInv, ClosedRowIsTheReport
  <2>2. CASE q = r /\ rows'[q] = Said(Final(r), results[r])
    BY <1>5, <2>2, SaidStatus
  <2> QED BY <1>3, <2>1, <2>2
<1>7. Stages'
  BY <1>1, <1>2, <1>3 DEF IInv, TypeOK, Stages, GoTo, At
<1> QED BY <1>4, <1>6, <1>7 DEF IInv

(* The run returns to the loop (_dream_loop).                              *)
LEMMA ReturnStep ==
    ASSUME IInv, NEW r \in Run, Return(r)
    PROVE  IInv'
<1>1. /\ At(r, "report") /\ GoTo(r, "returned")
      /\ reports' = Emitted(r) \/ reports' = reports
      /\ cron' = NoRun /\ lastRunDate' = nights[r]
      /\ UNCHANGED <<up, results, became, rows>> /\ Rest
      /\ failures' \in 0..MaxFailures
  BY DreamAssumption DEF Return, IInv, TypeOK, MayFail
<1>2. \A q \in Run : Final(q)' = Final(q)
  BY <1>1 DEF Final
<1>3. reports' = [q \in Run |-> reports'[q]]
      /\ \A q \in Run : \/ reports'[q] = reports[q]
                        \/ q = r /\ reports'[q] = Said(Final(r), results[r])
  BY <1>1 DEF IInv, TypeOK, Emitted
<1>4. TypeOK'
  BY <1>1, <1>3, FinalTypes DEF IInv, TypeOK, GoTo, Rest, clock, Pc
<1>5. ClosedRowIsTheReport'
  BY <1>1, <1>2, <1>3 DEF IInv, ClosedRowIsTheReport
<1>6. Stages'
  BY <1>1, <1>2, <1>3 DEF IInv, TypeOK, Stages, GoTo, At
<1> QED BY <1>4, <1>5, <1>6 DEF IInv

(* The row is inserted, or is not (record_dream_run).                      *)
LEMMA RecordStep ==
    ASSUME IInv, NEW r \in Run, Record(r) \/ RecordFails(r)
    PROVE  IInv'
<1>1. /\ At(r, "record") /\ GoTo(r, "cluster")
      /\ rows' = Inserted(r) \/ rows' = rows
      /\ UNCHANGED <<loop, results, became, reports>> /\ Rest
      /\ failures' \in 0..MaxFailures
  BY DreamAssumption DEF Record, RecordFails, IInv, TypeOK, MayFail
<1>2. \A q \in Run : Final(q)' = Final(q)
  BY <1>1 DEF Final
<1>3. rows' = [q \in Run |-> rows'[q]]
      /\ \A q \in Run : \/ rows'[q] = rows[q]
                        \/ q = r /\ rows'[q] = Said("running", NoResults)
  BY <1>1 DEF IInv, TypeOK, Inserted
<1>4. TypeOK'
  BY <1>1, <1>3, FinalTypes DEF IInv, TypeOK, GoTo, Rest, clock, loop, Pc, Phase
<1>5. ClosedRowIsTheReport'
  <2> SUFFICES ASSUME NEW q \in Run, rows'[q].status \notin {"none", "running"}
               PROVE  /\ rows'[q] = Said(Final(q), results[q])
                      /\ reports[q].status # "none" => reports[q] = rows'[q]
    BY <1>1, <1>2 DEF ClosedRowIsTheReport
  <2>1. rows'[q] = rows[q]
    BY <1>3, SaidStatus
  <2> QED BY <2>1 DEF IInv, ClosedRowIsTheReport
<1>6. Stages'
  BY <1>1, <1>2, <1>3, SaidStatus DEF IInv, TypeOK, Stages, GoTo, At
<1> QED BY <1>4, <1>5, <1>6 DEF IInv

(* The daemon ends (CronLoop.stop, or the process is killed).              *)
LEMMA DownStep ==
    ASSUME IInv, Down
    PROVE  IInv'
<1>1. /\ UNCHANGED <<clock, open, lastRunDate, results, became, nights, failures>>
      /\ up' = FALSE /\ cron' = NoRun /\ restarts' \in 0..MaxRestarts
      /\ pc' = [r \in Run |-> IF r = cron THEN "lost" ELSE pc[r]]
  BY DreamAssumption DEF Down, IInv, TypeOK
<1>2. \A q \in Run : Final(q)' = Final(q)
  BY <1>1 DEF Final
<1>3. rows' = [q \in Run |-> rows'[q]]
      /\ \A q \in Run :
            \/ rows'[q] = rows[q]
            \/ At(q, "record") /\ rows'[q] = Said("running", NoResults)
            \/ At(q, "close") /\ rows'[q] = Said(Final(q), results[q])
  BY DEF Down, IInv, TypeOK, Inserted, Updated
<1>4. reports' = [q \in Run |-> reports'[q]]
      /\ \A q \in Run :
            \/ reports'[q] = reports[q]
            \/ At(q, "report") /\ reports'[q] = Said(Final(q), results[q])
  BY DEF Down, IInv, TypeOK, Emitted
<1>5. TypeOK'
  <2>1. pc' \in [Run -> Pc]
    BY <1>1 DEF IInv, TypeOK, Pc
  <2>2. \A q \in Run : rows'[q] \in [status : Status, phases : Results]
    BY <1>3, FinalTypes DEF IInv, TypeOK
  <2>3. \A q \in Run : reports'[q] \in [status : Status, phases : Results]
    BY <1>4, FinalTypes DEF IInv, TypeOK
  <2> QED BY <1>1, <1>3, <1>4, <2>1, <2>2, <2>3 DEF IInv, TypeOK, clock
<1>6. ClosedRowIsTheReport'
  <2> SUFFICES ASSUME NEW q \in Run, rows'[q].status \notin {"none", "running"}
               PROVE  /\ rows'[q] = Said(Final(q), results[q])
                      /\ reports'[q].status # "none" => reports'[q] = rows'[q]
    BY <1>1, <1>2 DEF ClosedRowIsTheReport
  <2>1. CASE rows'[q] = rows[q]
    BY <1>4, <2>1 DEF IInv, ClosedRowIsTheReport
  <2>2. CASE At(q, "close") /\ rows'[q] = Said(Final(q), results[q])
    BY <1>4, <2>2, SaidStatus DEF IInv, Stages, At
  <2> QED BY <1>3, <2>1, <2>2, SaidStatus
<1>7. Stages'
  <2> SUFFICES ASSUME NEW q \in Run
               PROVE  /\ pc'[q] \notin {"report", "returned", "lost"} =>
                             rows'[q].status \in {"none", "running"}
                      /\ pc'[q] \notin {"returned", "lost"} => reports'[q] = Nothing
                      /\ reports'[q].status # "none" =>
                             reports'[q] = Said(Final(q), results[q])
    BY <1>1, <1>2 DEF Stages
  <2>1. CASE q = cron
    BY <1>1, <1>4, <2>1 DEF IInv, Stages
  <2>2. CASE q # cron
    BY <1>1, <1>3, <1>4, <2>2 DEF IInv, Stages, At
  <2> QED BY <2>1, <2>2
<1> QED BY <1>5, <1>6, <1>7 DEF IInv

(* The clock, the circuit, the start of a run, which may fail, and of the  *)
(* daemon.                                                                 *)
LEMMA OtherStep ==
    ASSUME IInv,
           \/ Tick \/ Flip \/ Up \/ BeginFails
           \/ (\E r \in Run : Begin(r)) \/ UNCHANGED vars
    PROVE  IInv'
<1>1. UNCHANGED <<results, became, rows, reports, restarts>>
  BY DEF Tick, Flip, Up, Begin, BeginFails, vars, work
<1>2. \A q \in Run : Final(q)' = Final(q)
  BY <1>1 DEF Final
<1>3. TypeOK'
  <2>1. CASE Tick
    BY <2>1, DreamAssumption DEF IInv, TypeOK, Tick, work, loop
  <2>2. CASE Flip
    BY <2>2 DEF IInv, TypeOK, Flip, work, clock, loop
  <2>3. CASE Up
    BY <2>3, DreamAssumption DEF IInv, TypeOK, Up, work, clock
  <2>4. CASE \E r \in Run : Begin(r)
    BY <2>4 DEF IInv, TypeOK, Begin, clock, Pc
  <2>5. CASE UNCHANGED vars
    BY <2>5 DEF IInv, TypeOK, vars, work, clock, loop
  <2>6. CASE BeginFails
    <3>1. failures' \in 0..MaxFailures
      BY <2>6, DreamAssumption DEF IInv, TypeOK, BeginFails, MayFail
    <3>2. \/ day' = day /\ inWindow' = inWindow
          \/ day < LastDay /\ inWindow' = FALSE /\ day' = day + 1
      BY <2>6 DEF BeginFails, clock
    <3>3. day \in 1..LastDay /\ inWindow \in BOOLEAN
      BY DEF IInv, TypeOK
    <3>4. day' \in 1..LastDay
      BY <3>2, <3>3, DreamAssumption
    <3>5. inWindow' \in BOOLEAN
      BY <3>2, <3>3
    <3>6. UNCHANGED <<loop, open, work, nights, restarts>>
      BY <2>6 DEF BeginFails
    <3> QED BY <3>1, <3>4, <3>5, <3>6 DEF IInv, TypeOK, work, loop
  <2> QED BY <2>1, <2>2, <2>3, <2>4, <2>5, <2>6
<1>4. ClosedRowIsTheReport'
  BY <1>1, <1>2 DEF IInv, ClosedRowIsTheReport
<1>5. \A q \in Run : pc'[q] = pc[q] \/ (pc[q] = "new" /\ pc'[q] = "record")
  BY DEF IInv, TypeOK, Tick, Flip, Up, Begin, BeginFails, vars, work
<1>6. Stages'
  BY <1>1, <1>2, <1>5 DEF IInv, Stages
<1> QED BY <1>3, <1>4, <1>6 DEF IInv

THEOREM Invariant == Spec => []IInv
<1>1. Init => IInv
  <2>1. NoResults \in Results /\ Nothing \in [status : Status, phases : Results]
    BY DEF Nothing, Said, NoResults, Results, Text, Status, Phase
  <2>2. ASSUME Init PROVE TypeOK
    <3>1. day \in 1..LastDay /\ lastRunDate \in 0..LastDay
          /\ nights \in [Run -> 0..LastDay]
          /\ failures \in 0..MaxFailures /\ restarts \in 0..MaxRestarts
      BY <2>2, DreamAssumption DEF Init
    <3>2. inWindow \in BOOLEAN /\ up \in BOOLEAN /\ open \in BOOLEAN
      BY <2>2 DEF Init
    <3>3. cron \in Run \cup {NoRun} /\ pc \in [Run -> Pc]
          /\ became \in [Run -> [Phase -> Outcome]]
      BY <2>2 DEF Init, Pc, Outcome
    <3>4. results \in [Run -> Results]
          /\ rows \in [Run -> [status : Status, phases : Results]]
          /\ reports \in [Run -> [status : Status, phases : Results]]
      BY <2>1, <2>2 DEF Init
    <3> QED BY <3>1, <3>2, <3>3, <3>4 DEF TypeOK
  <2>3. Init => ClosedRowIsTheReport /\ Stages
    BY SaidStatus DEF Init, ClosedRowIsTheReport, Stages
  <2> QED BY <2>2, <2>3 DEF IInv
<1>2. IInv /\ [Next]_vars => IInv'
  BY PhaseStep, CloseStep, ReturnStep, RecordStep, DownStep, OtherStep
  DEF Next, Proceed
<1> QED BY <1>1, <1>2, PTL DEF Spec

(* Every variable keeps its type (dream.py, cron_loop.py).                 *)
THEOREM TypeCorrect == Spec => []TypeOK
  BY Invariant, PTL DEF IInv

(* A closed row of dream_runs says what the report says, wherever a run is *)
(* cancelled or killed (run_dream_consolidation).                          *)
THEOREM ClosedRowIsTheReportAlways == Spec => []ClosedRowIsTheReport
  BY Invariant, PTL DEF IInv

(* What the loop knows of the nights while it has not been restarted: runs *)
(* that returned began no later than the day it noted, and the one it      *)
(* awaits began after that day.                                            *)
Memory ==
    restarts = 0 =>
        /\ up
        /\ lastRunDate <= day
        /\ \A r \in Run : r # cron => pc[r] \in {"new", "returned"}
        /\ \A r \in Run : pc[r] = "new" => nights[r] = 0
        /\ \A r \in Run : pc[r] = "returned" =>
                nights[r] <= lastRunDate /\ nights[r] \in 1..LastDay
        /\ cron # NoRun => /\ lastRunDate < nights[cron] /\ nights[cron] <= day
                          /\ pc[cron] \notin {"new", "returned", "lost"}
        /\ OncePerNight

(* The run that is awaited takes a step and does not return.               *)
LEMMA MemoryWork ==
    ASSUME TypeOK, Memory, NEW r \in Run, At(r, pc[r]), NEW l \in Pc \ {"new", "returned", "lost"},
           GoTo(r, l), UNCHANGED <<clock, loop, nights, restarts>>
    PROVE  Memory'
<1>1. pc' = [pc EXCEPT ![r] = l] /\ cron = r /\ r # NoRun
  BY DreamAssumption DEF GoTo, At
<1>2. pc'[r] = l /\ \A q \in Run : q # r => pc'[q] = pc[q]
  BY <1>1 DEF TypeOK
<1>3. SUFFICES ASSUME restarts = 0 PROVE Memory'
  BY DEF Memory
<1>4. OncePerNight'
  BY <1>2, <1>3 DEF Memory, OncePerNight, clock, loop
<1> QED BY <1>1, <1>2, <1>3, <1>4 DEF Memory, clock, loop

(* The run returns to the loop, which notes its day.                       *)
LEMMA MemoryReturn ==
    ASSUME TypeOK, Memory, NEW r \in Run, Return(r)
    PROVE  Memory'
<1>1. /\ cron = r /\ pc[r] = "report" /\ pc' = [pc EXCEPT ![r] = "returned"]
      /\ cron' = NoRun /\ lastRunDate' = nights[r]
      /\ UNCHANGED <<up, day, nights, restarts>> /\ r # NoRun
  BY DreamAssumption DEF Return, At, GoTo, Rest, clock
<1>2. pc'[r] = "returned" /\ \A q \in Run : q # r => pc'[q] = pc[q]
  BY <1>1 DEF TypeOK
<1>3. SUFFICES ASSUME restarts = 0 PROVE Memory'
  BY <1>1 DEF Memory
<1>4. /\ lastRunDate < nights[r] /\ nights[r] <= day
      /\ day \in Nat /\ lastRunDate \in Nat /\ \A q \in Run : nights[q] \in 0..LastDay
      /\ \A q \in Run : q # r => pc[q] \in {"new", "returned"}
      /\ \A q \in Run : pc[q] = "new" => nights[q] = 0
  BY <1>1, <1>3, DreamAssumption DEF Memory, TypeOK
<1>5. \A q \in Run : q # r /\ pc[q] = "returned" =>
          nights[q] <= lastRunDate /\ nights[q] \in 1..LastDay
  BY <1>3 DEF Memory
<1>6. \A q \in Run : q # r => nights[q] < nights[r]
  BY <1>4, <1>5
<1>7. OncePerNight'
  <2> SUFFICES ASSUME NEW p \in Run, NEW q \in Run,
                      pc'[p] = "returned", nights[q] = nights[p]
               PROVE  q = p
    BY <1>1 DEF OncePerNight
  <2>1. CASE p = r
    BY <1>4, <1>6, <2>1
  <2>2. CASE p # r
    BY <1>2, <1>3, <2>2 DEF Memory, OncePerNight
  <2> QED BY <2>1, <2>2
<1>8. \A q \in Run : pc'[q] = "returned" =>
          nights[q] <= nights[r] /\ nights[q] \in 1..LastDay
  BY <1>2, <1>4, <1>5, <1>6
<1>9. up' /\ lastRunDate' <= day' /\ \A q \in Run : pc'[q] \in {"new", "returned"}
  BY <1>1, <1>2, <1>3, <1>4 DEF Memory
<1>10. \A q \in Run : pc'[q] = "new" => nights[q] = 0
  BY <1>2, <1>4
<1> QED BY <1>1, <1>10, <1>7, <1>8, <1>9 DEF Memory

(* The loop starts a run, on a day that is not the one it noted.           *)
LEMMA MemoryBegin ==
    ASSUME TypeOK, Memory, NEW r \in Run, Begin(r)
    PROVE  Memory'
<1>1. /\ cron = NoRun /\ lastRunDate # day /\ pc[r] = "new" /\ cron' = r
      /\ pc' = [pc EXCEPT ![r] = "record"] /\ nights' = [nights EXCEPT ![r] = day]
      /\ UNCHANGED <<up, day, lastRunDate, restarts>> /\ r # NoRun
  BY DreamAssumption DEF Begin, Due, clock
<1>2. /\ pc'[r] = "record" /\ nights'[r] = day
      /\ \A q \in Run : q # r => pc'[q] = pc[q] /\ nights'[q] = nights[q]
  BY <1>1 DEF TypeOK
<1>3. SUFFICES ASSUME restarts = 0 PROVE Memory'
  BY <1>1 DEF Memory
<1>4. lastRunDate < day /\ \A q \in Run : pc[q] \in {"new", "returned"}
  BY <1>1, <1>3, DreamAssumption DEF Memory, TypeOK
<1>5. OncePerNight'
  <2> SUFFICES ASSUME NEW p \in Run, NEW q \in Run,
                      pc'[p] = "returned", nights'[q] = nights'[p]
               PROVE  q = p
    BY DEF OncePerNight
  <2>1. p # r /\ nights[p] <= lastRunDate /\ nights[p] \in Nat /\ lastRunDate \in Nat
        /\ day \in Nat
    BY <1>2, <1>3 DEF Memory, TypeOK
  <2>2. nights'[p] < day
    BY <1>2, <1>4, <2>1
  <2>3. q # r
    BY <1>2, <2>2, <2>1
  <2> QED BY <1>2, <1>3, <2>1, <2>3 DEF Memory, OncePerNight
<1>6. \A q \in Run : pc'[q] = "returned" =>
          nights'[q] <= lastRunDate /\ nights'[q] \in 1..LastDay
  BY <1>2, <1>3 DEF Memory
<1>7. up' /\ lastRunDate' <= day'
  BY <1>1, <1>3 DEF Memory
<1>8. \A q \in Run : q # r => pc'[q] \in {"new", "returned"}
  BY <1>2, <1>4
<1>9. nights'[r] <= day' /\ \A q \in Run : pc'[q] = "new" => nights'[q] = 0
  BY <1>1, <1>2, <1>3 DEF Memory, TypeOK
<1> QED BY <1>1, <1>2, <1>4, <1>5, <1>6, <1>7, <1>8, <1>9 DEF Memory

(* The other steps: time passes, a run cannot be started, the daemon ends, *)
(* which counts, or begins.                                                *)
LEMMA MemoryOther ==
    ASSUME TypeOK, Memory,
           Tick \/ Flip \/ Down \/ Up \/ BeginFails \/ UNCHANGED vars
    PROVE  Memory'
<1>1. CASE Tick \/ BeginFails
  <2>1. day' >= day /\ day \in Nat /\ day' \in Nat
        /\ UNCHANGED <<loop, pc, nights, restarts>>
    BY <1>1, DreamAssumption DEF Tick, BeginFails, TypeOK, clock, work
  <2>2. OncePerNight' <=> OncePerNight
    BY <2>1 DEF OncePerNight
  <2>3. lastRunDate \in Nat /\ (cron # NoRun => nights[cron] \in Nat)
    BY DEF TypeOK
  <2> QED BY <2>1, <2>2, <2>3 DEF Memory, loop
<1>2. CASE Flip \/ UNCHANGED vars
  <2>1. UNCHANGED <<clock, loop, pc, nights, restarts>>
    BY <1>2 DEF Flip, vars, work
  <2> QED BY <2>1 DEF Memory, OncePerNight, clock, loop
<1>3. CASE Down
  BY <1>3 DEF Down, Memory, TypeOK
<1>4. CASE Up
  BY <1>4 DEF Up, Memory
<1> QED BY <1>1, <1>2, <1>3, <1>4

(* As long as the daemon has not been restarted no two of its finished     *)
(* runs began on the same day (_dream_loop, "once per day at 02:30 ICT").  *)
THEOREM OncePerNightAlways == Spec => []OncePerNightWhileUp
<1>1. Init => Memory
  BY DreamAssumption DEF Init, Memory, OncePerNight
<1>2. TypeOK /\ Memory /\ [Next]_vars => Memory'
  <2> SUFFICES ASSUME TypeOK, Memory, [Next]_vars PROVE Memory'
    OBVIOUS
  <2>1. ASSUME NEW r \in Run, Proceed(r), ~Return(r) PROVE Memory'
    <3>1. PICK l \in Pc \ {"new", "returned", "lost"} : GoTo(r, l)
      BY <2>1 DEF Proceed, Record, RecordFails, RunPhase, Close, CloseFails, Pc, Phase, After
    <3>2. cron = r /\ UNCHANGED <<clock, loop, nights, restarts>>
      BY <2>1 DEF Proceed, Record, RecordFails, RunPhase, Close, CloseFails, At, Rest
    <3>3. At(r, pc[r])
      BY <3>2 DEF At
    <3> QED BY <3>1, <3>2, <3>3, MemoryWork
  <2>2. ASSUME NEW r \in Run, Begin(r) \/ Proceed(r) PROVE Memory'
    BY <2>1, <2>2, MemoryReturn, MemoryBegin
  <2> QED BY <2>2, MemoryOther DEF Next
<1>3. Memory => OncePerNightWhileUp
  BY DEF Memory, OncePerNightWhileUp
<1> QED BY <1>1, <1>2, <1>3, TypeCorrect, PTL DEF Spec

-----------------------------------------------------------------------------
(* Phase 3, which the run above takes in one step: OrphanPrune for any     *)
(* number of entities, edges, processes and failures.  The node a process  *)
(* looks at is one it has not counted yet, so no outcome is ever           *)
(* overwritten, and what it took it has counted.                           *)
CONSTANTS Entity, Edge, Mention, Ends, Pruner, NoNode, PruneFailures
VARIABLES born, nodes, text, edges, told, prunePc, forced, todo, node, outcome,
          took, pruneFailures

Prune == INSTANCE OrphanPrune
            WITH Run <- Pruner, MaxFailures <- PruneFailures,
                 pc <- prunePc, failures <- pruneFailures

(* The nodes still to be looked at have no outcome.                        *)
Uncounted ==
    \A r \in Pruner :
        /\ \A n \in todo[r] : outcome[r][n] = "none"
        /\ prunePc[r] \in {"orphan", "delete"} => node[r] \in todo[r]

PruneInv == Prune!TypeOK /\ Prune!EdgesKeepEnds /\ Prune!TakenIsTold /\ Uncounted

(* A node is counted without having been deleted (_delete_orphans).        *)
LEMMA PruneDone ==
    ASSUME Prune!PruneAssumption, PruneInv, NEW r \in Pruner,
           NEW n \in todo[r], NEW c \in Prune!Count \ {"none"},
           Prune!Done(r, n, c), pruneFailures' \in 0..PruneFailures,
           UNCHANGED <<Prune!graph, forced, took>>
    PROVE  PruneInv'
<1>1. n \in Entity /\ n \notin took[r]
  BY DEF PruneInv, Prune!TypeOK, Prune!TakenIsTold, Uncounted
<1>2. Prune!TypeOK'
  BY <1>1, Prune!PruneAssumption DEF PruneInv, Prune!TypeOK, Prune!Done,
     Prune!GoTo, Prune!Pc, Prune!Count, Prune!graph
<1>3. Prune!EdgesKeepEnds'
  BY DEF PruneInv, Prune!EdgesKeepEnds, Prune!graph
<1>4. Prune!TakenIsTold'
  BY <1>1 DEF PruneInv, Prune!TypeOK, Prune!TakenIsTold, Prune!Done
<1>5. Uncounted'
  BY <1>1 DEF PruneInv, Prune!TypeOK, Uncounted, Prune!Done, Prune!GoTo
<1> QED BY <1>2, <1>3, <1>4, <1>5 DEF PruneInv

(* Every step of a run keeps the invariant (run_phase3_prune).             *)
LEMMA PruneStep ==
    ASSUME Prune!PruneAssumption, PruneInv, NEW r \in Pruner,
           (\E f \in BOOLEAN : Prune!Start(r, f)) \/ Prune!Proceed(r)
               \/ Prune!SnapshotFails(r) \/ Prune!QueryFails(r)
    PROVE  PruneInv'
<1> USE Prune!PruneAssumption
<1>1. CASE \E f \in BOOLEAN : Prune!Start(r, f)
  BY <1>1 DEF PruneInv, Prune!TypeOK, Prune!EdgesKeepEnds, Prune!TakenIsTold,
     Uncounted, Prune!Start, Prune!At,
     Prune!GoTo, Prune!graph, Prune!Pc, Prune!Count, Prune!NoOutcome
<1>2. CASE Prune!ReadMentions(r)
  BY <1>2 DEF PruneInv, Prune!TypeOK, Prune!EdgesKeepEnds, Prune!TakenIsTold,
     Uncounted, Prune!ReadMentions,
     Prune!At, Prune!GoTo, Prune!graph, Prune!Pc
<1>3. CASE Prune!ReadRelations(r)
  <2>1. /\ \E S \in SUBSET todo[r] : todo' = [todo EXCEPT ![r] = S]
        /\ \E l \in {"idle", "exists"} : prunePc' = [prunePc EXCEPT ![r] = l]
        /\ UNCHANGED <<Prune!graph, forced, node, outcome, took,
                       pruneFailures>>
    BY <1>3 DEF Prune!ReadRelations, Prune!GoTo, Prune!Idle
  <2> QED BY <2>1 DEF PruneInv, Prune!TypeOK, Prune!EdgesKeepEnds,
          Prune!TakenIsTold, Uncounted, Prune!graph, Prune!Pc
<1>4. CASE Prune!SnapshotFails(r)
  BY <1>4 DEF PruneInv, Prune!TypeOK, Prune!EdgesKeepEnds, Prune!TakenIsTold,
     Uncounted, Prune!SnapshotFails,
     Prune!At, Prune!GoTo, Prune!Idle, Prune!MayFail, Prune!graph, Prune!Pc
<1>5. CASE Prune!CheckExists(r)
  <2>1. PICK n \in todo[r] :
            /\ \/ /\ node' = [node EXCEPT ![r] = n] /\ Prune!GoTo(r, "orphan")
                  /\ UNCHANGED <<todo, outcome>>
               \/ Prune!Done(r, n, "gone")
            /\ UNCHANGED <<Prune!graph, forced, took, pruneFailures>>
    BY <1>5 DEF Prune!CheckExists
  <2>2. CASE Prune!Done(r, n, "gone")
    BY <2>1, <2>2, PruneDone DEF PruneInv, Prune!TypeOK, Prune!Count
  <2>3. CASE /\ node' = [node EXCEPT ![r] = n] /\ Prune!GoTo(r, "orphan")
             /\ UNCHANGED <<todo, outcome>>
    BY <2>1, <2>3 DEF PruneInv, Prune!TypeOK, Prune!EdgesKeepEnds,
       Prune!TakenIsTold, Uncounted, Prune!GoTo,
       Prune!graph, Prune!Pc
  <2> QED BY <2>1, <2>2, <2>3
<1>6. CASE Prune!CheckOrphan(r)
  <2>1. CASE Prune!Done(r, node[r], "referenced")
    BY <1>6, <2>1, PruneDone DEF PruneInv, Prune!TypeOK, Uncounted,
       Prune!CheckOrphan, Prune!At, Prune!Count
  <2>2. CASE Prune!GoTo(r, "delete") /\ UNCHANGED <<todo, node, outcome>>
    BY <1>6, <2>2 DEF PruneInv, Prune!TypeOK, Prune!EdgesKeepEnds,
       Prune!TakenIsTold, Uncounted,
       Prune!CheckOrphan, Prune!At, Prune!GoTo, Prune!graph, Prune!Pc
  <2> QED BY <1>6, <2>1, <2>2 DEF Prune!CheckOrphan
<1>7. ASSUME Prune!Take(r), Prune!At(r, "delete"), PruneInv
      PROVE  Prune!EdgesKeepEnds' /\ nodes' \subseteq nodes /\ text' \subseteq nodes'
             /\ took'[r] \subseteq took[r] \cup {node[r]}
             /\ took' \in [Pruner -> SUBSET Entity]
             /\ \A q \in Pruner \ {r} : took'[q] = took[q]
  BY <1>7 DEF PruneInv, Prune!TypeOK, Prune!EdgesKeepEnds, Uncounted,
     Prune!Take, Prune!Deletable, Prune!Orphan,
     Prune!EndsOf, Prune!At
<1>8. CASE Prune!Delete(r)
  <2>1. Prune!EdgesKeepEnds' /\ nodes' \subseteq nodes /\ text' \subseteq nodes'
    BY <1>7, <1>8 DEF Prune!Delete
  <2>2. Prune!TypeOK'
    BY <1>7, <1>8, <2>1 DEF PruneInv, Prune!TypeOK, Prune!Delete, Prune!Done,
       Prune!Take, Prune!At, Prune!GoTo, Prune!Pc, Prune!Count
  <2>3. Prune!TakenIsTold'
    BY <1>7, <1>8 DEF PruneInv, Prune!TypeOK, Prune!TakenIsTold, Uncounted,
       Prune!Delete, Prune!Done, Prune!At
  <2>4. Uncounted'
    BY <1>8 DEF PruneInv, Prune!TypeOK, Uncounted, Prune!Delete, Prune!Done,
       Prune!At, Prune!GoTo
  <2> QED BY <2>1, <2>2, <2>3, <2>4 DEF PruneInv
<1>9. CASE Prune!QueryFails(r)
  <2>1. PICK n \in todo[r] : Prune!Done(r, n, "error")
    BY <1>9 DEF PruneInv, Prune!TypeOK, Uncounted, Prune!QueryFails, Prune!At
  <2>2. CASE UNCHANGED <<Prune!graph, took>>
    BY <1>9, <2>1, <2>2, PruneDone, Prune!PruneAssumption
    DEF PruneInv, Prune!TypeOK, Prune!QueryFails, Prune!MayFail, Prune!Count
  <2>3. CASE Prune!At(r, "delete") /\ Prune!Done(r, node[r],
        "error") /\ Prune!Take(r)
    <3>1. Prune!EdgesKeepEnds' /\ nodes' \subseteq nodes /\ text' \subseteq nodes'
      BY <1>7, <2>3
    <3>2. Prune!TypeOK'
      BY <1>7, <1>9, <2>3, <3>1
      DEF PruneInv, Prune!TypeOK, Prune!QueryFails, Prune!Done, Prune!Take,
         Prune!At, Prune!GoTo, Prune!MayFail, Prune!Pc, Prune!Count
    <3>3. Prune!TakenIsTold'
      BY <1>7, <2>3 DEF PruneInv, Prune!TypeOK, Prune!TakenIsTold, Uncounted,
         Prune!Done, Prune!At
    <3>4. Uncounted'
      BY <2>3 DEF PruneInv, Prune!TypeOK, Uncounted, Prune!Done, Prune!At,
         Prune!GoTo
    <3> QED BY <3>1, <3>2, <3>3, <3>4 DEF PruneInv
  <2> QED BY <1>9, <2>2, <2>3 DEF Prune!QueryFails
<1> QED BY <1>1, <1>2, <1>3, <1>4, <1>5, <1>6, <1>8, <1>9 DEF Prune!Proceed

(* Ingestion and the deletions of phase 2 keep the invariant.              *)
LEMMA PruneOther ==
    ASSUME Prune!PruneAssumption, PruneInv,
           \/ \E n \in Entity : Prune!AddEntity(n) \/ Prune!Summarize(n)
           \/ \E e \in Edge : Prune!AddLink(e) \/ Prune!DropLink(e)
           \/ UNCHANGED Prune!vars
    PROVE  PruneInv'
  BY Prune!PruneAssumption
  DEF PruneInv, Prune!TypeOK, Prune!EdgesKeepEnds, Prune!TakenIsTold,
     Uncounted, Prune!AddEntity, Prune!Summarize,
      Prune!AddLink, Prune!DropLink, Prune!vars, Prune!local, Prune!graph

(* The four parts are inductive together, whatever processes prune and     *)
(* ingestion adds (run_phase3_prune).                                      *)
THEOREM PruneInvariant ==
    ASSUME Prune!PruneAssumption
    PROVE  Prune!Spec => []PruneInv
<1>1. Prune!Init => PruneInv
  BY Prune!PruneAssumption
  DEF Prune!Init, PruneInv, Prune!TypeOK, Prune!EdgesKeepEnds,
     Prune!TakenIsTold, Uncounted, Prune!Pc, Prune!Count, Prune!NoOutcome
<1>2. PruneInv /\ [Prune!Next]_(Prune!vars) => PruneInv'
  BY PruneStep, PruneOther DEF Prune!Next
<1> QED BY <1>1, <1>2, PTL DEF Prune!Spec

(* Every variable keeps its type (dream_apply.py).                         *)
THEOREM PruneTypeCorrect ==
    ASSUME Prune!PruneAssumption
    PROVE  Prune!Spec => []Prune!TypeOK
  BY PruneInvariant, PTL DEF PruneInv

(* No edge ever loses an end, however many runs prune while ingestion      *)
(* links (_DELETE_ORPHANS).                                                *)
THEOREM EdgesKeepEndsAlways ==
    ASSUME Prune!PruneAssumption
    PROVE  Prune!Spec => []Prune!EdgesKeepEnds
  BY PruneInvariant, PTL DEF PruneInv

(* A run counts every node it took as deleted, or has an error for it      *)
(* (_delete_orphans).                                                      *)
THEOREM TakenIsToldAlways ==
    ASSUME Prune!PruneAssumption
    PROVE  Prune!Spec => []Prune!TakenIsTold
  BY PruneInvariant, PTL DEF PruneInv

-----------------------------------------------------------------------------
(* Phase 1: Clustering for snapshots of any size, any relations, threshold *)
(* and number of rounds.  Labels are passed along edges only, so each of   *)
(* them comes from a node that can be reached from the one that has it.    *)
CONSTANTS Snapshots, Relations, MinDegrees, MaxRounds
VARIABLES stage, entities, adj, minDegree, labels, trail
Cluster == INSTANCE Clustering

(* A snapshot is finite and its relations have no direction.               *)
Graph ==
    /\ entities \in SUBSET Nat /\ IsFiniteSet(entities)
    /\ adj \in [entities -> SUBSET entities]
    /\ \A u \in entities : \A v \in adj[u] : u \in adj[v]

(* Every label comes from the component of the node that has it, and the   *)
(* label of a pinned node is its own and no one else's.                    *)
Local(l) ==
    /\ l \in [entities -> entities]
    /\ \A u \in entities :
        /\ l[u] \in Cluster!Reachable(u)
        /\ u \in Cluster!Pinned \/ l[u] \in Cluster!Pinned => l[u] = u

ClusterInv == Graph /\ Local(labels)

(* A set of numbers has a smallest one, and Min finds it.                  *)
LEMMA MinIsThere ==
    ASSUME NEW S \in SUBSET Nat, S # {}
    PROVE  Cluster!Min(S) \in S /\ \A m \in S : Cluster!Min(S) <= m
<1> DEFINE Less == OpToRel(<, Nat)
<1>1. IsWellFoundedOn(Less, Nat)
  BY NatLessThanWellFounded
<1>2. \A x, y \in Nat : y < x => <<y, x>> \in Less
  BY DEF OpToRel
<1> HIDE DEF Less
<1>3. PICK x \in S : \A y \in S : ~(<<y, x>> \in Less)
  BY <1>1, WFMin
<1>4. ASSUME NEW y \in S
      PROVE  x <= y
  <2>1. ~(y < x)
    BY <1>2, <1>3
  <2> QED
    BY <2>1
<1> QED
  BY <1>4 DEF Cluster!Min

(* Reaching is an equivalence, as edges go both ways.                      *)
LEMMA ReachIsEquivalence ==
    ASSUME Graph, NEW u \in entities
    PROVE  /\ u \in Cluster!Reachable(u)
           /\ Cluster!Reachable(u) \in SUBSET entities
           /\ \A v \in adj[u] : v \in Cluster!Reachable(u)
           /\ \A v \in Cluster!Reachable(u) : Cluster!Reachable(v) = Cluster!Reachable(u)
<1>1. u \in Cluster!Reachable(u) /\ Cluster!Reachable(u) \in SUBSET entities
  BY DEF Cluster!Reachable
<1>2. \A v \in adj[u] : v \in Cluster!Reachable(u)
  BY DEF Cluster!Reachable, Graph
<1>3. ASSUME NEW v \in Cluster!Reachable(u)
      PROVE  Cluster!Reachable(v) \subseteq Cluster!Reachable(u)
  BY <1>3 DEF Cluster!Reachable
<1>4. ASSUME NEW v \in Cluster!Reachable(u)
      PROVE  u \in Cluster!Reachable(v)
  <2>1. ASSUME NEW C \in SUBSET entities, v \in C, \A w \in C : adj[w] \subseteq C, u \notin C
        PROVE  FALSE
    <3> DEFINE D == entities \ C
    <3>1. D \in SUBSET entities /\ u \in D /\ v \notin D
      BY <2>1
    <3>2. \A w \in D : adj[w] \subseteq D
      BY <2>1 DEF Graph
    <3> HIDE DEF D
    <3> QED
      BY <3>1, <3>2 DEF Cluster!Reachable
  <2> QED
    BY <2>1 DEF Cluster!Reachable
<1>5. ASSUME NEW v \in Cluster!Reachable(u)
      PROVE  Cluster!Reachable(v) = Cluster!Reachable(u)
  <2>1. v \in entities /\ u \in Cluster!Reachable(v)
    BY <1>4 DEF Cluster!Reachable
  <2>2. Cluster!Reachable(u) \subseteq Cluster!Reachable(v)
    BY <2>1 DEF Cluster!Reachable
  <2> QED
    BY <1>3, <2>2
<1> QED
  BY <1>1, <1>2, <1>5

(* Two nodes are in one component if one is reached from the other.        *)
LEMMA ComponentsAre ==
    ASSUME Graph, NEW u \in entities, NEW v \in entities
    PROVE  /\ v \in Cluster!Reachable(u) => Cluster!Component[u] = Cluster!Component[v]
           /\ Cluster!Component[u] = Cluster!Component[v] => v \in Cluster!Reachable(u)
<1>1. \A w \in entities : Cluster!Component[w] = Cluster!Min(Cluster!Reachable(w))
  BY DEF Cluster!Component
<1>2. ASSUME NEW w \in entities
      PROVE  Cluster!Component[w] \in Cluster!Reachable(w)
  <2>1. Cluster!Reachable(w) \in SUBSET Nat /\ Cluster!Reachable(w) # {}
    BY ReachIsEquivalence DEF Graph
  <2> QED
    BY <1>1, <2>1, MinIsThere
<1>3. v \in Cluster!Reachable(u) => Cluster!Reachable(v) = Cluster!Reachable(u)
  BY ReachIsEquivalence
<1>4. ASSUME Cluster!Component[u] = Cluster!Component[v]
      PROVE  v \in Cluster!Reachable(u)
  <2>1. Cluster!Reachable(Cluster!Component[u]) = Cluster!Reachable(u)
        /\ Cluster!Reachable(Cluster!Component[u]) = Cluster!Reachable(v)
    BY <1>2, <1>4, ReachIsEquivalence
  <2> QED
    BY <2>1, ReachIsEquivalence
<1> QED
  BY <1>1, <1>3, <1>4

(* Finite sets and their sizes mean there what they mean here.             *)
LEMMA SameCardinality ==
    /\ \A S : Cluster!IsFiniteSet(S) = IsFiniteSet(S)
    /\ \A S : Cluster!Cardinality(S) = Cardinality(S)
<1>1. \A S : Cluster!IsFiniteSet(S) = IsFiniteSet(S)
  BY DEF IsFiniteSet, Cluster!IsFiniteSet
<1> QED
  BY <1>1 DEF Cardinality, Cluster!Cardinality

(* Some label is heard most often, and the smallest of those is one that   *)
(* is heard.                                                               *)
LEMMA WinnerIsHeard ==
    ASSUME Graph, NEW l \in [entities -> entities], NEW u \in entities,
           Cluster!Voters(u) # {}
    PROVE  \E v \in Cluster!Voters(u) : Cluster!Winner(l, u) = l[v]
<1> DEFINE heard == {l[v] : v \in Cluster!Voters(u)}
           best == {k \in heard : \A j \in heard :
                        Cluster!Tally(l, u, k) >= Cluster!Tally(l, u, j)}
           total == Cardinality(Cluster!Voters(u))
           short == {total - Cluster!Tally(l, u, k) : k \in heard}
<1>1. Cluster!Voters(u) \subseteq entities /\ IsFiniteSet(Cluster!Voters(u))
  <2>1. Cluster!Voters(u) \subseteq entities
    BY DEF Cluster!Voters, Graph
  <2> QED
    BY <2>1, FS_Subset DEF Graph
<1>2. heard # {} /\ heard \subseteq entities
  BY <1>1
<1>3. \A k : Cluster!Tally(l, u, k) \in Nat /\ Cluster!Tally(l, u, k) <= total
             /\ total \in Nat
  <2>1. ASSUME NEW k
        PROVE  Cluster!Tally(l, u, k) \in Nat /\ Cluster!Tally(l, u, k) <= total
               /\ total \in Nat
    <3> DEFINE say == {v \in Cluster!Voters(u) : l[v] = k}
    <3>1. say \subseteq Cluster!Voters(u)
      OBVIOUS
    <3>2. Cluster!Tally(l, u, k) = Cardinality(say)
      BY SameCardinality DEF Cluster!Tally
    <3> HIDE DEF say
    <3>3. IsFiniteSet(say) /\ Cardinality(say) <= total
      BY <1>1, <3>1, FS_Subset
    <3> QED
      BY <1>1, <3>2, <3>3, FS_CardinalityType
  <2> QED
    BY <2>1
<1> HIDE DEF heard, total
<1>4. short \in SUBSET Nat /\ short # {}
  BY <1>2, <1>3
<1>5. best # {}
  <2>1. PICK k \in heard : \A j \in heard :
            total - Cluster!Tally(l, u, k) <= total - Cluster!Tally(l, u, j)
    <3> DEFINE s == Cluster!Min(short)
    <3>1. s \in short /\ \A m \in short : s <= m
      <4> HIDE DEF short
      <4> QED
        BY <1>4, MinIsThere
    <3> HIDE DEF s
    <3> QED
      BY <3>1
  <2>2. \A j \in heard : Cluster!Tally(l, u, k) >= Cluster!Tally(l, u, j)
    BY <1>3, <2>1
  <2> QED
    BY <2>2
<1>6. best \in SUBSET Nat
  BY <1>2 DEF Graph
<1>7. Cluster!Winner(l, u) = Cluster!Min(best)
  BY DEF Cluster!Winner, heard
<1>8. Cluster!Winner(l, u) \in heard
  <2>1. Cluster!Min(best) \in best
    <3> HIDE DEF best
    <3> QED
      BY <1>5, <1>6, MinIsThere
  <2> QED
    BY <1>7, <2>1
<1> QED
  BY <1>8 DEF heard

(* A sweep gives a node the label of a neighbour that is not pinned, or    *)
(* leaves it its own.                                                      *)
LEMMA SweepIsLocal ==
    ASSUME Graph, NEW l, Local(l)
    PROVE  Local(Cluster!Sweep(l))
<1> DEFINE new == Cluster!Sweep(l)
<1>1. \A u \in entities : new[u] = IF u \in Cluster!Pinned \/ Cluster!Voters(u) = {}
                                   THEN l[u] ELSE Cluster!Winner(l, u)
  BY DEF Cluster!Sweep
<1>2. ASSUME NEW u \in entities
      PROVE  /\ new[u] \in entities /\ new[u] \in Cluster!Reachable(u)
             /\ u \in Cluster!Pinned \/ new[u] \in Cluster!Pinned => new[u] = u
  <2>1. CASE u \in Cluster!Pinned \/ Cluster!Voters(u) = {}
    BY <1>1, <2>1 DEF Local
  <2>2. CASE ~(u \in Cluster!Pinned \/ Cluster!Voters(u) = {})
    <3>1. PICK v \in Cluster!Voters(u) : new[u] = l[v]
      BY <1>1, <2>2, WinnerIsHeard DEF Local
    <3>2. v \in adj[u] /\ v \in entities /\ v \notin Cluster!Pinned
      BY DEF Cluster!Voters, Graph
    <3>3. Cluster!Reachable(v) = Cluster!Reachable(u)
      BY <3>2, ReachIsEquivalence
    <3>4. l[v] \in entities /\ l[v] \in Cluster!Reachable(v) /\ l[v] \notin Cluster!Pinned
      BY <3>2 DEF Local
    <3> QED
      BY <2>2, <3>1, <3>3, <3>4
  <2> QED
    BY <2>1, <2>2
<1>3. new = [u \in entities |-> new[u]]
  BY DEF Cluster!Sweep
<1> HIDE DEF new
<1>4. new \in [entities -> entities]
  BY <1>2, <1>3
<1>5. Local(new)
  BY <1>2, <1>4 DEF Local
<1> QED
  BY <1>5 DEF new

(* Resolving a cycle gives a node the label of another one of its          *)
(* component, and takes no part in what is pinned.                         *)
LEMMA ResolvedIsLocal ==
    ASSUME Graph, NEW l, Local(l), NEW S \in SUBSET (entities \ Cluster!Pinned)
    PROVE  Local(Cluster!ResolveCycle(l, S))
<1> DEFINE new == Cluster!ResolveCycle(l, S)
           of(u) == {v \in S : Cluster!Group(v) = Cluster!Group(u)}
<1>1. \A u \in entities : new[u] = IF u \in S THEN l[Cluster!Min(of(u))] ELSE l[u]
  BY DEF Cluster!ResolveCycle
<1>2. ASSUME NEW u \in entities
      PROVE  /\ new[u] \in entities /\ new[u] \in Cluster!Reachable(u)
             /\ u \in Cluster!Pinned \/ new[u] \in Cluster!Pinned => new[u] = u
  <2>1. CASE u \notin S
    BY <1>1, <2>1 DEF Local
  <2>2. CASE u \in S
    <3> DEFINE v == Cluster!Min(of(u))
    <3>1. v \in of(u)
      <4>1. of(u) \in SUBSET Nat /\ of(u) # {}
        BY <2>2 DEF Graph
      <4> HIDE DEF of
      <4> QED
        BY <4>1, MinIsThere
    <3>2. v \in entities /\ v \notin Cluster!Pinned /\ u \notin Cluster!Pinned
          /\ Cluster!Component[v] = Cluster!Component[u]
      BY <2>2, <3>1 DEF Cluster!Group
    <3>3. new[u] = l[v]
      BY <1>1, <2>2
    <3> HIDE DEF v
    <3>4. Cluster!Reachable(v) = Cluster!Reachable(u)
      BY <3>2, ComponentsAre, ReachIsEquivalence
    <3>5. l[v] \in entities /\ l[v] \in Cluster!Reachable(v) /\ l[v] \notin Cluster!Pinned
      BY <3>2 DEF Local
    <3> QED
      BY <3>2, <3>3, <3>4, <3>5
  <2> QED
    BY <2>1, <2>2
<1>3. new = [u \in entities |-> new[u]]
  BY DEF Cluster!ResolveCycle
<1> HIDE DEF new
<1>4. new \in [entities -> entities]
  BY <1>2, <1>3
<1>5. Local(new)
  BY <1>2, <1>4 DEF Local
<1> QED
  BY <1>5 DEF new

(* What is measured, swept or resolved leaves every label in its component *)
(* (cluster_graph).                                                        *)
LEMMA ClusterStep ==
    ASSUME Cluster!ClusteringAssumption, ClusterInv, [Cluster!Next]_(Cluster!vars)
    PROVE  ClusterInv'
<1> USE DEF ClusterInv
(* A label is local as long as the graph stays what it is.                 *)
<1>1. ASSUME UNCHANGED <<entities, adj, minDegree>>, Local(labels')
      PROVE  ClusterInv'
  <2>1. Graph'
    BY <1>1 DEF Graph
  <2>2. Local(labels)'
    BY <1>1 DEF Local, Cluster!Reachable, Cluster!Pinned
  <2> QED
    BY <2>1, <2>2
<1>2. ASSUME NEW E \in Snapshots, NEW R \in Relations, Cluster!ReadSnapshot(E, R)
      PROVE  ClusterInv'
  <2>1. /\ entities' = E /\ labels' = [u \in E |-> u]
        /\ adj' = [u \in E |-> {v \in E \ {u} : {<<u, v>>, <<v, u>>} \cap R # {}}]
    BY <1>2 DEF Cluster!ReadSnapshot, Cluster!BuildAdjacency
  <2>2. E \in SUBSET Nat /\ IsFiniteSet(E)
    BY SameCardinality DEF Cluster!ClusteringAssumption
  <2>3. adj' \in [E -> SUBSET E]
    BY <2>1
  <2>4. \A u \in E : \A v \in adj'[u] : u \in adj'[v]
    BY <2>1
  <2>5. Graph'
    BY <2>1, <2>2, <2>3, <2>4 DEF Graph
  <2>6. Local(labels)'
    <3>1. \A u \in E : u \in Cluster!Reachable(u)'
      BY <2>1 DEF Cluster!Reachable
    <3> QED
      BY <2>1, <3>1 DEF Local
  <2> QED
    BY <2>5, <2>6
<1>3. CASE Cluster!ReadFails \/ UNCHANGED Cluster!vars
  BY <1>1, <1>3 DEF Cluster!ReadFails, Cluster!vars
<1>4. CASE Cluster!Converge \/ Cluster!MoveOn
  <2>1. UNCHANGED <<entities, adj, minDegree>>
        /\ (labels' = labels \/ labels' = Cluster!Sweep(labels))
    BY <1>4 DEF Cluster!Converge, Cluster!MoveOn, Cluster!Swept
  <2> QED
    BY <1>1, <2>1, SweepIsLocal
<1>5. CASE Cluster!FindCycle
  <2> DEFINE new == Cluster!Sweep(labels)
             moving == {u \in entities : new[u] # labels[u]}
  <2>1. UNCHANGED <<entities, adj, minDegree>>
        /\ labels' = Cluster!ResolveCycle(new, moving)
    BY <1>5 DEF Cluster!FindCycle, Cluster!Swept
  <2>2. moving \in SUBSET (entities \ Cluster!Pinned)
    BY DEF Cluster!Sweep
  <2>3. Local(new)
    BY SweepIsLocal
  <2> HIDE DEF new, moving
  <2>4. Local(labels')
    BY <2>1, <2>2, <2>3, ResolvedIsLocal
  <2> QED
    BY <1>1, <2>1, <2>4
<1> QED
  BY <1>2, <1>3, <1>4, <1>5 DEF Cluster!Next

(* Two nodes with one label are in one connected component, in every round *)
(* and after a cycle is resolved, and no node takes over the label of a    *)
(* pinned one (cluster_graph, _resolve_cycle, connected_components).       *)
THEOREM WithinComponentsAlways ==
    ASSUME Cluster!ClusteringAssumption
    PROVE  Cluster!Spec => []Cluster!WithinComponents
<1>1. Cluster!Init => ClusterInv
  <2> SUFFICES ASSUME Cluster!Init PROVE ClusterInv
    OBVIOUS
  <2>1. entities = {} /\ adj = <<>> /\ labels = <<>>
    BY DEF Cluster!Init
  <2>2. IsFiniteSet(entities)
    BY <2>1, FS_EmptySet
  <2> QED
    BY <2>1, <2>2 DEF ClusterInv, Graph, Local
<1>2. ClusterInv /\ [Cluster!Next]_(Cluster!vars) => ClusterInv'
  BY ClusterStep
<1>3. ClusterInv => Cluster!WithinComponents
  <2> SUFFICES ASSUME ClusterInv, NEW u \in entities, NEW v \in entities
               PROVE  /\ labels[u] = labels[v] => Cluster!Component[u] = Cluster!Component[v]
                      /\ u \in Cluster!Pinned /\ u # v => labels[u] # labels[v]
    BY DEF Cluster!WithinComponents
  <2>1. /\ labels[u] \in Cluster!Reachable(u) /\ labels[v] \in Cluster!Reachable(v)
        /\ labels[u] \in entities
    BY DEF ClusterInv, Local
  <2>2. labels[u] = labels[v] => Cluster!Component[u] = Cluster!Component[v]
    BY <2>1, ComponentsAre DEF ClusterInv
  <2>3. u \in Cluster!Pinned /\ u # v => labels[u] # labels[v]
    BY DEF ClusterInv, Local
  <2> QED
    BY <2>2, <2>3
<1> QED
  BY <1>1, <1>2, <1>3, PTL DEF Cluster!Spec

(* A sweep depends on the graph and the labels alone.                      *)
LEMMA SweepStays ==
    ASSUME UNCHANGED <<entities, adj, minDegree>>, NEW i, trail'[i] = trail[i]
    PROVE  Cluster!Sweep(trail[i])' = Cluster!Sweep(trail[i])
  BY DEF Cluster!Sweep, Cluster!Winner, Cluster!Tally, Cluster!Voters, Cluster!Pinned

(* What a trail of n vectors is: each is the sweep of the one before it,   *)
(* and all but the last are different.                                     *)
Orbit ==
    /\ trail \in Seq([entities -> entities]) /\ trail # <<>>
    /\ \A i \in 1..(Len(trail) - 1) : trail[i + 1] = Cluster!Sweep(trail[i])
    /\ \A i, j \in 1..Len(trail) :
            i < j /\ trail[i] = trail[j] => j = Len(trail) /\ stage \in {"converged", "cycled"}

(* How far the loop is.                                                    *)
Progress ==
    /\ stage \in Cluster!Stage
    /\ stage = "sweeping" => labels = trail[Len(trail)] /\ Len(trail) <= MaxRounds
    /\ stage = "converged" => labels = trail[Len(trail)] /\ Cluster!Sweep(labels) = labels
    /\ stage = "cycled" => \E i \in 1..(Len(trail) - 2) : trail[i] = trail[Len(trail)]
    /\ stage = "exhausted" => Len(trail) = MaxRounds + 1 /\ labels = trail[Len(trail)]

OrbitInv ==
    /\ ClusterInv /\ Orbit /\ Progress
    /\ \A u \in entities : u \notin adj[u]

(* A further vector is the sweep of the last one; one that was there       *)
(* before ends the loop.                                                   *)
LEMMA OrbitGrows ==
    ASSUME OrbitInv, NEW s \in Cluster!Stage, Cluster!Swept(Cluster!Sweep(labels), s),
           \A i \in 1..Len(trail) :
                trail[i] = Cluster!Sweep(labels) => s \in {"converged", "cycled"}
    PROVE  /\ Orbit' /\ Len(trail') = Len(trail) + 1
           /\ trail'[Len(trail) + 1] = Cluster!Sweep(labels)
           /\ \A i \in 1..Len(trail) : trail'[i] = trail[i]
           /\ \A u \in entities' : u \notin adj'[u]
<1> DEFINE new == Cluster!Sweep(labels)
           n == Len(trail)
<1>1. /\ stage = "sweeping" /\ stage' = s /\ trail' = Append(trail, new)
      /\ UNCHANGED <<entities, adj, minDegree>>
  BY DEF Cluster!Swept
<1>2. new \in [entities -> entities]
  BY SweepIsLocal DEF OrbitInv, ClusterInv, Local
<1>3. trail \in Seq([entities -> entities]) /\ n \in Nat \ {0} /\ labels = trail[n]
  BY <1>1 DEF OrbitInv, Orbit, Progress
<1> HIDE DEF new
<1>4. /\ trail' \in Seq([entities -> entities]) /\ Len(trail') = n + 1
      /\ trail'[n + 1] = new /\ \A i \in 1..n : trail'[i] = trail[i]
  BY <1>1, <1>2, <1>3
<1>5. ASSUME NEW i \in 1..n
      PROVE  trail'[i + 1] = Cluster!Sweep(trail[i])'
  <2>1. Cluster!Sweep(trail[i])' = Cluster!Sweep(trail[i])
    BY <1>1, <1>4, SweepStays
  <2>2. CASE i = n
    BY <1>3, <1>4, <2>1, <2>2 DEF new
  <2>3. CASE i # n
    <3>1. i \in 1..(n - 1) /\ i + 1 \in 1..n
      BY <1>3, <2>3
    <3>2. trail[i + 1] = Cluster!Sweep(trail[i])
      BY <3>1 DEF OrbitInv, Orbit
    <3> QED
      BY <1>4, <2>1, <3>1, <3>2
  <2> QED
    BY <2>2, <2>3
<1>6. ASSUME NEW i \in 1..(n + 1), NEW j \in 1..(n + 1), i < j, trail'[i] = trail'[j]
      PROVE  j = n + 1 /\ s \in {"converged", "cycled"}
  <2>1. i \in 1..n
    BY <1>3, <1>6
  <2>2. CASE j = n + 1
    BY <1>4, <1>6, <2>1, <2>2 DEF new
  <2>3. CASE j # n + 1
    <3>1. j \in 1..n /\ trail[i] = trail[j]
      BY <1>3, <1>4, <1>6, <2>1, <2>3
    <3> QED
      BY <1>1, <1>6, <2>1, <3>1 DEF OrbitInv, Orbit
  <2> QED
    BY <2>2, <2>3
<1>7. trail' # <<>>
  BY <1>3, <1>4
<1>8. \A i \in 1..(Len(trail') - 1) : trail'[i + 1] = Cluster!Sweep(trail[i])'
  <2>1. Len(trail') - 1 = n
    BY <1>3, <1>4
  <2> QED
    BY <1>5, <2>1
<1>9. Orbit'
  BY <1>1, <1>4, <1>6, <1>7, <1>8 DEF Orbit
<1>10. \A u \in entities' : u \notin adj'[u]
  BY <1>1 DEF OrbitInv
<1> QED
  BY <1>4, <1>9, <1>10 DEF new

(* Reading starts a trail of one vector, and every sweep adds to it.       *)
LEMMA OrbitStep ==
    ASSUME Cluster!ClusteringAssumption, OrbitInv, [Cluster!Next]_(Cluster!vars)
    PROVE  OrbitInv'
<1>1. ClusterInv' /\ MaxRounds \in Nat \ {0}
  BY ClusterStep DEF OrbitInv, Cluster!ClusteringAssumption
<1>2. ASSUME NEW E \in Snapshots, NEW R \in Relations, Cluster!ReadSnapshot(E, R)
      PROVE  OrbitInv'
  <2>1. /\ entities' = E /\ labels' = [u \in E |-> u] /\ trail' = <<labels'>>
        /\ adj' = [u \in E |-> {v \in E \ {u} : {<<u, v>>, <<v, u>>} \cap R # {}}]
        /\ stage' = IF E = {} THEN "converged" ELSE "sweeping"
    BY <1>2 DEF Cluster!ReadSnapshot, Cluster!BuildAdjacency
  <2>2. labels' \in [entities' -> entities'] /\ Len(trail') = 1 /\ trail'[1] = labels'
    BY <2>1
  <2>3. Orbit'
    <3>1. trail' \in Seq([entities' -> entities']) /\ trail' # <<>>
      BY <2>1, <2>2
    <3>2. \A i, j \in 1..1 : ~(i < j)
      OBVIOUS
    <3> QED
      BY <2>2, <3>1, <3>2 DEF Orbit
  <2>4. E = {} => Cluster!Sweep(labels)' = labels'
    BY <2>1 DEF Cluster!Sweep
  <2>5. Progress'
    BY <1>1, <2>1, <2>2, <2>4 DEF Progress, Cluster!Stage
  <2>6. \A u \in entities' : u \notin adj'[u]
    BY <2>1
  <2> QED
    BY <1>1, <2>3, <2>5, <2>6 DEF OrbitInv
<1>3. ASSUME UNCHANGED <<entities, adj, minDegree, labels, trail>>,
             stage' = stage \/ (stage = "reading" /\ stage' = "failed")
      PROVE  OrbitInv'
  <2>1. \A i \in 1..Len(trail) : Cluster!Sweep(trail[i])' = Cluster!Sweep(trail[i])
    BY <1>3, SweepStays
  <2>2. \A i \in 1..(Len(trail) - 1) : i \in 1..Len(trail)
    BY DEF OrbitInv, Orbit
  <2>3. \A i \in 1..(Len(trail) - 1) : trail'[i + 1] = Cluster!Sweep(trail[i])'
    BY <1>3, <2>1, <2>2 DEF OrbitInv, Orbit
  <2>4. Orbit'
    BY <1>3, <2>3 DEF OrbitInv, Orbit
  <2>5. Cluster!Sweep(labels)' = Cluster!Sweep(labels)
    BY <1>3 DEF Cluster!Sweep, Cluster!Winner, Cluster!Tally, Cluster!Voters, Cluster!Pinned
  <2>6. Progress'
    BY <1>3, <2>5 DEF OrbitInv, Progress, Cluster!Stage
  <2> QED
    BY <1>1, <1>3, <2>4, <2>6 DEF OrbitInv
<1>4. CASE Cluster!ReadFails \/ UNCHANGED Cluster!vars
  <2>1. /\ UNCHANGED <<entities, adj, minDegree, labels, trail>>
        /\ stage' = stage \/ (stage = "reading" /\ stage' = "failed")
    BY <1>4 DEF Cluster!ReadFails, Cluster!vars
  <2> QED
    BY <1>3, <2>1
<1> DEFINE new == Cluster!Sweep(labels)
           n == Len(trail)
<1>5. n \in Nat \ {0} /\ (stage = "sweeping" => labels = trail[n] /\ n <= MaxRounds)
  BY DEF OrbitInv, Orbit, Progress
<1>6. CASE Cluster!Converge
  <2>1. /\ stage = "sweeping" /\ new = trail[n] /\ Cluster!Swept(new, "converged")
        /\ labels' = labels /\ UNCHANGED <<entities, adj, minDegree>> /\ stage' = "converged"
    BY <1>6 DEF Cluster!Converge, Cluster!Unchanged, Cluster!Swept
  <2>2. /\ Orbit' /\ Len(trail') = n + 1 /\ trail'[n + 1] = new
        /\ \A u \in entities' : u \notin adj'[u]
    BY <2>1, OrbitGrows DEF Cluster!Stage
  <2>3. Cluster!Sweep(labels)' = new
    BY <2>1 DEF Cluster!Sweep, Cluster!Winner, Cluster!Tally, Cluster!Voters, Cluster!Pinned
  <2>4. Progress'
    BY <1>5, <2>1, <2>2, <2>3 DEF Progress, Cluster!Stage
  <2> QED
    BY <1>1, <2>2, <2>4 DEF OrbitInv
<1>7. CASE Cluster!FindCycle
  <2>1. /\ stage = "sweeping" /\ new # trail[n] /\ Cluster!Swept(new, "cycled")
        /\ stage' = "cycled" /\ \E i \in 1..n : trail[i] = new
    BY <1>7 DEF Cluster!FindCycle, Cluster!Unchanged, Cluster!Seen, Cluster!Swept
  <2>2. /\ Orbit' /\ Len(trail') = n + 1 /\ trail'[n + 1] = new
        /\ \A i \in 1..n : trail'[i] = trail[i]
        /\ \A u \in entities' : u \notin adj'[u]
    BY <2>1, OrbitGrows DEF Cluster!Stage
  <2>3. PICK i \in 1..n : trail[i] = new
    BY <2>1
  <2>4. i # n
    BY <2>1, <2>3
  <2>5. i \in 1..(Len(trail') - 2) /\ trail'[i] = trail'[Len(trail')]
    BY <1>5, <2>2, <2>3, <2>4
  <2>6. Progress'
    BY <2>1, <2>5 DEF Progress, Cluster!Stage
  <2> QED
    BY <1>1, <2>2, <2>6 DEF OrbitInv
<1>8. CASE Cluster!MoveOn
  <2> DEFINE s == IF n = MaxRounds THEN "exhausted" ELSE "sweeping"
  <2>1. /\ stage = "sweeping" /\ Cluster!Swept(new, s) /\ stage' = s /\ labels' = new
        /\ \A i \in 1..n : trail[i] # new
    BY <1>8 DEF Cluster!MoveOn, Cluster!Seen, Cluster!Swept
  <2>2. s \in Cluster!Stage
    BY DEF Cluster!Stage
  <2>3. /\ Orbit' /\ Len(trail') = n + 1 /\ trail'[n + 1] = new
        /\ \A u \in entities' : u \notin adj'[u]
    <3> HIDE DEF s
    <3> QED
      BY <2>1, <2>2, OrbitGrows
  <2>4. Progress'
    BY <1>1, <1>5, <2>1, <2>3 DEF Progress, Cluster!Stage
  <2> QED
    BY <1>1, <2>3, <2>4 DEF OrbitInv
<1> QED
  BY <1>2, <1>4, <1>6, <1>7, <1>8 DEF Cluster!Next

(* The loop of cluster_graph follows the sweep, and stops where it has     *)
(* been: at a vector no sweep would change, at one of an earlier round, or *)
(* after max_rounds sweeps that were all different.                        *)
THEOREM TrailIsOrbitAlways ==
    ASSUME Cluster!ClusteringAssumption
    PROVE  Cluster!Spec => [](Cluster!TypeOK /\ Cluster!TrailIsOrbit)
<1>1. Cluster!Init => OrbitInv
  <2> SUFFICES ASSUME Cluster!Init PROVE OrbitInv
    OBVIOUS
  <2>1. /\ stage = "reading" /\ entities = {} /\ adj = <<>> /\ labels = <<>>
        /\ trail = <<<<>>>>
    BY DEF Cluster!Init
  <2>2. ClusterInv
    BY <2>1, FS_EmptySet DEF ClusterInv, Graph, Local
  <2>3. trail \in Seq([entities -> entities]) /\ trail # <<>> /\ Len(trail) = 1
    <3>1. <<>> \in [entities -> entities]
      BY <2>1
    <3> QED
      BY <2>1, <3>1
  <2>4. \A i, j \in 1..1 : ~(i < j)
    OBVIOUS
  <2>5. Orbit
    BY <2>3, <2>4 DEF Orbit
  <2>6. Progress
    BY <2>1 DEF Progress, Cluster!Stage
  <2> QED
    BY <2>1, <2>2, <2>5, <2>6 DEF OrbitInv
<1>2. OrbitInv /\ [Cluster!Next]_(Cluster!vars) => OrbitInv'
  BY OrbitStep
<1>3. ASSUME OrbitInv
      PROVE  Cluster!TypeOK /\ Cluster!TrailIsOrbit
  <2>1. \A i \in 1..Len(trail) : trail[i] \in [entities -> entities]
    BY <1>3 DEF OrbitInv, Orbit
  <2>2. Cluster!TypeOK
    <3>1. \A u \in entities : \A v \in adj[u] : u # v /\ u \in adj[v]
      BY <1>3 DEF OrbitInv, ClusterInv, Graph
    <3> QED
      BY <1>3, <2>1, <3>1
         DEF Cluster!TypeOK, OrbitInv, ClusterInv, Graph, Local, Orbit, Progress
  <2>3. Cluster!TrailIsOrbit
    BY <1>3 DEF Cluster!TrailIsOrbit, OrbitInv, Orbit, Progress
  <2> QED
    BY <2>2, <2>3
<1> QED
  BY <1>1, <1>2, <1>3, PTL DEF Cluster!Spec
=============================================================================
