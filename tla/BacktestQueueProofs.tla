------------------------- MODULE BacktestQueueProofs -------------------------
(* The job queue's safety, for every number of runs, workers and replicas   *)
(* and every choice of the deadlines.                                       *)
EXTENDS BacktestQueue, TLAPS

-----------------------------------------------------------------------------
LEMMA RunsFacts == NoRun \notin Runs /\ Home \in [Workers -> Replicas]
  BY QueueAssumption DEF Runs

LEMMA ConstFacts ==
  /\ ClaimTime \in Nat /\ RunTimeout \in Nat /\ EngineTime \in Nat /\ WriteTimeout \in Nat
  /\ StaleAfter \in Nat /\ MaxStops \in Nat /\ MaxFaults \in Nat
  BY QueueAssumption

(* No step changes the shape of a variable.                                 *)
LEMMA StepTypes == TypeOK /\ [Next]_vars => TypeOK'
<1> USE RunsFacts, ConstFacts
<1> SUFFICES ASSUME TypeOK, [Next]_vars PROVE TypeOK'
  OBVIOUS
<1> USE DEF TypeOK, Terminal, Holding
<1>1. CASE Table
  <2>1. ASSUME NEW S, Insert(S) PROVE TypeOK'
    BY <2>1 DEF Insert, SetStatus, workerVars
  <2>2. CASE DeleteSweep
    BY <2>2 DEF DeleteSweep, SetStatus, workerVars
  <2>3. CASE \E r \in AdHoc : CreateRun(r)
    BY <2>1, <2>3 DEF CreateRun
  <2>4. CASE CreateSweepRuns
    BY <2>1, <2>4 DEF CreateSweepRuns
  <2>5. QED
    BY <1>1, <2>2, <2>3, <2>4 DEF Table
<1>2. ASSUME NEW w \in Workers, NEW r \in Runs, Claim(w, r) PROVE TypeOK'
  BY <1>2 DEF Claim, SetStatus
<1>3. ASSUME NEW w \in Workers, Step(w) PROVE TypeOK'
  <2>1. CASE \/ Claimed(w) \/ Loaded(w) \/ LoadFails(w) \/ LoadCancelled(w)
             \/ Computed(w) \/ Settled(w)
    BY <2>1 DEF Claimed, Loaded, LoadFails, LoadCancelled, Computed, Settled, Move, rowVars
  <2>2. CASE Panic(w)
    <3>1. replica' \in [Replicas -> {"up", "stopping", "down"}]
      BY <2>2 DEF Panic
    <3>2. QED
      BY <2>2, <3>1 DEF Panic, Vanish, Crew, rowVars
  <2>3. CASE Finish(w)
    BY <2>3 DEF Finish, Release, SetStatus
  <2>4. CASE Fail(w)
    BY <2>4 DEF Fail, Release, SetStatus
  <2>5. CASE Requeue(w)
    BY <2>5 DEF Requeue, Release, SetStatus
  <2>6. QED
    BY <1>3, <2>1, <2>2, <2>3, <2>4, <2>5 DEF Step
<1>4. ASSUME NEW w \in Workers, ClaimLost(w) \/ WriteLost(w) PROVE TypeOK'
  BY <1>4 DEF ClaimLost, WriteLost, Fault, Release, rowVars
<1>5. ASSUME NEW p \in Replicas, RequeueStale(p) PROVE TypeOK'
  BY <1>5 DEF RequeueStale, SetStatus, workerVars
<1>6. ASSUME NEW p \in Replicas, Exit(p) \/ Restart(p) \/ Stop(p) PROVE TypeOK'
  BY <1>6 DEF Exit, Restart, Stop, rowVars, workerVars
<1>7. ASSUME NEW p \in Replicas, Crash(p) PROVE TypeOK'
  BY <1>7 DEF Crash, Fault, Vanish, Crew, rowVars
<1>8. CASE Tick
  BY <1>8 DEF Tick
<1>9. CASE UNCHANGED vars
  BY <1>9 DEF vars, rowVars, workerVars
<1>10. QED
  BY <1>1, <1>2, <1>3, <1>4, <1>5, <1>6, <1>7, <1>8, <1>9 DEF Next, Environment

(* Every variable keeps the shape the code gives it.                        *)
THEOREM QueueTypes == Spec => []TypeOK
<1> USE RunsFacts, ConstFacts
<1>1. Init => TypeOK
  BY DEF Init, TypeOK, Terminal, Holding
<1>2. TypeOK /\ [Next]_vars => TypeOK'
  BY StepTypes
<1>3. QED
  BY <1>1, <1>2, PTL DEF Spec
-----------------------------------------------------------------------------
(* What the proofs carry from step to step: none of the properties above is *)
(* inductive alone.  A worker keeps its row because the row is young, the   *)
(* row is young because only its worker dates it, and the unguarded updates *)
(* are harmless because the worker kept its row.                            *)
QueueInv ==
  /\ TypeOK
  /\ OneWorkerPerRun
  /\ HeldRowIsRunning
  /\ HeldWithinDeadlines
  /\ ResultsExactlyWhenDone

(* Limits and ages of the phases, for the arithmetic below.                 *)
LEMMA Deadlines ==
  /\ Limit("claim") = ClaimTime /\ Limit("load") = RunTimeout /\ Limit("engine") = EngineTime
  /\ \A p \in {"finish", "fail", "requeue"} : Limit(p) = WriteTimeout
  /\ AgeOnEntry("claim") = 0 /\ AgeOnEntry("load") = ClaimTime
  /\ AgeOnEntry("engine") = ClaimTime + RunTimeout
  /\ \A p \in {"finish", "fail", "requeue"} : AgeOnEntry(p) = ClaimTime + RunTimeout + EngineTime
  BY DEF Limit, AgeOnEntry

(* With EngineFits, the deadlines keep every held row below the janitor's   *)
(* threshold.                                                               *)
LEMMA HeldIsYoung ==
  ASSUME EngineFits, TypeOK, HeldWithinDeadlines
  PROVE  \A w \in Workers : phase[w] \in Holding => age[run[w]] <= StaleAfter
<1> SUFFICES ASSUME NEW w \in Workers, phase[w] \in Holding
             PROVE  age[run[w]] <= StaleAfter
  OBVIOUS
<1>1. run[w] \in Runs /\ spent[w] \in Nat /\ age[run[w]] \in Nat
  BY ConstFacts DEF TypeOK
<1>2. spent[w] <= Limit(phase[w]) /\ age[run[w]] <= AgeOnEntry(phase[w]) + spent[w]
  BY DEF HeldWithinDeadlines
<1>3. QED
  BY <1>1, <1>2, Deadlines, ConstFacts DEF Holding, EngineFits

(* The invariant holds of the empty table and survives every step.          *)
LEMMA InitQueueInv == Init => QueueInv
<1> SUFFICES ASSUME Init PROVE QueueInv
  OBVIOUS
<1>1. TypeOK
  BY RunsFacts, ConstFacts DEF Init, TypeOK, Terminal, Holding
<1>2. QED
  BY <1>1, RunsFacts DEF Init, QueueInv, OneWorkerPerRun, HeldRowIsRunning, HeldWithinDeadlines,
     ResultsExactlyWhenDone, Holding

(* The part of the invariant that is not about shapes.                      *)
QueueSafe ==
  /\ OneWorkerPerRun
  /\ HeldRowIsRunning
  /\ HeldWithinDeadlines
  /\ ResultsExactlyWhenDone

LEMMA StepQueueInv == EngineFits /\ QueueInv /\ [Next]_vars => QueueInv'
<1> SUFFICES ASSUME EngineFits, QueueInv, [Next]_vars PROVE QueueInv'
  OBVIOUS
<1>a. TypeOK /\ TypeOK'
  BY StepTypes DEF QueueInv
<1>b. QueueSafe
  BY DEF QueueInv, QueueSafe
<1>c. \A w \in Workers : phase[w] \in Holding => age[run[w]] <= StaleAfter
  BY <1>a, <1>b, HeldIsYoung DEF QueueSafe
<1> USE <1>a, <1>b, RunsFacts, ConstFacts, Deadlines
    DEF TypeOK, QueueSafe, OneWorkerPerRun, HeldRowIsRunning, HeldWithinDeadlines,
        ResultsExactlyWhenDone, Holding, Terminal
<1>1. ASSUME Table PROVE QueueSafe'
  <2>1. ASSUME NEW S, Insert(S) PROVE QueueSafe'
    BY <2>1 DEF Insert, SetStatus, workerVars
  <2>2. ASSUME DeleteSweep PROVE QueueSafe'
    <3>1. OneWorkerPerRun'
      BY <2>2 DEF DeleteSweep, workerVars
    <3>2. HeldRowIsRunning'
      BY <2>2 DEF DeleteSweep, SetStatus, workerVars
    <3>3. HeldWithinDeadlines'
      <4>1. \A r \in Runs : age'[r] = 0 \/ age'[r] = age[r]
        BY <2>2 DEF DeleteSweep, SetStatus
      <4>2. \A w \in Workers : phase[w] \in Holding => AgeOnEntry(phase[w]) + spent[w] >= 0
        OBVIOUS
      <4>3. QED
        BY <2>2, <4>1, <4>2 DEF DeleteSweep, workerVars
    <3>4. ResultsExactlyWhenDone'
      BY <2>2 DEF DeleteSweep, SetStatus
    <3>5. QED
      BY <3>1, <3>2, <3>3, <3>4
  <2> HIDE <1>a, <1>b, RunsFacts, ConstFacts, Deadlines
           DEF TypeOK, QueueSafe, OneWorkerPerRun, HeldRowIsRunning, HeldWithinDeadlines,
               ResultsExactlyWhenDone, Holding, Terminal
  <2>3. QED
    BY <1>1, <2>1, <2>2 DEF Table, CreateRun, CreateSweepRuns
<1>2. ASSUME NEW w \in Workers, NEW r \in Runs, Claim(w, r) PROVE QueueSafe'
  BY <1>2 DEF Claim, SetStatus
<1>3. ASSUME NEW w \in Workers, Step(w) PROVE QueueSafe'
  <2>1. CASE \/ Claimed(w) \/ Loaded(w) \/ LoadFails(w) \/ LoadCancelled(w)
             \/ Computed(w) \/ Settled(w)
    <3>0. CASE Claimed(w)
      BY <3>0 DEF Claimed, Move, rowVars
    <3>1. CASE Loaded(w)
      BY <3>1 DEF Loaded, Move, rowVars
    <3>2. CASE LoadFails(w)
      BY <3>2 DEF LoadFails, Move, rowVars
    <3>3. CASE LoadCancelled(w)
      BY <3>3 DEF LoadCancelled, Move, rowVars
    <3>4. CASE Computed(w)
      BY <3>4 DEF Computed, Move, rowVars
    <3>5. CASE Settled(w)
      BY <3>5 DEF Settled, Move, rowVars
    <3>6. QED
      BY <2>1, <3>0, <3>1, <3>2, <3>3, <3>4, <3>5
  <2>2. CASE Panic(w)
    BY <2>2 DEF Panic, Vanish, Crew, rowVars
  <2>3. CASE Finish(w)
    BY <2>3 DEF Finish, Release, SetStatus
  <2>4. CASE Fail(w)
    BY <2>4 DEF Fail, Release, SetStatus
  <2>5. CASE Requeue(w)
    BY <2>5 DEF Requeue, Release, SetStatus
  <2>6. QED
    BY <1>3, <2>1, <2>2, <2>3, <2>4, <2>5 DEF Step
<1>4. ASSUME NEW w \in Workers, ClaimLost(w) \/ WriteLost(w) PROVE QueueSafe'
  <2>1. CASE ClaimLost(w)
    BY <2>1 DEF ClaimLost, Fault, Release, rowVars
  <2>2. CASE WriteLost(w)
    BY <2>2 DEF WriteLost, Fault, Release, rowVars
  <2>3. QED
    BY <1>4, <2>1, <2>2
<1>5. ASSUME NEW p \in Replicas, RequeueStale(p) PROVE QueueSafe'
  BY <1>5, <1>c DEF RequeueStale, SetStatus, workerVars
<1>6. ASSUME NEW p \in Replicas, Exit(p) \/ Restart(p) \/ Stop(p) PROVE QueueSafe'
  BY <1>6 DEF Exit, Restart, Stop, rowVars, workerVars
<1>7. ASSUME NEW p \in Replicas, Crash(p) PROVE QueueSafe'
  BY <1>7 DEF Crash, Fault, Vanish, Crew, rowVars
<1>8. ASSUME Tick PROVE QueueSafe'
  <2>1. OneWorkerPerRun' /\ HeldRowIsRunning'
    BY <1>8 DEF Tick
  <2>2. HeldWithinDeadlines'
    <3>1. ASSUME NEW w \in Workers, phase'[w] \in Holding
          PROVE  /\ spent'[w] <= Limit(phase'[w])
                 /\ age'[run'[w]] <= AgeOnEntry(phase'[w]) + spent'[w]
      <4>1. phase'[w] = phase[w] /\ run'[w] = run[w] /\ run[w] \in Runs
        BY <1>8, <3>1 DEF Tick
      <4>2. spent'[w] = spent[w] + 1 /\ spent[w] < Limit(phase[w])
        BY <1>8, <4>1, <3>1 DEF Tick
      <4>3. age'[run[w]] <= age[run[w]] + 1
        BY <1>8, <4>1 DEF Tick
      <4>4. QED
        BY <4>1, <4>2, <4>3, <3>1
    <3>2. QED
      BY <3>1
  <2>3. ResultsExactlyWhenDone'
    BY <1>8 DEF Tick
  <2>4. QED
    BY <2>1, <2>2, <2>3
<1>9. ASSUME UNCHANGED vars PROVE QueueSafe'
  <2>1. OneWorkerPerRun' /\ HeldRowIsRunning' /\ ResultsExactlyWhenDone'
    BY <1>9 DEF vars, rowVars, workerVars
  <2>2. HeldWithinDeadlines'
    BY <1>9 DEF vars, rowVars, workerVars
  <2>3. QED
    BY <2>1, <2>2
<1> HIDE <1>a, <1>b, RunsFacts, ConstFacts, Deadlines
         DEF TypeOK, QueueSafe, OneWorkerPerRun, HeldRowIsRunning, HeldWithinDeadlines,
             ResultsExactlyWhenDone, Holding, Terminal
<1>10. QueueSafe'
  BY <1>1, <1>2, <1>3, <1>4, <1>5, <1>6, <1>7, <1>8, <1>9 DEF Next, Environment
<1>11. QED
  BY <1>a, <1>10 DEF QueueInv, QueueSafe

THEOREM QueueInvariant == EngineFits => (Spec => []QueueInv)
<1> SUFFICES ASSUME EngineFits PROVE Spec => []QueueInv
  OBVIOUS
<1>1. QueueInv /\ [Next]_vars => QueueInv'
  BY StepQueueInv
<1>2. QED
  BY <1>1, InitQueueInv, PTL DEF Spec

-----------------------------------------------------------------------------
(* The deadlines, with a bar loop that fits between them, keep every run    *)
(* somebody is working on away from the janitor.                            *)
THEOREM LiveRuns == EngineFits => (Spec => []LiveRunNeverLooksAbandoned)
<1> SUFFICES ASSUME EngineFits PROVE Spec => []LiveRunNeverLooksAbandoned
  OBVIOUS
<1>1. QueueInv => LiveRunNeverLooksAbandoned
  <2>1. SUFFICES ASSUME QueueInv, NEW w \in Workers, run[w] # NoRun
                 PROVE  age[run[w]] <= StaleAfter
    BY DEF LiveRunNeverLooksAbandoned
  <2>2. phase[w] \in Holding
    BY <2>1 DEF QueueInv, TypeOK
  <2>3. QED
    BY <2>1, <2>2, HeldIsYoung DEF QueueInv
<1>2. QED
  BY <1>1, QueueInvariant, PTL

(* No run is ever in the hands of two workers.                              *)
THEOREM ExclusiveRuns == EngineFits => (Spec => []OneWorkerPerRun)
<1>1. QueueInv => OneWorkerPerRun
  BY DEF QueueInv
<1>2. QED
  BY <1>1, QueueInvariant, PTL

(* The unguarded updates of finish and fail find the row running.           *)
THEOREM HeldRows == EngineFits => (Spec => []HeldRowIsRunning)
<1>1. QueueInv => HeldRowIsRunning
  BY DEF QueueInv
<1>2. QED
  BY <1>1, QueueInvariant, PTL

(* Results are stored exactly for the runs that are done.                   *)
THEOREM ResultsOfDoneRuns == EngineFits => (Spec => []ResultsExactlyWhenDone)
<1>1. QueueInv => ResultsExactlyWhenDone
  BY DEF QueueInv
<1>2. QED
  BY <1>1, QueueInvariant, PTL

(* A run that is done or in error stays so until its sweep is deleted.      *)
THEOREM FinalVerdicts == EngineFits => (Spec => VerdictIsFinal)
<1> DEFINE Kept == \A r \in Runs : status[r] \in Terminal => status'[r] \in {status[r], "gone"}
<1>1. ASSUME QueueInv, [Next]_vars PROVE Kept
  <2> USE <1>1, RunsFacts DEF QueueInv, TypeOK, HeldRowIsRunning, Holding, Terminal
  <2>1. ASSUME Table PROVE Kept
    BY <2>1 DEF Table, CreateRun, CreateSweepRuns, Insert, DeleteSweep, SetStatus
  <2>2. ASSUME NEW w \in Workers, NEW r \in Runs, Claim(w, r) PROVE Kept
    BY <2>2 DEF Claim, SetStatus
  <2>3. ASSUME NEW w \in Workers, Step(w) PROVE Kept
    BY <2>3 DEF Step, Claimed, Loaded, LoadFails, LoadCancelled, Computed, Panic, Finish, Fail, Requeue,
       Settled, SetStatus, rowVars
  <2>4. ASSUME NEW w \in Workers, ClaimLost(w) \/ WriteLost(w) PROVE Kept
    BY <2>4 DEF ClaimLost, WriteLost, rowVars
  <2>5. ASSUME NEW p \in Replicas, RequeueStale(p) PROVE Kept
    BY <2>5 DEF RequeueStale, SetStatus
  <2>6. ASSUME NEW p \in Replicas, Exit(p) \/ Restart(p) \/ Stop(p) \/ Crash(p) PROVE Kept
    BY <2>6 DEF Exit, Restart, Stop, Crash, rowVars
  <2>7. ASSUME Tick \/ UNCHANGED vars PROVE Kept
    BY <2>7 DEF Tick, vars, rowVars
  <2> HIDE DEF QueueInv, TypeOK, HeldRowIsRunning, Holding, Terminal, Kept
  <2>8. QED
    BY <1>1, <2>1, <2>2, <2>3, <2>4, <2>5, <2>6, <2>7 DEF Next, Environment
<1>2. QueueInv /\ [Next]_vars => [Kept]_vars
  BY <1>1
<1>3. QED
  BY <1>2, QueueInvariant, PTL DEF Spec, VerdictIsFinal, Kept

(* A running row loses its worker by a fault, by a panic, or by a shutdown  *)
(* that cancels a claim before its answer is heard: whatever else a         *)
(* shutdown interrupts is handed back.                                      *)
THEOREM CleanShutdowns == EngineFits => (Spec => OnlyUnheardClaimsAreOrphaned)
<1> DEFINE Excused(r) == \/ faults' > faults
                         \/ \E w \in Workers : run[w] = r /\ (Unheard(w) \/ Panicking(w))
           Kept == \A r \in Runs : Orphan(r)' /\ ~Orphan(r) => Excused(r)
<1>1. ASSUME QueueInv, [Next]_vars PROVE Kept
  <2> SUFFICES ASSUME NEW r \in Runs, Orphan(r)', ~Orphan(r) PROVE Excused(r)
    OBVIOUS
  <2>a. TypeOK /\ HeldRowIsRunning /\ ResultsExactlyWhenDone
    BY <1>1 DEF QueueInv
  <2>b. status'[r] = "running" /\ \A w \in Workers : run'[w] # r
    BY DEF Orphan
  <2>c. (status[r] = "running") => \E w \in Workers : run[w] = r
    BY DEF Orphan
  <2> USE <2>a, <2>b, <2>c, RunsFacts, ConstFacts DEF TypeOK, Terminal, Holding
  <2>1. ASSUME Table PROVE FALSE
    BY <2>1 DEF Table, CreateRun, CreateSweepRuns, Insert, DeleteSweep, SetStatus, workerVars
  <2>2. ASSUME NEW w \in Workers, NEW q \in Runs, Claim(w, q) PROVE FALSE
    BY <2>2 DEF Claim, SetStatus
  <2>3. ASSUME NEW w \in Workers, Step(w) PROVE Excused(r)
    <3>1. CASE \/ Claimed(w) \/ Loaded(w) \/ LoadFails(w) \/ LoadCancelled(w)
               \/ Computed(w) \/ Settled(w)
      BY <3>1 DEF Claimed, Loaded, LoadFails, LoadCancelled, Computed, Settled, Move, rowVars
    <3>2. CASE Panic(w)
      <4>1. status[r] = "running"
        BY <3>2 DEF Panic, rowVars
      <4>2. PICK v \in Workers : run[v] = r
        BY <4>1
      <4>3. v \in Crew(Home[w]) /\ Home[v] = Home[w]
        BY <3>2, <4>2 DEF Panic, Vanish, Crew
      <4>4. w \in Crew(Home[v]) /\ phase[w] = "engine" /\ run[w] \in Poison
        BY <3>2, <4>3 DEF Panic, Crew
      <4>5. Panicking(v)
        BY <4>4 DEF Panicking
      <4>6. QED
        BY <4>2, <4>5
    <3>3. CASE Finish(w)
      BY <3>3 DEF Finish, Release, SetStatus, HeldRowIsRunning, ResultsExactlyWhenDone
    <3>4. CASE Fail(w)
      BY <3>4 DEF Fail, Release, SetStatus, HeldRowIsRunning
    <3>5. CASE Requeue(w)
      BY <3>5 DEF Requeue, Release, SetStatus, HeldRowIsRunning
    <3>6. QED
      BY <2>3, <3>1, <3>2, <3>3, <3>4, <3>5 DEF Step
  <2>4. ASSUME NEW w \in Workers, ClaimLost(w) PROVE Excused(r)
    <3>1. CASE Alive(w) /\ Fault
      BY <3>1 DEF Fault
    <3>2. CASE replica[Home[w]] = "stopping"
      <4>1. run[w] = r /\ Unheard(w)
        BY <2>4, <3>2 DEF ClaimLost, Release, rowVars, Unheard
      <4>2. QED
        BY <4>1
    <3>3. QED
      BY <2>4, <3>1, <3>2 DEF ClaimLost
  <2>5. ASSUME \/ \E w \in Workers : WriteLost(w)
               \/ \E p \in Replicas : Crash(p)
        PROVE  Excused(r)
    BY <2>5 DEF WriteLost, Crash, Fault
  <2>6. ASSUME NEW p \in Replicas, RequeueStale(p) PROVE FALSE
    BY <2>6 DEF RequeueStale, SetStatus, workerVars
  <2>7. ASSUME \/ \E p \in Replicas : Exit(p) \/ Restart(p) \/ Stop(p)
               \/ Tick
               \/ UNCHANGED vars
        PROVE  FALSE
    BY <2>7 DEF Exit, Restart, Stop, Tick, vars, rowVars, workerVars
  <2> HIDE <2>a, <2>b, <2>c DEF TypeOK, Terminal, Holding, Excused
  <2>8. QED
    BY <1>1, <2>1, <2>2, <2>3, <2>4, <2>5, <2>6, <2>7 DEF Next, Environment
<1>2. QueueInv /\ [Next]_vars => [Kept]_vars
  BY <1>1
<1>3. QED
  BY <1>2, QueueInvariant, PTL DEF Spec, OnlyUnheardClaimsAreOrphaned, Kept, Excused

(* The queue implements the life cycle other modules build on.              *)
THEOREM QueueImplementsLifecycle == EngineFits => (Spec => RowsFollowTheLifecycle)
<1> SUFFICES ASSUME EngineFits PROVE Spec => Lifecycle!Spec
  BY DEF RowsFollowTheLifecycle
<1>1. Init => Lifecycle!Init
  BY DEF Init, Lifecycle!Init
<1>2. ASSUME QueueInv, [Next]_vars PROVE [Lifecycle!Next]_status
  <2> USE <1>2, RunsFacts DEF QueueInv, TypeOK, HeldRowIsRunning, Holding, Lifecycle!Set
  <2>1. ASSUME Table PROVE Lifecycle!Next
    <3>1. ASSUME NEW S \in SUBSET Runs, Insert(S) PROVE Lifecycle!Next
      <4>1. Lifecycle!Submit(S)
        BY <3>1 DEF Insert, SetStatus, Lifecycle!Submit
      <4>2. QED
        BY <4>1 DEF Lifecycle!Next
    <3>2. ASSUME DeleteSweep PROVE Lifecycle!Next
      <4>1. Children \in SUBSET Runs /\ Lifecycle!Delete(Children)
        BY <3>2 DEF DeleteSweep, SetStatus, Lifecycle!Delete, Runs
      <4>2. QED
        BY <4>1 DEF Lifecycle!Next
    <3> HIDE DEF QueueInv, TypeOK, HeldRowIsRunning, Holding
    <3>3. QED
      BY <2>1, <3>1, <3>2 DEF Table, CreateRun, CreateSweepRuns, Runs
  <2>2. ASSUME NEW w \in Workers, NEW r \in Runs, Claim(w, r) PROVE Lifecycle!Next
    <3>1. Lifecycle!Take(r)
      BY <2>2 DEF Claim, SetStatus, Lifecycle!Take
    <3>2. QED
      BY <3>1 DEF Lifecycle!Next
  <2>3. ASSUME NEW w \in Workers, Step(w) PROVE [Lifecycle!Next]_status
    <3>1. CASE Finish(w) /\ status' # status
      <4>1. run[w] \in Runs /\ Lifecycle!Settle(run[w], "done")
        BY <3>1 DEF Finish, SetStatus, Lifecycle!Settle, Lifecycle!Terminal
      <4>2. QED
        BY <4>1 DEF Lifecycle!Next, Lifecycle!Terminal
    <3>2. CASE Fail(w) /\ status' # status
      <4>1. run[w] \in Runs /\ Lifecycle!Settle(run[w], "error")
        BY <3>2 DEF Fail, SetStatus, Lifecycle!Settle, Lifecycle!Terminal
      <4>2. QED
        BY <4>1 DEF Lifecycle!Next, Lifecycle!Terminal
    <3>3. CASE Requeue(w) /\ status' # status
      <4>1. run[w] \in Runs /\ Lifecycle!HandBack({run[w]})
        BY <3>3 DEF Requeue, SetStatus, Lifecycle!HandBack
      <4>2. QED
        BY <4>1 DEF Lifecycle!Next
    <3>4. CASE \/ Claimed(w) \/ Loaded(w) \/ LoadFails(w) \/ LoadCancelled(w)
               \/ Computed(w) \/ Panic(w) \/ Settled(w)
      BY <3>4 DEF Claimed, Loaded, LoadFails, LoadCancelled, Computed, Panic, Settled, rowVars
    <3> HIDE DEF QueueInv, TypeOK, HeldRowIsRunning, Holding
    <3>5. QED
      BY <2>3, <3>1, <3>2, <3>3, <3>4 DEF Step
  <2>4. ASSUME NEW p \in Replicas, RequeueStale(p) PROVE Lifecycle!Next
    <3> DEFINE S == {r \in Runs : status[r] = "running" /\ age[r] > StaleAfter}
    <3>1. S \in SUBSET Runs /\ Lifecycle!HandBack(S)
      BY <2>4 DEF RequeueStale, SetStatus, Lifecycle!HandBack
    <3> HIDE DEF S
    <3>2. QED
      BY <3>1 DEF Lifecycle!Next
  <2>5. ASSUME \/ \E w \in Workers : ClaimLost(w) \/ WriteLost(w)
               \/ \E p \in Replicas : Exit(p) \/ Restart(p) \/ Stop(p) \/ Crash(p)
               \/ Tick
               \/ UNCHANGED vars
        PROVE  UNCHANGED status
    BY <2>5 DEF ClaimLost, WriteLost, Exit, Restart, Stop, Crash, Tick, vars, rowVars
  <2> HIDE DEF QueueInv, TypeOK, HeldRowIsRunning, Holding
  <2>6. QED
    BY <1>2, <2>1, <2>2, <2>3, <2>4, <2>5 DEF Next, Environment
<1>3. QueueInv /\ [Next]_vars => [Lifecycle!Next]_status
  BY <1>2
<1>4. QED
  BY <1>1, <1>3, QueueInvariant, PTL DEF Spec, Lifecycle!Spec

=============================================================================
