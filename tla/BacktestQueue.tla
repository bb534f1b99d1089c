---------------------------- MODULE BacktestQueue ----------------------------
(***************************************************************************)
(* The backtest job queue: the rows of backtest_runs, the workers that     *)
(* claim them, the janitor that requeues what looks abandoned, and the     *)
(* processes ("replicas") they live in, which shut down, crash and come    *)
(* back.  internal/backtest/runner.go and sql/queries/backtests.sql.       *)
(*                                                                         *)
(* A row has no owner column: who works on a run is known only to the      *)
(* worker's own stack, so nothing in the table stops a second worker from  *)
(* claiming a row the janitor put back.  What keeps two workers apart is   *)
(* time, and time is therefore part of the model: Tick advances every      *)
(* clock by one unit, and no worker may outstay the limit of its phase.    *)
(*                                                                         *)
(* A definition whose comment starts with "Bug:" is part of no action.  It *)
(* is a wrong version of the definition that follows it, kept to show that *)
(* the properties below tell the two apart.                                *)
(***************************************************************************)
EXTENDS Naturals, FiniteSets

CONSTANTS
  AdHoc,          \* runs a user queues on their own (sweep_id IS NULL)
  Children,       \* runs that belong to a sweep
  Poison,         \* runs whose execution panics inside the engine
  Workers,        \* worker goroutines, over all replicas
  Replicas,       \* server processes sharing the database
  Home,           \* the replica each worker lives in
  NoRun,          \* what an idle worker holds
  ClaimTime,      \* longest the answer of a claim takes; no deadline bounds it
  RunTimeout,     \* deadline of the context the candles are loaded under
  EngineTime,     \* longest the bar loop takes; it looks at no context
  WriteTimeout,   \* deadline of the detached context of a result write
  StaleAfter,     \* age beyond which the janitor requeues a running row
  MaxStops,       \* bound: shutdowns in a behaviour
  MaxFaults       \* bound: crashes, lost writes and lost answers in a behaviour

Runs == AdHoc \cup Children

ASSUME QueueAssumption ==
  /\ AdHoc \cap Children = {}
  /\ NoRun \notin Runs
  /\ Poison \subseteq Runs
  /\ Home \in [Workers -> Replicas]
  /\ {ClaimTime, RunTimeout, EngineTime, WriteTimeout, StaleAfter, MaxStops, MaxFaults} \subseteq Nat

(* The claim's round trip and the bar loop fit in what the deadlines leave  *)
(* of the stale window.  The code never enforces this: the claim runs on    *)
(* the root context, and the loop is what the 50,000-bar cap is meant to    *)
(* bound.                                                                   *)
EngineFits == ClaimTime + RunTimeout + EngineTime + WriteTimeout <= StaleAfter

VARIABLES
  status,      \* row: "new" until inserted, then the status column, "gone" once deleted
  created,     \* row: created_at, as the ordinal of the inserting transaction
  age,         \* row: time since started_at while running, up to StaleAfter + 1
  results,     \* the runs whose trades, equity and metrics are stored
  phase,       \* worker: where it is in step()
  run,         \* worker: the run it holds, or has claimed without knowing it yet
  spent,       \* worker: time since it entered its phase
  replica,     \* process: "up", "stopping" (context cancelled) or "down"
  inserts,     \* insert transactions so far
  stops,       \* shutdowns so far
  faults       \* crashes, lost writes and lost answers so far

rowVars == <<status, created, age, results, inserts>>
workerVars == <<phase, run, spent>>
vars == <<rowVars, workerVars, replica, stops, faults>>

Terminal == {"done", "error"}
Holding  == {"claim", "load", "engine", "finish", "fail", "requeue"}

(* Bug: the loads are given twice their deadline.                           *)
LimitLaxLoad(p) == CASE p = "claim"  -> ClaimTime
                     [] p = "load"   -> 2 * RunTimeout + 1
                     [] p = "engine" -> EngineTime
                     [] OTHER        -> WriteTimeout

(* The longest a worker may stay in a phase.  Loading runs under the run's  *)
(* deadline, writes under a detached one; the bar loop is bounded only by   *)
(* the work there is.                                                       *)
Limit(p) == CASE p = "claim"  -> ClaimTime
              [] p = "load"   -> RunTimeout
              [] p = "engine" -> EngineTime
              [] OTHER        -> WriteTimeout

Alive(w) == replica[Home[w]] # "down"
Crew(p)  == {w \in Workers : Home[w] = p}

-----------------------------------------------------------------------------
(* Worker bookkeeping shared by the actions below.                          *)

Move(w, p) ==
  /\ phase' = [phase EXCEPT ![w] = p]
  /\ spent' = [spent EXCEPT ![w] = 0]
  /\ UNCHANGED run

Release(w, p) ==
  /\ phase' = [phase EXCEPT ![w] = p]
  /\ spent' = [spent EXCEPT ![w] = 0]
  /\ run'   = [run EXCEPT ![w] = NoRun]

(* Every worker in W loses its stack: nothing is written on the way out.    *)
Vanish(W) ==
  /\ phase' = [w \in Workers |-> IF w \in W THEN "idle" ELSE phase[w]]
  /\ spent' = [w \in Workers |-> IF w \in W THEN 0 ELSE spent[w]]
  /\ run'   = [w \in Workers |-> IF w \in W THEN NoRun ELSE run[w]]

Fault ==
  /\ faults < MaxFaults
  /\ faults' = faults + 1

(* Every status change either sets started_at or leaves a row it no longer  *)
(* matters for, so a row's age starts again from zero.                      *)
SetStatus(S, s) ==
  /\ status' = [r \in Runs |-> IF r \in S THEN s ELSE status[r]]
  /\ age'    = [r \in Runs |-> IF r \in S THEN 0 ELSE age[r]]

-----------------------------------------------------------------------------
(* The API's side of the table.                                             *)

(* Rows inserted by one transaction share a created_at.                     *)
Insert(S) ==
  /\ S # {}
  /\ \A r \in S : status[r] = "new"
  /\ SetStatus(S, "queued")
  /\ inserts' = inserts + 1
  /\ created' = [r \in Runs |-> IF r \in S THEN inserts + 1 ELSE created[r]]
  /\ UNCHANGED <<results, workerVars, replica, stops, faults>>

(* Some process has to be there to serve the request.                       *)
Served == \E p \in Replicas : replica[p] # "down"

CreateRun(r) == Served /\ Insert({r})

CreateSweepRuns == Served /\ Insert(Children)

(* Deleting a sweep cascades to its runs and to what they stored, whatever  *)
(* state they are in and whoever is working on them.                        *)
DeleteSweep ==
  /\ Served
  /\ \E r \in Children : status[r] \notin {"new", "gone"}
  /\ SetStatus(Children, "gone")
  /\ results' = results \ Children
  /\ UNCHANGED <<created, inserts, workerVars, replica, stops, faults>>

-----------------------------------------------------------------------------
(* The worker's step().                                                     *)

(* ORDER BY (sweep_id IS NOT NULL), created_at.                             *)
Before(q, r) ==
  \/ q \in AdHoc /\ r \in Children
  \/ (q \in AdHoc <=> r \in AdHoc) /\ created[q] < created[r]

(* The claim is one UPDATE over a SKIP LOCKED subselect, so two claims can  *)
(* never take the same row.  The row is running from here on; the worker    *)
(* hears of it later (Claimed) or never (ClaimLost).  The statement is      *)
(* taken to commit as it starts, which is when NOW() dates the row: until   *)
(* it commits every other claim skips the locked row all the same.          *)
Claim(w, r) ==
  /\ replica[Home[w]] = "up"
  /\ phase[w] = "idle"
  /\ status[r] = "queued"
  /\ \A q \in Runs : status[q] = "queued" => ~Before(q, r)
  /\ SetStatus({r}, "running")
  /\ phase' = [phase EXCEPT ![w] = "claim"]
  /\ spent' = [spent EXCEPT ![w] = 0]
  /\ run'   = [run EXCEPT ![w] = r]
  /\ UNCHANGED <<created, results, inserts, replica, stops, faults>>

(* The row comes back.  The driver may still deliver it in a process that   *)
(* has begun to shut down.                                                  *)
Claimed(w) ==
  /\ Alive(w)
  /\ phase[w] = "claim"
  /\ Move(w, "load")
  /\ UNCHANGED <<rowVars, replica, stops, faults>>

(* The root context is cancelled, or the connection breaks, under a claim   *)
(* that has committed: step() returns without a row and nobody holds it.    *)
ClaimLost(w) ==
  /\ phase[w] = "claim"
  /\ \/ replica[Home[w]] = "stopping" /\ UNCHANGED faults
     \/ Alive(w) /\ Fault
  /\ Release(w, "idle")
  /\ UNCHANGED <<rowVars, replica, stops>>

(* Spec, basket and candles are read; the bar loop may begin.  A cancelled  *)
(* context fails the reads, so this needs the replica up.                   *)
Loaded(w) ==
  /\ replica[Home[w]] = "up"
  /\ phase[w] = "load"
  /\ Move(w, "engine")
  /\ UNCHANGED <<rowVars, replica, stops, faults>>

(* A missing symbol, too few bars, or the run's own deadline.               *)
LoadFails(w) ==
  /\ replica[Home[w]] = "up"
  /\ phase[w] = "load"
  /\ Move(w, "fail")
  /\ UNCHANGED <<rowVars, replica, stops, faults>>

(* Bug: a cancelled run is dropped instead of being handed back.            *)
LoadCancelledDrops(w) ==
  /\ replica[Home[w]] = "stopping"
  /\ phase[w] = "load"
  /\ Release(w, "idle")
  /\ UNCHANGED <<rowVars, replica, stops, faults>>

(* The process is shutting down: the error is the cancellation's.           *)
LoadCancelled(w) ==
  /\ replica[Home[w]] = "stopping"
  /\ phase[w] = "load"
  /\ Move(w, "requeue")
  /\ UNCHANGED <<rowVars, replica, stops, faults>>

(* The bar loop takes no context, so it ends the same way in a process that *)
(* is shutting down.                                                        *)
Computed(w) ==
  /\ Alive(w)
  /\ phase[w] = "engine"
  /\ run[w] \notin Poison
  /\ Move(w, "finish")
  /\ UNCHANGED <<rowVars, replica, stops, faults>>

(* Nothing recovers a worker's panic: it takes the whole process down.      *)
Panic(w) ==
  /\ Alive(w)
  /\ phase[w] = "engine"
  /\ run[w] \in Poison
  /\ Vanish(Crew(Home[w]))
  /\ replica' = [replica EXCEPT ![Home[w]] = "down"]
  /\ UNCHANGED <<rowVars, stops, faults>>

(* Results and status go in one transaction, on a context detached from any *)
(* cancellation.  The equity rows' key and their foreign key make it fail   *)
(* as a whole when results are already there or the row is gone; the status *)
(* update itself has no guard.                                              *)
Finish(w) ==
  /\ Alive(w)
  /\ phase[w] = "finish"
  /\ IF run[w] \in results \/ status[run[w]] = "gone"
     THEN UNCHANGED <<status, age, results>>
     ELSE /\ SetStatus({run[w]}, "done")
          /\ results' = results \cup {run[w]}
  /\ Release(w, "settle")
  /\ UNCHANGED <<created, inserts, replica, stops, faults>>

(* FailBacktestRun updates whatever row still has the id.                   *)
Fail(w) ==
  /\ Alive(w)
  /\ phase[w] = "fail"
  /\ IF status[run[w]] = "gone" THEN UNCHANGED <<status, age>> ELSE SetStatus({run[w]}, "error")
  /\ Release(w, "settle")
  /\ UNCHANGED <<created, results, inserts, replica, stops, faults>>

(* RequeueBacktestRun is guarded by status = 'running'.                     *)
Requeue(w) ==
  /\ Alive(w)
  /\ phase[w] = "requeue"
  /\ IF status[run[w]] = "running" THEN SetStatus({run[w]}, "queued") ELSE UNCHANGED <<status, age>>
  /\ Release(w, "idle")
  /\ UNCHANGED <<created, results, inserts, replica, stops, faults>>

(* Bug: the copies are not rolled back with the status update.              *)
WriteLostHalfway(w) ==
  /\ Fault
  /\ Alive(w)
  /\ phase[w] \in {"finish", "fail", "requeue"}
  /\ results' = IF phase[w] = "finish" THEN results \cup {run[w]} ELSE results
  /\ Release(w, IF phase[w] = "requeue" THEN "idle" ELSE "settle")
  /\ UNCHANGED <<status, created, age, inserts, replica, stops>>

(* A write that errors or outlives its deadline leaves the row as it was;   *)
(* step() only logs it, and still settles unless it was handing a run back. *)
WriteLost(w) ==
  /\ Fault
  /\ Alive(w)
  /\ phase[w] \in {"finish", "fail", "requeue"}
  /\ Release(w, IF phase[w] = "requeue" THEN "idle" ELSE "settle")
  /\ UNCHANGED <<rowVars, replica, stops>>

(* settled(): what a sweep's run triggers here is module WalkForward's.     *)
Settled(w) ==
  /\ Alive(w)
  /\ phase[w] = "settle"
  /\ Move(w, "idle")
  /\ UNCHANGED <<rowVars, replica, stops, faults>>

-----------------------------------------------------------------------------
(* The janitor, the processes and the clock.                                *)

(* Bug: the janitor forgets the age condition.                              *)
RequeueStaleAnyAge(p) ==
  /\ replica[p] = "up"
  /\ \E r \in Runs : status[r] = "running"
  /\ SetStatus({r \in Runs : status[r] = "running"}, "queued")
  /\ UNCHANGED <<created, results, inserts, workerVars, replica, stops, faults>>

(* Bug: the janitor requeues whatever was started long ago, running or not. *)
RequeueStaleAnyStatus(p) ==
  /\ replica[p] = "up"
  /\ \E r \in Runs : status[r] = "running" /\ age[r] > StaleAfter
  /\ SetStatus({r \in Runs : status[r] \in {"running", "error"}}, "queued")
  /\ UNCHANGED <<created, results, inserts, workerVars, replica, stops, faults>>

(* Bug: the janitor only requeues when nothing else is waiting.             *)
RequeueStaleWhenEmpty(p) ==
  /\ replica[p] = "up"
  /\ \A r \in Runs : status[r] \in {"running", "gone"}
  /\ \E r \in Runs : status[r] = "running" /\ age[r] > StaleAfter
  /\ SetStatus({r \in Runs : status[r] = "running" /\ age[r] > StaleAfter}, "queued")
  /\ UNCHANGED <<created, results, inserts, workerVars, replica, stops, faults>>

(* Every five minutes, in every replica that is up.                         *)
RequeueStale(p) ==
  /\ replica[p] = "up"
  /\ \E r \in Runs : status[r] = "running" /\ age[r] > StaleAfter
  /\ SetStatus({r \in Runs : status[r] = "running" /\ age[r] > StaleAfter}, "queued")
  /\ UNCHANGED <<created, results, inserts, workerVars, replica, stops, faults>>

(* SIGTERM cancels the root context.                                        *)
Stop(p) ==
  /\ stops < MaxStops
  /\ replica[p] = "up"
  /\ stops' = stops + 1
  /\ replica' = [replica EXCEPT ![p] = "stopping"]
  /\ UNCHANGED <<rowVars, workerVars, faults>>

(* runner.Wait() returns once every worker has left its loop.               *)
Exit(p) ==
  /\ replica[p] = "stopping"
  /\ \A w \in Crew(p) : phase[w] = "idle"
  /\ replica' = [replica EXCEPT ![p] = "down"]
  /\ UNCHANGED <<rowVars, workerVars, stops, faults>>

(* SIGKILL, out of memory, power: also what cuts a slow shutdown short.     *)
Crash(p) ==
  /\ Fault
  /\ replica[p] # "down"
  /\ replica' = [replica EXCEPT ![p] = "down"]
  /\ Vanish(Crew(p))
  /\ UNCHANGED <<rowVars, stops>>

Restart(p) ==
  /\ replica[p] = "down"
  /\ replica' = [replica EXCEPT ![p] = "up"]
  /\ UNCHANGED <<rowVars, workerVars, stops, faults>>

Tick ==
  /\ \A w \in Workers : phase[w] \in Holding => spent[w] < Limit(phase[w])
  /\ age'   = [r \in Runs |-> IF status[r] = "running" /\ age[r] <= StaleAfter
                              THEN age[r] + 1 ELSE age[r]]
  /\ spent' = [w \in Workers |-> IF phase[w] \in Holding THEN spent[w] + 1 ELSE spent[w]]
  /\ UNCHANGED <<status, created, results, inserts, phase, run, replica, stops, faults>>

-----------------------------------------------------------------------------

Init ==
  /\ status  = [r \in Runs |-> "new"]
  /\ created = [r \in Runs |-> 0]
  /\ age     = [r \in Runs |-> 0]
  /\ results = {}
  /\ phase   = [w \in Workers |-> "idle"]
  /\ run     = [w \in Workers |-> NoRun]
  /\ spent   = [w \in Workers |-> 0]
  /\ replica = [p \in Replicas |-> "up"]
  /\ inserts = 0
  /\ stops = 0
  /\ faults = 0

Table == (\E r \in AdHoc : CreateRun(r)) \/ CreateSweepRuns \/ DeleteSweep

(* What a worker does next once it holds a run, or has just let go of one.  *)
Step(w) ==
  \/ Claimed(w)
  \/ Loaded(w)  \/ LoadFails(w) \/ LoadCancelled(w)
  \/ Computed(w) \/ Panic(w)
  \/ Finish(w) \/ Fail(w) \/ Requeue(w) \/ Settled(w)

Environment == \E p \in Replicas : Stop(p) \/ Crash(p)

Next ==
  \/ Table
  \/ \E w \in Workers : (\E r \in Runs : Claim(w, r)) \/ Step(w) \/ ClaimLost(w) \/ WriteLost(w)
  \/ \E p \in Replicas : RequeueStale(p) \/ Exit(p) \/ Restart(p)
  \/ Environment
  \/ Tick

Spec == Init /\ [][Next]_vars

(* A worker polls every two seconds and runs its step to the end, the       *)
(* janitor's timer keeps firing, a stopped container is restarted and time  *)
(* passes.  Nobody is obliged to submit, delete, stop, crash, or lose a     *)
(* write or an answer.                                                      *)
Fairness ==
  /\ \A w \in Workers : WF_vars(\E r \in Runs : Claim(w, r)) /\ WF_vars(Step(w))
  /\ \A p \in Replicas : WF_vars(RequeueStale(p)) /\ WF_vars(Exit(p)) /\ WF_vars(Restart(p))
  /\ WF_vars(Tick)

FairSpec == Spec /\ Fairness

-----------------------------------------------------------------------------
(* Properties.                                                              *)

(* Every variable has the shape the code gives it.                          *)
TypeOK ==
  /\ status  \in [Runs -> {"new", "queued", "running", "gone"} \cup Terminal]
  /\ created \in [Runs -> Nat]
  /\ age     \in [Runs -> 0 .. StaleAfter + 1]
  /\ results \subseteq Runs
  /\ phase   \in [Workers -> {"idle", "settle"} \cup Holding]
  /\ run     \in [Workers -> Runs \cup {NoRun}]
  /\ spent   \in [Workers -> Nat]
  /\ replica \in [Replicas -> {"up", "stopping", "down"}]
  /\ inserts \in Nat
  /\ stops \in Nat
  /\ faults \in Nat
  /\ \A w \in Workers : phase[w] \in Holding <=> run[w] \in Runs

(* No two workers, of whatever replicas, ever work on the same run: the     *)
(* claim hands a row to one worker and the janitor never takes it back from *)
(* a worker that is still alive.                                            *)
OneWorkerPerRun ==
  \A v, w \in Workers : (run[v] = run[w] /\ run[w] # NoRun) => v = w

(* A run somebody is still working on is never old enough for the janitor   *)
(* to requeue it ("a live run can never look abandoned").                   *)
LiveRunNeverLooksAbandoned ==
  \A w \in Workers : run[w] # NoRun => age[run[w]] <= StaleAfter

(* The row a worker holds still says running, unless the sweep it belongs   *)
(* to was deleted under it: so the unguarded updates of finish and fail     *)
(* never overwrite anything but 'running'.                                  *)
HeldRowIsRunning ==
  \A w \in Workers : run[w] # NoRun => status[run[w]] \in {"running", "gone"}

(* How old a row can be when its worker enters a phase.                     *)
AgeOnEntry(p) == CASE p = "claim"  -> 0
                   [] p = "load"   -> ClaimTime
                   [] p = "engine" -> ClaimTime + RunTimeout
                   [] OTHER        -> ClaimTime + RunTimeout + EngineTime

(* A held row is no older than the deadlines of the phases behind its       *)
(* worker plus the time spent in this one, whatever route step() took: the  *)
(* reason why LiveRunNeverLooksAbandoned holds at all.                      *)
HeldWithinDeadlines ==
  \A w \in Workers : phase[w] \in Holding =>
    /\ spent[w] <= Limit(phase[w])
    /\ age[run[w]] <= AgeOnEntry(phase[w]) + spent[w]

(* Results are stored for the runs that are done and for no others: neither *)
(* a lost write, a crash between the copies, nor a deleted sweep leaves     *)
(* half of them behind.                                                     *)
ResultsExactlyWhenDone ==
  results = {r \in Runs : status[r] = "done"}

(* A running row that no worker has in hand: only the janitor helps it.     *)
Orphan(r) == status[r] = "running" /\ \A w \in Workers : run[w] # r

(* The worker has committed a claim whose answer its cancelled context may  *)
(* keep from it.                                                            *)
Unheard(w) == phase[w] = "claim" /\ replica[Home[w]] = "stopping"

(* The worker's process is about to go down with a panic.                   *)
Panicking(w) ==
  \E v \in Crew(Home[w]) : phase[v] = "engine" /\ run[v] \in Poison

(* A clean shutdown hands back every run that was being worked on.  A       *)
(* running row loses its worker by a fault (crash, lost write, broken       *)
(* connection), by a panic in its process, or by a shutdown that cancels a  *)
(* claim before its answer is heard, and by no other step.                  *)
OnlyUnheardClaimsAreOrphaned ==
  [][\A r \in Runs : Orphan(r)' /\ ~Orphan(r) =>
       \/ faults' > faults
       \/ \E w \in Workers : run[w] = r /\ (Unheard(w) \/ Panicking(w))]_vars

(* A verdict is final: once a run is done or in error no step changes that, *)
(* short of deleting the sweep it belongs to.                               *)
VerdictIsFinal ==
  [][\A r \in Runs : status[r] \in Terminal => status'[r] \in {status[r], "gone"}]_vars

(* Seen through the status column alone, the whole of it is RunLifecycle.   *)
Lifecycle == INSTANCE RunLifecycle WITH Runs <- Runs, status <- status
RowsFollowTheLifecycle == Lifecycle!Spec

(* Every run that is queued ends with a verdict, whatever shutdowns,        *)
(* crashes and lost writes happen on the way (finitely many of them), and   *)
(* however often another run panics.                                        *)
EveryRunSettles ==
  \A r \in Runs \ Poison : status[r] = "queued" ~> status[r] \in Terminal \cup {"gone"}
=============================================================================
