----------------------------- MODULE WalkForward -----------------------------
(***************************************************************************)
(* One walk-forward sweep.  Every fold runs the whole grid in sample; once *)
(* all of a fold's in-sample runs have stopped, whoever notices picks the  *)
(* best point and queues it over the fold's next window.  Noticing is      *)
(* promote() in internal/backtest/runner.go: a worker does it each time it *)
(* settles a run of a sweep, the janitor of each process every five        *)
(* minutes, and none of its statements share a transaction.                *)
(*                                                                         *)
(* The rows themselves are RunLifecycle's: what BacktestQueue guarantees   *)
(* of claims, verdicts and requeues is taken from there.                   *)
(*                                                                         *)
(* "Bug:" introduces a wrong version of the definition after it, kept to   *)
(* show that the properties notice.                                        *)
(***************************************************************************)
EXTENDS Naturals

CONSTANTS
  Folds,        \* of the sweep's plan
  Points,       \* number of points of the grid
  Scores,       \* what Metrics.Score can say of a run, as naturals
  Workers,      \* run executions, each promoting what it settles
  Janitors,     \* the five-minute timers, which only promote
  NoRun,        \* what an idle worker holds
  NoPoint,      \* no winner
  NoFold,       \* no fold
  Unscored,     \* the verdict "done" of a run that took no trade
  MaxFaults     \* bound: crashes and failed statements in a behaviour

Grid      == 1 .. Points
Promoters == Workers \cup Janitors

(* An out-of-sample row gets a fresh id from whoever inserts it.            *)
InSample == {"in"} \X Folds \X Grid
Tests    == {"out"} \X Folds \X Promoters
Runs     == InSample \cup Tests

ASSUME WalkForwardAssumption ==
  /\ Points \in Nat \ {0}
  /\ Scores \subseteq Nat
  /\ Unscored \notin Nat
  /\ Workers \cap Janitors = {}
  /\ NoRun \notin Runs
  /\ NoFold \notin Folds
  /\ NoPoint \notin Grid
  /\ MaxFaults \in Nat

VARIABLES
  status,    \* the sweep's rows, as in RunLifecycle
  sweep,     \* the sweep row: "new", "there" or "gone"
  score,     \* in-sample run: its score once done
  point,     \* out-of-sample run: the grid point it was queued with
  basket,    \* out-of-sample runs whose symbol rows are written
  loaded,    \* out-of-sample run: what its last execution loaded: "none", "basket" or "primary"
  pc,        \* promoter: where it is
  held,      \* worker: the run it executes
  todo,      \* promoter: folds ReadyWalkForwardFolds returned and advance() has yet to see
  fold,      \* promoter: the fold advance() is about
  pick,      \* promoter: bestOf's answer
  faults     \* crashes and failed statements so far

rowVars  == <<status, sweep, score, point, basket>>
stackVars == <<pc, held, todo, fold, pick>>
vars == <<rowVars, loaded, stackVars, faults>>

Table == INSTANCE RunLifecycle
Active == Table!Active
Terminal == Table!Terminal

-----------------------------------------------------------------------------
(* The queries and bestOf.                                                  *)

FoldRuns(f)  == {r \in InSample : r[2] = f}
FoldTests(f) == {r \in Tests : r[2] = f}
Exists(r)    == status[r] \notin {"new", "gone"}

(* Bug: only queued runs are counted as unfinished.                         *)
ReadyTooEarly(f) ==
  /\ \A r \in FoldRuns(f) : status[r] # "queued"
  /\ \E r \in FoldRuns(f) : status[r] = "done"
  /\ \A t \in FoldTests(f) : ~Exists(t)

(* ReadyWalkForwardFolds: HAVING no queued or running, some done, and no    *)
(* out-of-sample row yet.                                                   *)
Ready(f) ==
  /\ \A r \in FoldRuns(f) : status[r] \notin Active
  /\ \E r \in FoldRuns(f) : status[r] = "done"
  /\ \A t \in FoldTests(f) : ~Exists(t)

(* ListSweepFoldRuns keeps the done ones and Score refuses those without a  *)
(* trade.                                                                   *)
Scored(f, p) == status[<<"in", f, p>>] = "done" /\ score[<<"in", f, p>>] # Unscored

FoldScores(f) ==
  [p \in Grid |-> IF Scored(f, p) THEN score[<<"in", f, p>>] ELSE Unscored]

(* The first point among those with the highest score.                      *)
Winners(scores) ==
  {p \in Grid : /\ scores[p] # Unscored
                /\ \A q \in Grid : scores[q] # Unscored =>
                     scores[q] < scores[p] \/ (scores[q] = scores[p] /\ p <= q)}

FirstBest(scores) ==
  IF Winners(scores) = {} THEN NoPoint ELSE CHOOSE p \in Winners(scores) : TRUE

BestOf(f) == FirstBest(FoldScores(f))

-----------------------------------------------------------------------------
(* The sweep row and the runs' executions.                                  *)

(* createSweep: the sweep, its symbols, its in-sample runs and their        *)
(* baskets in one transaction.                                              *)
CreateSweep ==
  /\ sweep = "new"
  /\ sweep' = "there"
  /\ Table!Submit(InSample)
  /\ UNCHANGED <<score, point, basket, loaded, stackVars, faults>>

(* handleDeleteSweep, cascading to every row of the sweep.                  *)
DeleteSweep ==
  /\ sweep = "there"
  /\ sweep' = "gone"
  /\ Table!Delete({r \in Runs : Exists(r)})
  /\ basket' = {}
  /\ UNCHANGED <<score, point, loaded, stackVars, faults>>

(* Where a promoter is inside advance().                                    *)
Advancing == {"advance", "choose", "insert", "basket"}

At(w, here) == pc[w] = here
Goto(w, there) == pc' = [pc EXCEPT ![w] = there]

Claim(w, r) ==
  /\ At(w, "idle")
  /\ Table!Take(r)
  /\ held' = [held EXCEPT ![w] = r]
  /\ Goto(w, "loading")
  /\ UNCHANGED <<sweep, score, point, basket, loaded, todo, fold, pick, faults>>

(* basket() falls back to the run's primary symbol when it finds no rows.   *)
Load(w) ==
  /\ At(w, "loading")
  /\ loaded' = IF held[w] \in Tests
               THEN [loaded EXCEPT ![held[w]] = IF held[w] \in basket THEN "basket" ELSE "primary"]
               ELSE loaded
  /\ Goto(w, "executing")
  /\ UNCHANGED <<rowVars, held, todo, fold, pick, faults>>

(* The verdict is written, unless the sweep has been deleted meanwhile;     *)
(* then settled() promotes, or skips it in a process that is shutting down. *)
Settle(w) ==
  /\ At(w, "executing")
  /\ \/ /\ status[held[w]] = "gone"
        /\ UNCHANGED <<status, score>>
     \/ /\ Table!Settle(held[w], "done")
        /\ IF held[w] \in InSample
           THEN \E s \in Scores \cup {Unscored} : score' = [score EXCEPT ![held[w]] = s]
           ELSE UNCHANGED score
     \/ /\ Table!Settle(held[w], "error")
        /\ UNCHANGED score
  /\ held' = [held EXCEPT ![w] = NoRun]
  /\ \E next \in {"looking", "idle"} : Goto(w, next)
  /\ UNCHANGED <<sweep, point, basket, loaded, todo, fold, pick, faults>>

(* A running row nobody works on any more is put back in time.              *)
Reclaim(r) ==
  /\ \A w \in Workers : held[w] # r
  /\ Table!HandBack({r})
  /\ UNCHANGED <<sweep, score, point, basket, loaded, stackVars, faults>>

-----------------------------------------------------------------------------
(* promote() and advance(), one statement at a time.                        *)

(* Bug: the timer requeues stale rows and promotes nothing.                 *)
TimerOnlyRequeues(j) ==
  /\ At(j, "idle")
  /\ UNCHANGED vars

(* The timer of sweep() goes off.                                           *)
TimerFires(j) ==
  /\ At(j, "idle")
  /\ Goto(j, "looking")
  /\ UNCHANGED <<rowVars, loaded, held, todo, fold, pick, faults>>

Look(w) ==
  /\ At(w, "looking")
  /\ todo' = [todo EXCEPT ![w] = {f \in Folds : Ready(f)}]
  /\ Goto(w, "next")
  /\ UNCHANGED <<rowVars, loaded, held, fold, pick, faults>>

NextFold(w) ==
  /\ At(w, "next")
  /\ \/ /\ todo[w] = {}
        /\ Goto(w, "idle")
        /\ UNCHANGED <<todo, fold>>
     \/ \E f \in todo[w] :
          /\ todo' = [todo EXCEPT ![w] = @ \ {f}]
          /\ fold' = [fold EXCEPT ![w] = f]
          /\ Goto(w, "advance")
  /\ UNCHANGED <<rowVars, loaded, held, pick, faults>>

(* Whatever ends advance() early sends promote() to the next fold.          *)
Leave(w) ==
  /\ Goto(w, "next")
  /\ fold' = [fold EXCEPT ![w] = NoFold]
  /\ pick' = [pick EXCEPT ![w] = NoPoint]
  /\ UNCHANGED <<held, todo>>

(* GetSweepByID.                                                            *)
ReadSweep(w) ==
  /\ At(w, "advance")
  /\ IF sweep = "gone"
     THEN Leave(w)
     ELSE Goto(w, "choose") /\ UNCHANGED <<held, todo, fold, pick>>
  /\ UNCHANGED <<rowVars, loaded, faults>>

(* ListSweepFoldRuns and bestOf.                                            *)
Choose(w) ==
  /\ At(w, "choose")
  /\ IF BestOf(fold[w]) = NoPoint
     THEN Leave(w)
     ELSE /\ pick' = [pick EXCEPT ![w] = BestOf(fold[w])]
          /\ Goto(w, "insert")
          /\ UNCHANGED <<held, todo, fold>>
  /\ UNCHANGED <<rowVars, loaded, faults>>

(* Bug: nothing keeps a second out-of-sample run out of a fold.             *)
InsertTestTwice(w) ==
  /\ At(w, "insert")
  /\ IF sweep = "gone" \/ Exists(<<"out", fold[w], w>>)
     THEN Leave(w) /\ UNCHANGED <<status, point>>
     ELSE /\ Table!Submit({<<"out", fold[w], w>>})
          /\ point' = [point EXCEPT ![<<"out", fold[w], w>>] = pick[w]]
          /\ Goto(w, "basket")
          /\ UNCHANGED <<held, todo, fold, pick>>
  /\ UNCHANGED <<sweep, score, basket, loaded, faults>>

(* Bug: the row does not reference the sweep it belongs to.                 *)
InsertTestUnlinked(w) ==
  /\ At(w, "insert")
  /\ IF \E t \in FoldTests(fold[w]) : Exists(t)
     THEN Leave(w) /\ UNCHANGED <<status, point>>
     ELSE /\ status' = [status EXCEPT ![<<"out", fold[w], w>>] = "queued"]
          /\ point' = [point EXCEPT ![<<"out", fold[w], w>>] = pick[w]]
          /\ Goto(w, "basket")
          /\ UNCHANGED <<held, todo, fold, pick>>
  /\ UNCHANGED <<sweep, score, basket, loaded, faults>>

(* Bug: advance() returns after the insertion as it does after a duplicate. *)
InsertTestAndLeave(w) ==
  /\ At(w, "insert")
  /\ IF sweep = "gone" \/ (\E t \in FoldTests(fold[w]) : Exists(t))
     THEN UNCHANGED <<status, point>>
     ELSE /\ Table!Submit({<<"out", fold[w], w>>})
          /\ point' = [point EXCEPT ![<<"out", fold[w], w>>] = pick[w]]
  /\ Leave(w)
  /\ UNCHANGED <<sweep, score, basket, loaded, faults>>

(* CreateBacktestRun: the foreign key needs the sweep, the partial unique   *)
(* index makes a second test of a fold a no-op.                             *)
InsertTest(w) ==
  /\ At(w, "insert")
  /\ IF sweep = "gone" \/ (\E t \in FoldTests(fold[w]) : Exists(t))
     THEN Leave(w) /\ UNCHANGED <<status, point>>
     ELSE /\ Table!Submit({<<"out", fold[w], w>>})
          /\ point' = [point EXCEPT ![<<"out", fold[w], w>>] = pick[w]]
          /\ Goto(w, "basket")
          /\ UNCHANGED <<held, todo, fold, pick>>
  /\ UNCHANGED <<sweep, score, basket, loaded, faults>>

(* ListSweepSymbols and CreateBacktestRunSymbols: a deleted sweep has no    *)
(* symbols left to copy.                                                    *)
InsertBasket(w) ==
  /\ At(w, "basket")
  /\ basket' = IF sweep = "gone" THEN basket ELSE basket \cup {<<"out", fold[w], w>>}
  /\ Leave(w)
  /\ UNCHANGED <<status, sweep, score, point, loaded, faults>>

-----------------------------------------------------------------------------
(* Failures.                                                                *)

Fault == faults < MaxFaults /\ faults' = faults + 1

(* A statement of advance() fails or the minute promote() has is over.  One *)
(* that commits and whose answer is lost is a failure of the next.          *)
StatementFails(w) ==
  /\ Fault
  /\ pc[w] \in Advancing
  /\ Leave(w)
  /\ UNCHANGED <<rowVars, loaded>>

(* The verdict's write fails or times out: the row stays as it was, and     *)
(* settled() promotes all the same.                                         *)
VerdictLost(w) ==
  /\ Fault
  /\ At(w, "executing")
  /\ held' = [held EXCEPT ![w] = NoRun]
  /\ Goto(w, "looking")
  /\ UNCHANGED <<rowVars, loaded, todo, fold, pick>>

(* The process dies.  A worker that never hears of the row it has claimed   *)
(* (BacktestQueue's ClaimLost) is one that vanishes while it loads.         *)
Vanish(w) ==
  /\ Fault
  /\ ~At(w, "idle")
  /\ Goto(w, "idle")
  /\ held' = [v \in Workers |-> IF v = w THEN NoRun ELSE held[v]]
  /\ todo' = [todo EXCEPT ![w] = {}]
  /\ fold' = [fold EXCEPT ![w] = NoFold]
  /\ pick' = [pick EXCEPT ![w] = NoPoint]
  /\ UNCHANGED <<rowVars, loaded>>

-----------------------------------------------------------------------------
Init ==
  /\ Table!Init
  /\ sweep  = "new"
  /\ score  = [r \in InSample |-> Unscored]
  /\ point  = [t \in Tests |-> NoPoint]
  /\ basket = {}
  /\ loaded = [t \in Tests |-> "none"]
  /\ pc     = [w \in Promoters |-> "idle"]
  /\ held   = [w \in Workers |-> NoRun]
  /\ todo   = [w \in Promoters |-> {}]
  /\ fold   = [w \in Promoters |-> NoFold]
  /\ pick   = [w \in Promoters |-> NoPoint]
  /\ faults = 0

Execute(w) == Load(w) \/ Settle(w)

Promote(w) ==
  \/ Look(w) \/ NextFold(w) \/ ReadSweep(w) \/ Choose(w) \/ InsertTest(w) \/ InsertBasket(w)

Next ==
  \/ CreateSweep \/ DeleteSweep
  \/ \E w \in Workers : (\E r \in Runs : Claim(w, r)) \/ Execute(w) \/ VerdictLost(w)
  \/ \E j \in Janitors : TimerFires(j)
  \/ \E r \in Runs : Reclaim(r)
  \/ \E w \in Promoters : Promote(w) \/ StatementFails(w) \/ Vanish(w)

Spec == Init /\ [][Next]_vars

(* Workers drain the queue, the janitor's timer keeps firing and a promote  *)
(* that began goes on.                                                      *)
Fairness ==
  /\ \A w \in Workers : WF_vars(\E r \in Runs : Claim(w, r)) /\ WF_vars(Execute(w))
  /\ \A j \in Janitors : WF_vars(TimerFires(j))
  /\ \A w \in Promoters : WF_vars(Promote(w))
  /\ \A r \in Runs : WF_vars(Reclaim(r))

FairSpec == Spec /\ Fairness

-----------------------------------------------------------------------------
(* Properties.                                                              *)

(* Every variable has the shape the code gives it.                          *)
TypeOK ==
  /\ status \in [Runs -> Table!Statuses]
  /\ sweep  \in {"new", "there", "gone"}
  /\ score  \in [InSample -> Scores \cup {Unscored}]
  /\ point  \in [Tests -> Grid \cup {NoPoint}]
  /\ basket \subseteq Tests
  /\ loaded \in [Tests -> {"none", "basket", "primary"}]
  /\ pc     \in [Promoters -> {"idle", "loading", "executing", "looking", "next",
                               "advance", "choose", "insert", "basket"}]
  /\ held   \in [Workers -> Runs \cup {NoRun}]
  /\ todo   \in [Promoters -> SUBSET Folds]
  /\ fold   \in [Promoters -> Folds \cup {NoFold}]
  /\ pick   \in [Promoters -> Grid \cup {NoPoint}]
  /\ faults \in 0 .. MaxFaults
  /\ \A w \in Promoters : pc[w] \in Advancing => fold[w] \in Folds

(* However many workers and janitors notice the same fold at once, it is    *)
(* tested out of sample by one run.                                         *)
FoldTestedAtMostOnce ==
  \A f \in Folds : \A t, u \in FoldTests(f) : Exists(t) /\ Exists(u) => t = u

(* The point a fold is tested with is, now and for as long as the sweep     *)
(* exists, the first of the points with the best score among all of that    *)
(* fold's in-sample runs: nothing finished after the choice that could have *)
(* changed it.                                                              *)
TestedPointIsTheWinner ==
  \A f \in Folds : \A t \in FoldTests(f) : Exists(t) => point[t] \in Winners(FoldScores(f))

(* A fold is tested only over in-sample runs that have all stopped.         *)
TestedFoldHasSettled ==
  \A f \in Folds : (\E t \in FoldTests(f) : Exists(t)) =>
    \A r \in FoldRuns(f) : status[r] \in Terminal

(* A sweep that was deleted stays deleted: no promote that was under way    *)
(* puts a run back.                                                         *)
DeletedSweepHasNoRuns == sweep = "gone" => \A r \in Runs : ~Exists(r)

(* The promoter that inserted a test is about to write the test's basket.   *)
BasketIsComing(t) == At(t[3], "basket") /\ fold[t[3]] = t[2]

(* A test that will trade its primary symbol instead of the sweep's basket: *)
(* a worker that claims it finds no basket rows, now or later.              *)
Stranded(t) == Exists(t) /\ t \notin basket /\ ~BasketIsComing(t)

(* The out-of-sample run and its basket are written apart.  Only a crash or *)
(* a failed statement between the two leaves a test without its basket for  *)
(* good; no duplicate insertion, deletion or other promoter does.           *)
OnlyFaultsStrandTests ==
  [][\A t \in Tests : Stranded(t)' /\ ~Stranded(t) => faults' > faults]_vars

(* Every fold of a sweep that is not deleted is in the end tested, and the  *)
(* test ends; unless no in-sample run of it took a trade.  Workers that die *)
(* between their verdict and the promotion do not matter.                   *)
EveryFoldResolves ==
  \A f \in Folds : sweep = "there" ~>
    \/ sweep = "gone"
    \/ \E t \in FoldTests(f) : status[t] \in Terminal
    \/ \A p \in Grid : status[<<"in", f, p>>] \in Terminal /\ ~Scored(f, p)

=============================================================================
