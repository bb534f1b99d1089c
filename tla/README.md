# ALVO-Backtester: specification and proofs

TLA+ models of the service in `src/` (a Go server that ingests candles of the
Brazilian exchange, charts them, lets users write strategies and runs backtests
over them), the TLC runs that check the models on small instances, and TLAPS
proofs of what matters most for every instance.

Where to start: `BacktestQueue.tla` (who works on which run), then
`WalkForward.tla` (what happens when runs of a sweep end), `Engine.tla` and
`Sleeves.tla` (what a run computes), `Strategy.tla` (what it decides on),
`CandleFill.tla` and `Charts.tla` (where candles come from, and where they go),
`Admission.tla`, `Sessions.tla` and `SavedLists.tla` (what users may ask for).

## 1. The system

### Parts, state and operations

| Part | State | Operations | Modelled |
|---|---|---|---|
| Job queue: `internal/backtest/runner.go`, `sql/queries/backtests.sql` | `backtest_runs` rows and their result tables; the stack of each worker goroutine; the root context of each process | insert, claim, load, bar loop, finish, fail, requeue, stale sweep, shutdown, crash, restart | `BacktestQueue` |
| Walk-forward promotion: `promote`, `advance`, `bestOf` in `runner.go`, `sql/queries/sweeps.sql` | in-sample and out-of-sample rows of a sweep, their scores, the out-of-sample runs' basket rows | notice ready folds, choose a winner, insert its test, insert the test's basket | `WalkForward` |
| Engine: `internal/backtest/engine.go`, `broker.go`, `sizing.go`, `book.go`, `actions.go` | cash, position, pending order, recorded trades, report totals, equity curve | per bar: credit, charge, adjust, fill, brackets, close-out or signal, mark | `Engine`, `Costing` |
| Sleeves of a basket: `internal/backtest/run.go`, `basket.go` | results of the symbols run so far | split capital, run each symbol, align and sum curves, merge and renumber trades | `Sleeves` |
| Metrics, benchmarks: `metrics.go`, `stats.go`, `benchmark.go` | none | tally trades, drawdown, buy-and-hold and index curves, ratios | `Sleeves`, but for the ratios in floating point |
| Strategy language: `internal/strategy` | tape of recent bars and values, compiled rules | parse, store, compile, push a bar, evaluate a rule in three-valued logic | `StrategySpec`, `StrategyPlan`, `Strategy` |
| Indicators: `internal/indicator` | per indicator a window or a smoothed value | reset, update, ready, values | what a tape needs of them, in `Strategy` |
| Sweep axes and folds: `internal/sweep`, `createSweep` in `internal/api/sweeps.go` | the rows a sweep queues | expand a grid, cut a range into folds, queue the runs | `SweepPlan` |
| Strategies and submissions: `internal/api/strategies.go`, `sharing.go`, `backtests.go`, `sweeps.go` | `strategies`, `backtest_runs`, `backtest_sweeps` of a user, share tokens | create, update, delete, share, unshare; queue a run or a sweep under a limit; delete a sweep | `Admission` |
| Candle ingest: `internal/ingest` | `candles`, `ingest_runs` (the ledger), the scheduler's timer | tick, pass, chunk (open row, ask, store, close row), backfill, sync, restart | `CandleFill` |
| Futures ingest: `internal/ingest/futures.go` | contracts and settlements | tail of the evening pass, `sync-futures` | what is stored and what is skipped, in `Charts` |
| Candle reads: `internal/market/service.go`, `page.go`, `prime.go`, `resample.go`; `internal/api/candles.go`, `cache.go` | cache headers, the browser's cache | fold 5m bars into buckets, page backwards, prime indicators | `CandlePages`, `Charts` |
| Continuous futures: `internal/market/futures.go` | none | choose the front contract, back-adjust at a roll | `ContinuousFutures`, `Charts` |
| Panels of the page: `frontend/src` | bars on screen, requests under way, tokens; selected run, polled rows | load, page back, refresh, retry; poll and show | the chart in `Charts`, the session in `Sessions` |
| Accounts and sessions: `internal/api/auth.go`, `internal/auth`, `frontend/src/lib/session.ts` | `users`, `refresh_tokens`, the page's tokens | register, log in, refresh, log out, retry a 401 | `Sessions` |
| Baskets and layouts: `internal/api/baskets.go`, `layouts.go` | `symbol_baskets` and members, `chart_layouts` | save, replace, delete, read under a limit | `SavedLists` |
| Calendar, rates, borrow tables: `internal/market` | embedded tables | lookups | inputs of `Engine` and `CandleFill` |
| Symbol universe: `internal/market/sync.go`, `plan.go` | `symbols` | plan and write creations, changes, retirements | no |
| brapi client: `internal/brapi` | token bucket, usage counter | retry with backoff, wait for a token | no |
| Request plumbing: `internal/api/server.go`, `middleware.go`, `ratelimit.go` | token buckets per client | admit, sweep idle buckets | no |
| Commands, configuration, generated data access | none | flags, printing, `sqlc` output | no: the queries themselves are read in `sql/` |

### How they interact

- The API and the workers share nothing but the database. A request inserts
  rows; a worker of any process polls and claims one with a single
  `UPDATE ... FOR UPDATE SKIP LOCKED`. Rows carry no owner: only age says that
  a claim was abandoned, so time is part of `BacktestQueue`.
- A worker that settles a run of a sweep calls `promote` itself, and so does
  every process's five-minute timer: any number of them may notice the same
  fold at once.
- A strategy's spec is copied into the run or the sweep when it is queued, and
  parsed again when the run is executed: what `handleCreateStrategy` accepted
  the worker must be able to compile, and so must every point of a sweep's grid.
  Deletion of a strategy is kept back by foreign keys alone.
- A run hands each symbol to an engine of its own with a share of the capital,
  and puts the results together afterwards. Engine and buy-and-hold benchmark
  price their orders with the same code (`Costing`).
- The engine reads candles the ingest wrote; the ingest's scheduler and the
  operator's commands share `candles` and `ingest_runs` and no lock.
- The chart reads them too, in pages, through the browser's cache, while the
  ingest goes on storing: `Charts` composes `CandlePages`, `ContinuousFutures`,
  the handler, the cache and the component.
- Every call of a user passes `requireAuth`, and every statement about what a
  user owns carries the user's id: `Admission` and `SavedLists` are one user's.

### What is hard, and what makes each part correct

| Part | Hard behaviour | Correct when |
|---|---|---|
| Job queue | a slow worker against the janitor, shutdown in any phase, lost writes, crash loops | one worker per run, verdicts final, results exactly for done runs, every run settles |
| Promotion | stale reads between four statements, several promoters, deletion meanwhile, death after the verdict | one test per fold, with the winner of all its runs, in the end always |
| Engine | order of the steps of a bar, rounding over many bars, splits of an open position, ambiguous bars | every cent accounted for, no lookahead, no fill at a price that was not there |
| Sleeves | shares that do not divide, curves that begin late or end early, equal stamps, a peak that is met again | the whole is the sum of the parts at every stamp, one trade log, the deepest falls |
| Strategy language | inputs fed by inputs, values that are not known yet, rings as short as possible, brackets taken out of nested rules | what is saved compiles; a rule fires when its meaning over all bars is certain, and not otherwise |
| Sweeps | steps that do not divide, values that fall together, dates off by one | each combination once in each fold, each day tested once and never in its own sample |
| Candle ingest | a pass of hundreds of requests cut anywhere, moving bars, a ledger that doubles as a guard | a quiet evening heals what was missed, nothing is asked before the close, quota is not spent twice |
| Candle reads | half buckets at the edge of a read, late and cached answers, bars stored meanwhile, midnight | pages join, one series on screen, asking ends at the oldest bar only |
| Continuous futures | a roll without common settlement, a front that goes back and forth | the series moves as the contract held moved |
| Submissions | limits counted before the insertion, deletion racing insertion, links revoked and shared again | overruns bounded by concurrency, no orphans, versions name one spec, dead links stay dead |
| Sessions | a retry that refreshes while a logout is under way, an answer lost, two pages | a session that is over is served for one access token's life at most |
| Saved lists | two statements to read, a transaction to replace, unique names, what is normalised before it is stored | a list that is read was saved as a whole; one that was stored can be stored again |

The hazards are listed in `PROJECT.json`, each at its line, with the properties
that catch it.

## 2. Modules

| Module | Role |
|---|---|
| `RunLifecycle` | abstract specification of a run's row: submit, take, hand back, settle, delete |
| `BacktestQueue` | the queue, its workers, the janitor and the processes, with time; implements `RunLifecycle` |
| `WalkForward` | one walk-forward sweep, one statement of `promote`/`advance` at a time, over the rows of `RunLifecycle` |
| `Costing` | what an order is filled at and what it costs |
| `Engine` | the bar loop over one symbol |
| `Sleeves` | a run over several symbols, its curve, trades, counts and benchmarks |
| `StrategySpec`, `StrategyPlan`, `Strategy` | parsing and the stored form; compilation; the tape and the rules, with the meaning of a rule as the reference |
| `SweepPlan` | a sweep request over a saved strategy: axes, grid, folds, runs |
| `CandleFill` | the evening pass, the backfill and sync commands, the ledger |
| `CandlePages`, `ContinuousFutures` | buckets, pages, priming; the continuous series (operators only) |
| `Charts` | the jobs that store, the handler, the cache and the chart |
| `Admission` | the writing requests of one user |
| `Sessions` | logins, refreshes, logouts, time, and pages that retry |
| `SavedLists` | baskets and layouts, one statement at a time |
| `...MC` | small instances of each for TLC (`StrategyMC` is the strategies `SweepPlan` sweeps or runs, `AccountsMC` is `Sessions` and `SavedLists`) |
| `...Proofs` | theorems about `BacktestQueue`, `WalkForward`, `Admission`, `CandleFill`; in `RunProofs`, `Engine` and `Sleeves`; in `PageProofs`, `Sessions`, `SavedLists` and `Charts`; in `StrategyProofs`, `Strategy`; in `SweepProofs`, which builds on it, `SweepPlan` |

A definition whose comment starts with `Bug:` belongs to no specification. It is
a plausible wrong version of the definition that follows it; with it in place,
the property it is listed with in `PROJECT.json` ("mutants") fails in the same
run that passes with the right one.

### Correspondence with the code

**BacktestQueue.** `status`, `created`, `age` and `results` are columns
`status`, `created_at`, `started_at` (as elapsed time) and the rows of the
result tables; `phase` and `run` are a worker's position inside `step()` and the
row it holds; `replica` is whether the process's root context is live, cancelled
or the process gone. `Claim` is `ClaimBacktestRun` (ad-hoc runs first, then by
creation), the row's half of it; the worker hears of it in a step of its own.
`Claimed` is the answer arriving, `ClaimLost` the answer that never does: the
claim runs on the root context, so one that commits while a SIGTERM cancels it
comes back as an error, `step()` returns without a row, and the row runs under
nobody (so it does when the connection breaks, which counts as a fault).
`Loaded`/`LoadFails`/`LoadCancelled` are the reads of `execute` under
`runTimeout`, `Computed` the bar loop (which takes no context), `Finish`, `Fail`
and `Requeue` the three ways `step()` writes, on a detached context with
`writeTimeout`, `WriteLost` such a write failing, `RequeueStale` the janitor's
statement, `Stop`/`Exit` a SIGTERM and the end of `runner.Wait()`, `Crash` and
`Panic` a process that is gone at once. The unguarded `UPDATE ... WHERE id` of
finish and fail is modelled as unguarded: that it never meets a row in another
state is a property, not a guard.

**WalkForward.** `pc`, `todo`, `fold` and `pick` are a promoter's position and
locals in `promote()`: `Look` is `ReadyWalkForwardFolds`, `ReadSweep`
`GetSweepByID`, `Choose` `ListSweepFoldRuns` with `bestOf`, `InsertTest`
`CreateBacktestRun` with its partial unique index and foreign key,
`InsertBasket` the statements after it. Every row another promoter may insert
has an id of its own. Claims, verdicts and hand-backs are `RunLifecycle`'s
actions: `BacktestQueue` proves the queue does nothing else.

**Engine.** One action per method the loop calls, in the loop's order, driven by
`phase`. `pending` is `e.pending`, `pos` the open position, `closed` and
`metrics` the sums over the recorded trades and the report's own totals. What a
strategy decides is left open: at each close `Signal` may ask for any leg and
any bracket of its spec. Bars and the corporate actions on them are inputs
chosen step by step. Money is whole cents; the float rounding of the code is
modelled where it rounds (to cents, to ticks, to lots).

**Sleeves.** `RunSleeve` is one turn of the loop over instruments in `Run()`,
with any curve and up to two trades such an engine can leave behind (`SleeveOf`);
`Merge` is the rest of it: `RunAlone` for one symbol, `RunBasket` for several.
`HoldBenchmark` and `IndexBenchmark` are computed as `benchmark.go` computes
them, over `Costing`. `Drawdowns` and `TallyTrades` are the loops of `stats.go`
and `metrics.go`; percentages stay fractions and are compared crosswise.

**StrategySpec, StrategyPlan, Strategy.** A draft is the JSON with names,
numbers and trees already told apart: a rule tree is a sequence of nodes that
name their children by position. `Parse` applies the guards of `parse.go`,
with the limits on sizes, cash and brokerage as constants (`MaxCash` is 10^15 in the
code, beyond TLC's integers), `Encode` what `MarshalJSON` writes back, and
`SaveDraft` stores the one as the other. `Compile` builds units and slots in the order of `compile.go` (shared by
key, chained inputs after what feeds them, lines of rules and ranges of brackets
last), hoists brackets out of exits and measures warm-up and depth. `PushTape` is
`Push`: every unit updated once, in order, rings indexed as `index` does. `Eval`
is the three-valued evaluation of `eval.go`. The reference, `Means`, knows
nothing of units, slots and rings: it evaluates the draft's rule over all bars
there have been, once for every value an unknown could have had.

**SweepPlan.** `CreateSweep` is `handleCreateSweep` with `createSweep` behind
it, guard after guard, as one step, for it writes in one transaction. Values of
axes are tenths of the unit they are rounded to; days are counted, and `lost` is
the hour a change of clocks takes from a range measured in hours.

**CandleFill.** `stored` says of each symbol and day whether there is no bar, one
that was still moving when it was read, or the settled one; `ledger` holds the
rows of `ingest_runs` that ended well. `Tick` is the scheduler's tick with
`alreadySynced`, `Ask`/`Store`/`Finish` the three parts of `Chunk`, `Skip` and
`Covered` the resume check, `RunTimeout` the pass's hour running out, `Down` a
process stopped or killed. `Clean` asks a window for exactly its sessions: no bar
missing and none too many. That a provider sends bars outside of sessions is not in
the model, for `Normalize` drops them before they are stored. `disturbed` and `spent` are history variables for the
properties.

**Charts.** Time is counted in 5m slots of trading. `Page`, `TrimPage`,
`Resample` and `Prime` (`CandlePages`) and `Adjustments`, `RollGap`,
`PageContinuous` and `PrimeContinuous` (`ContinuousFutures`) are the functions
of those names; a bar of a page is its stamp and the stored bars folded into it.
`CandlesBody` is the handler with its cache header, `Answer` a body that comes
from it or from the browser's cache, `Select`, `Refresh`, `LoadOlder` and
`Deliver` are `reload`, `refresh`, `loadOlder` and the code behind their
`await`, `generation` the counter that tells late answers apart.
`IngestContract` and `StoreTermContract` are what `sync-futures` and the evening
store, the failure of a contract's history included.

**Admission.** A handler counts (`Admit`) and inserts (`InsertStrategy`,
`InsertRun`, `InsertSweep`) in two statements; everything else is one statement
and one step. What the database enforces is in the action it rejects: unique
names, foreign keys to the strategy. A sweep is seen as `CountActiveSweeps` sees
it: some row queued or running, none while a fold waits for its promoter, over.

**Sessions.** `rows` is `refresh_tokens`; of each browser `cookie` is what it
keeps, `access` what `session.ts` holds in memory, `call` where a call of
`authorized()` stands: `Send`, `Serve` (`requireAuth`), `AskRefresh`,
`HandleRefresh` and `Refreshed` are its awaits, `Finish` what its caller does with
the answer (the layouts take the user for signed out at a 401), `Logout`, `Revoke`
and `RevokeLost` those of a logout that runs beside it. Answers may be lost, and
the statement of `Revoke` may fail after the cookie was cleared: then the browser
has forgotten a login that is still alive. One page stands for a browser: two tabs
that share a cookie are not modelled.

**SavedLists.** `Create`/`Insert` and `AskUpdate`/`Update` are the statements of
the handlers, `Clear`, `Copy` and `Commit` those of a basket's transaction;
`MustWait` is where PostgreSQL makes a statement wait for another's index entry
or row, `ReadRows` and `ReadMembers` the two reads. `Upper` and `Canonical` are
what `normalizeTickers` and `indicator.Parse` make of a word: tables of a few
spellings, among them blanks and words that fall together.

## 3. Runs

| Run | Asks | Result |
|---|---|---|
| `queue_safety` | two replicas, three runs, a shutdown, and a crash or a lost write: is a run ever shared, a verdict overwritten, a result half stored? can a shutdown orphan a run? does the queue implement `RunLifecycle`? | no; one whose claim was not answered yet, and no other; yes |
| `queue_liveness` | the same with another run that panics over and over in the other process: does every other run settle? | yes |
| `walk_forward` | two workers and a janitor over one fold of two points, a failure anywhere, a deletion at any time | one test, the right winner, always in the end; only a fault separates a test from its basket |
| `engine_accounts` | four bars chosen from six kinds, all sizings, long and short, with and without brackets | all accounts agree |
| `engine_stale_stop` | is an open position's stop always in the money of today? | not after an entry pending across a split (finding) |
| `sleeves` | one to three symbols, late, halted, delisted or too short, every pair of trades | the whole is its parts |
| `strategy` | graphs of inputs, rules and exits that are saved, compiled, run over every tape, or swept | what is saved runs, and says what it means |
| `candle_fill` | two symbols, two sessions, a fault anywhere, two commands at any time | evenings heal the tail, quota is spent once |
| `charts` | a chart walked back, refreshed and pointed elsewhere while bars arrive and midnight passes; every subset of the bars for the pages, of the settlements for the series | pages join, one series on screen, the series moves right |
| `futures_priming` | are an indicator's bars before a page those the page continues? | not with a roll inside the page (finding) |
| `admission` | two requests at once on two strategies, three runs, a sweep and a token | limits, references, versions and links hold |
| `accounts` | two users on one browser; two requests of one user over two names | sessions end with their row, lists are whole |

### Bounds, and why they are enough

- **Queue.** Two workers in two replicas are what a race needs; three runs give
  one ad-hoc run and a sweep of two, the least for which priority and order of
  creation both matter. The four phases of a claimed row (its claim's answer, the
  reads, the bar loop, the write) last one unit each and the stale window four: the
  tightest values for which `EngineFits` holds. `MaxStops` and
  `MaxFaults` are 1: one fault puts a row into every state a second one could
  find it in, and the proofs are for any number.
- **Walk-forward.** Folds do not interact but through a promoter's list, and the
  proof covers any number; one fold and two points with two scores (or none)
  include ties and a fold without a trade. Two workers and a janitor make three
  promoters.
- **Engine.** Four bars: signal, entry, an event while open, exit; six bars with
  gaps through both brackets, one that reaches both, a dividend, a split 2:1, a
  grouping 1:3 that leaves fractions and less than a share, shares that cannot be
  borrowed. Capital of 1003 cents against a tick of 5 makes every rounding
  inexact. Rates are high (1% fees, 3% slippage) so that small prices show them.
- **Sleeves.** A calendar of four bars, so that a symbol can begin after
  another's trade is out and end before the last; capitals of 31 cents, which
  neither two nor three divide, and of one, which is too little for two. Of each symbol
  every log of up to two trades, of three outcomes, one of which takes a curve
  below zero.
- **Strategy.** Three inputs can share a unit, be chained against the order of
  their names, and form a loop of two or three. Periods up to three, looks back
  up to two bars, three closes and five bars: longer than any window and depth of
  these plans together, so every ring wraps round. Priming is capped at three bars
  (5000 in the code), fewer than some of these plans ask for. Trees three deep are the
  least in which a bracket stands under two alternatives. Sweeps of one to three
  axes and at most three folds meet every cap once from either side.
- **Candles.** Two trading days of three hours: before, at and after the close;
  fill hours before the close and after it; a tail of two sessions and chunks of
  a day; of the symbol the commands leave alone the provider lacks one bar; one
  fault and two commands for the other symbol, which may begin before midnight and
  end after it.
- **Charts.** Sessions of three slots with buckets of one and two, so that the
  last bucket of a session is short; pages of one bar, the least, which makes the
  most seams; any one bar missing from the beginning or stored later; two
  selections, so one answer can be late; three contracts whose settlements grow
  at different rates, so that a gap taken on a wrong day shows. `PagesJoin` and
  `AdjustedMovesAreTheHeldContracts` are evaluated for every subset of what is
  stored.
- **Admission.** Two requests, limits of 1, so two requests can count below a
  limit together; two strategies with two names and two specs; one token, which
  can be minted only once. Symmetry over handlers, ids, runs, names and specs:
  nothing orders them, and the one action property is invariant under them.
- **Accounts.** One browser, for cookies and pages of two never meet in a row but
  by the user, two users, two logins; lives of one and two ticks and a clock of
  four let every token expire on either side of every step. Lists: two requests,
  three writes, two names, a limit of one. The two halves share a user's id only
  and are run apart from each other. The proofs about both are for any numbers.

### Fairness

Only two runs need it. `queue_liveness`: a worker polls every two seconds and
runs a step it began to its end, the janitor's ticker and a container's restart
policy keep firing, the answer of a claim arrives unless it is lost, time passes;
submissions, deletions, stops, crashes, lost writes and lost answers are never obliged to happen and are finitely many. `walk_forward`:
workers claim and execute, the five-minute timer fires, a `promote` that began
goes on, and a running row nobody holds is reclaimed, which is what
`queue_liveness` and `RunLifecycle` give. All of it is weak fairness, per worker,
janitor or process, of steps that stay enabled until they are taken.
`CHECK_DEADLOCK FALSE` is said where the system really stops: a finished run
(`engine_*`, `sleeves`), a draft that was refused or a tape at its end
(`strategy`), a day whose clock, selections and arrivals are used up (`charts`,
`futures_priming`), and users whose bounded requests are (`admission`,
`accounts`).

## 4. Proofs

`tlapm` checks every theorem below for all values of the constants that satisfy
the named assumptions of the module.

**BacktestQueueProofs** (assumptions `QueueAssumption`, and `EngineFits` where
it is written). The safety properties are not inductive one by one. That a
worker's row still says running (`HeldRowIsRunning`) holds only because the
janitor never takes it back, which holds only because it is never old enough;
`HeldWithinDeadlines` bounds a held row's age by the deadlines of the phases
behind its worker plus the time spent in this one, and with
`ClaimTime + RunTimeout + EngineTime + WriteTimeout <= StaleAfter` it stays below the
janitor's threshold (`HeldIsYoung`). `QueueInv` is the conjunction of all of
them. From it follow `LiveRuns`, `ExclusiveRuns`, `HeldRows` and
`ResultsOfDoneRuns`, the action properties `FinalVerdicts` and `CleanShutdowns`, and the
refinement
`QueueImplementsLifecycle`: each action maps to one of `RunLifecycle`'s or to a
stutter, and the unguarded updates map to `Settle` only because the invariant
says the row is running. `CleanShutdowns` is about steps: whatever takes a running
row from its worker is a fault, a panic of its process, or a shutdown that reaches a
claim before its answer does; it needs the invariant for a worker that lets go of a
row (its write has ended that row) and for the janitor (which takes none that is
held). `EngineFits` is the one thing the code does not enforce: the claim has no
deadline of its own and the bar loop takes no context (see section 5).

**WalkForwardProofs** (`WalkForwardAssumption`). What makes concurrent promoters
agree is that everything they read of a fold is frozen once they find it ready:
`WhatPromotersSaw` says that the runs of every fold on a promoter's list or in
its hands have stopped for good, and that its pick is a winner of their scores
for as long as the sweep is there; `TestsStand` says the same of what was
inserted; `RowsMatchTheSweep` ties the rows to the life of the sweep.
`SightsLast` and `TestsStay` show that no step of anybody disturbs them.
`StrandedByFaults` is about the window between a test and its basket: every step but
a fault leaves the promoter that inserted the test about to write the basket, and if
the sweep is deleted meanwhile the invariant says that no test is left. (A worker that
claims the test inside the window trades its first symbol alone all the same: see
section 5.) That a sweep's
rows move as `RunLifecycle` has it is no theorem here, for `WalkForward` is written
with its actions; that the queue moves them so is `QueueImplementsLifecycle`.

**RunProofs** (`EngineAssumption`, `SleevesAssumption`) has two parts. Of the bar loop,
`Accounts` relates cash, the trades' sums,
the report's totals and the open position's stake after every method of the
loop, not only after a bar; `NothingLeftBehind` clears the books of a position
that is gone; `EntriesWaitOneBar` follows an order from the close that asked for
it to the fill; `FlatBeforeTheLastMark` makes the curve end where the trades do.
One lemma per method (`CreditStep`, `ChargeStep`, ...) keeps them;
`BooksBalanceAlways` puts the three equations of the accounts together. What is
paid needs a second invariant on top: `FillInv` says that the bar at hand is one
of the market's (`BarsAreSeen`) and that the levels of an open position never
cross (`LevelsInOrder`), which `MovedKeepsOrder` keeps over splits, whose rounding
could have made them meet but not pass. From it follow the prices of market, stop
and limit orders (`LimitPrices` for what rounding to the tick costs), the exit of an
ambiguous bar, and, with `SizeIsPaidFor` on what the loop over lots leaves, the
cash of every long.

Of a run over several symbols, `SleevesInv` only says what a report is made of: every
sleeve's result is that of its symbol on its share, and the report is put together
from all of them. `CurveIs` follows: the curve has a value at every stamp and starts
from the capital, because the shares add up to it (`SharesAddUp`) and a sleeve is worth
its share until its own second bar. The drawdowns are found in one pass that remembers
a peak, the worst fall and the longest so far; `Told` says what these are of all the
bars before, and `DrawdownStep` that the next bar keeps it: a fall that ends now is one
from the last highest bar (`FallsFromThePeak`), and what was less deep than the worst
stays so when the worst gets deeper (`StillDeeper`, which compares crosswise).

That curves and log add up needs what else a sleeve leaves behind (`SleeveHas`): its
trades do not overlap, its curve ends with what they made, it is in the market only at
its own stamps, and its benchmarks start from its share (`HoldIs` for buy and hold,
`IndexIs`). What sleeves are worth at a stamp is then told sleeve by sleeve
(`AlignedWorth`), and at the last stamp it is capital and trades (`BasketEnds`). The
merged log is sorted by time, so sums over it go in another order than in the sleeves:
`Kept` is what the trades of a set are worth, wherever they stand in the log, and
`KeptAll` adds one sleeve after the other to the set. A sleeve's trades keep their order
in the merge because each is out before the next is in (`MineIs`). `Tallied` says what
counts and streaks are of all the trades before, and `TallyStep` that the next keeps it.

**AdmissionProofs** (`AdmissionAssumption`). Limits are not inductive as they
stand: what was let in and not inserted yet counts too (`Overrun`), and a step
that adds a row takes a request out of the waiting ones. Versions and links need
what the rows remember of what was handed out (`Remembered`).

**PageProofs** (`SessionsAssumption`; `SavedListsAssumption` and `SpellingAssumption`: a
ticker in capitals and an indicator's key stay as they are when they are read again;
`PagesAssumption`, `FuturesAssumption`, `ChartsAssumption`) has three parts, for sessions, lists and
charts share no state. Of sessions, the property is about the moment a
call is accepted, but what makes it true was settled when the call's access token
was signed, perhaps by a retry that raced a logout. `Backed` says it of every
copy of a token, the page's and the one a call carries, at all times: it was
signed for a login of its user that was alive at that moment and not revoked yet,
and it lives no longer than `AccessTTL` from then. `LoginAdds` and `RevokeMarks`
say what happens to the rows, `LoginKeepsBacked` and `RevokeKeepsBacked` that a
token stays backed by them, and `SignedIsBacked` that a new one is.

Of lists, `ListsInv` says what every open transaction has done so far: `Stage`
that what it wrote is what its request asked for up to the statement it stands
at, `Apart` that no two open transactions hold one id or one name, `Reserved` that
the name an open transaction will commit is held by no other row (so a commit
breaks neither), `Limit` that what is saved and what will be new stay
within the limit plus the requests that counted together, and `Reading` that an
answer half read shows rows that were saved as they are shown. That a list which
is read can be stored again (`ListsReplay`) is about normalising twice: tickers in
capitals, of which each is there once and none is blank (`KeptOnce`), keys, colours,
styles and visibility that were normalised once are left alone.

Of charts, two properties are about what pages of a store are, for every store
there can be: `StoredInv` keeps bars in order, once each and inside their sessions, and the
rest is about operators. A page reads a limited number of bars back and gives the
oldest bucket away, for it may be half of one; `TrimmedPage` shows that all
buckets younger than the oldest bar read are whole, so that two pages that meet
hold each bucket once (`PagesAreWhole`). The offsets of a continuous series are
fixed by a walk from the last day backwards; that between two rolls the series
moves as the contract held, and across one by the gap the two had on their common
day (`MovesAreHonest`), is shown for the first day on which it would not be.
`ScreenInv` is the chart's: the bars on screen are those of the view selected
(`ScreenShows`), of the requests under way the one of this generation asks for
what joins them, and late answers are of another (`RequestsFit`), what the
browser's cache kept still shows what it showed (`CachesShow`), and nothing stored
is lost (`FirstStays`). From it follows `ScreenIsOneSeries`.

**CandleFillProofs** (`FillAssumption`: what the code's calendar gives it, a
session that ends neither before it opens nor at midnight). A pass is triggered
once and then works through its requests for a while. So `FillInv` is about the
requests it still has to make: all of them are for sessions that were over when
the pass began (`PassIsDue`), since `Due` is clamped to the close and `TailOf`
ends today. On it stand five layers, each kept by every step given those before
it. `Clocks`: what is in the ledger or in flight was asked for in the past, a
pass is within an hour of its trigger's evening, and a scheduler asleep wakes at
the next trigger. `Books`: an answer's bars are what the provider had, they are
stored before the row is closed (`RowsKept`), and none is lost again. `Pending`:
what a command was asked for is stored, excused by a row from before the day's
opening, or in the list it still goes through; that `ChunkWindows` leaves no day
out begins it, `SkippedIsHeard` and `FinishedIsHeard` keep it. `Quota`: until the
ledger says the evening's pass ran, all its requests but the one in flight were
lost to a fault (`SpentFresh`), so a pass begins with nothing spent beyond the
faults, and its list is one request for each symbol. `Quiet`: on an undisturbed
evening what the pass has not healed it has still to ask for, whatever is in
flight heals its symbol (`ChunkHeals`, `StoreHeals`), and a scheduler that is
awake without a pass finds either everything healed or a ledger that lets it
begin one. `IngestInvariant` is their conjunction.

**StrategyProofs** (`LanguageAssumption`: `None` is no number and no name of the
language; `StrategyAssumption`: a draft is a tree whose nodes come after their
children, with numbers where numbers stand, a `not` has one child, and no number is
`Unknown`). That a spec is read
again as it was (`SpecIsReadAgain`) is shown part by part, for inputs with what was
implied spelt out, operands whose line collapses, comparisons that count bars, and
costs. That it compiles (`SpecCompiles`) relates three walks over a rule tree. `parse`
admits a bracket at the top of an exit or in an `any` that does, `hoist` takes it out
and lets an `any` with one alternative left collapse into it, and `rule` refuses a
bracket wherever it meets one. By induction from the leaves, nothing that stands
under a condition is a bracket (`ConditionsAreFree`), what hoisting leaves stands
under what there was (`HoistedIsUnder`), and what is left of a node that may stand in
an exit has no bracket under it (`ExitsAreFree`). Each walk is a function defined by
recursion over the positions of nodes; `Recursion` shows that there is one.

What a run follows is compiled from a spec that was parsed, and its tape was pushed
bar by bar: `StoredWasParsed`, `PlanIsCompiled` and `TapeIsPrimed` are the inductive
invariant (`RunsArePrimed`) of three theorems.

- `LegsHaveTheirBrackets`. Parsing refused loops among the inputs, so the chain from
  any input ends and `Order` puts every input after the one it reads. Building keeps
  the builder `Sound`: each unit is there once and stands after the one that feeds
  it, each slot belongs to a unit, and the index leads every input to its own. At
  the end all inputs, lines and brackets have a slot (`AllBuilt`, `Placed`).
- `SignalsAreTheRules`. `IsTape` says what a tape holds at every bar: its ring the
  last bars, a unit's window the last values it was fed, a slot's ring the last
  values of its line. Every push keeps it, for units that share, are chained, or are
  not warm yet (`PushedIs`). By induction along the order of the units the value of
  a unit is what its input means over the bars; so a term of the plan is what the
  rule's operand means (`TermMeans`), the verdict of a comparison admits what the
  comparison means and nothing else (`ComparisonMeans`), and `all`, `any` and `not`
  lose no truth value (`RulesMean`). An exit whose brackets are hoisted away means
  what it meant, for a bracket has no part in it.
- `PrimingSufficesForRules`. A tape that saw only the last bars has of each unit the
  value that the whole history gives, or none (`ValuesLater`), since a window
  forgets; and it has one once the unit's warm-up is past, which is added up along
  the chain. A verdict over such a tape is `Weaker`: the same, or not known, through
  comparisons and through rules (`WeakerRules`). Warm-up and depth of the plan are
  no less than any of its rules needs.

**SweepProofs** (`SweepAssumption`: a request has the fields of the decoded one). What
a sweep holds was planned for the request it was asked with (`Planned`). A fold fits
if its number is at most a quotient of the range, so the folds that fit are the first
ones (`FitsAreFirst`); a day is tested by the fold whose number is the quotient of its
distance from the first test, and by no other (`OneFoldTests`); the cap on folds is
the only reason for one that fits to be missing.

`SweepsCoverTheGrid` needs more: `SweptFromStored` and `StoredWasParsed` together say
that it was planned for the saved spec as it is stored. The cursors of a grid are the
numbers below its size, written in places as large as the axes: `Advance` adds one
(`AdvanceCounts`), and a number is written in one way, so every setting of the
odometer is met once (`EverySetting`). The values of an axis are in order and none
twice (`ValuesAreListed`), so points and combinations of values correspond
(`GridIsListed`). What axes set are numbers at places of their own, so they are there
afterwards and the old ones can be put back (`SetAndSetBack`); and a stored spec with
other numbers, if it parses at all, is stored as it is (`StoredIs`), so a point's spec
is the saved one with the point's numbers (`AppliedIs`), and compiles. Runs are laid
out window by window; the one of a window and a point is found by quotient and
remainder (`RunsAreProducts`), and a basket names each symbol once (`EachOnceIs`).

Proved beside the properties of the runs, and only stated there: the types
(`TypeOK`, `SessionsTypeOK`), `HeldRowIsRunning`, `VerdictIsFinal`,
`TestedFoldHasSettled`, and the parts of `BooksBalance`. The reader who changes a
model checks them first, as invariants of the same configurations.

Every invariant the passing runs check is proved, and every action property. Left
to model checking is liveness alone (`EveryRunSettles`, `EveryFoldResolves`), which
needs fairness and ENABLED.

## 5. Findings

Two have a run that shows them:

| Run | What the code does | What is written |
|---|---|---|
| `engine_stale_stop` | `engine.go`, `fill`: an order pending over a split carries its ATR distance in the old money | `BUILD_PLAN.md:2605` "Brackets move with the split" |
| `futures_priming` | `candles.go`, `primeFor`: the series an indicator is primed with ends at the page's first bar and is adjusted for none of the rolls inside the page | `BUILD_PLAN.md:1042` "A page is primed, not restarted" |

Others were met while reading the code and have no run. The models contain them,
as behaviour the properties have to live with:

| Where | What the code does | What is written |
|---|---|---|
| `runner.go`, `step` | a panic in a worker ends the process with every run it holds, and they are claimed together again (`Panic`) | `README.md:287` "a run that panics fails its own row" |
| `runner.go`, `execute` | the bar loop takes no context, so no deadline bounds it (`EngineFits` is an assumption) | `BUILD_PLAN.md:2171` "a live run can never look abandoned" |
| `runner.go:151`, `step` | the claim runs on the root context: one that commits while a shutdown cancels it is taken for a failed one, and the row stays `running` for the janitor's half hour (`ClaimLost`, `OnlyUnheardClaimsAreOrphaned`) | `BUILD_PLAN.md:2171` "A clean shutdown returns the in-flight run to `queued`" |
| `runner.go`, `advance` | the test and its basket are inserted by separate statements (`InsertTest`, `InsertBasket`) | `backtests.go:160` "A run and its basket are written together" |
| `scheduler.go`, `alreadySynced` | after a restart in the middle of a pass, one symbol's row stands for all (`Tick`) | `scheduler.go:66` "still gets that day" |
| `sweeps.go`, `handleCreateSweep` | a walk-forward sweep does not count while a fold waits for its promoter (status `between` in `Admission`) | `sweeps.go:195` "at most %d sweep running at a time" |
| `service.go`, `PageContinuous` | a page of a future ends, for the cache header, at the midnight that began today, so today's page is kept as immutable (`CandlesBody`, `closed`) | `BUILD_PLAN.md:683` "Windows that reach into the current session get `no-cache`" |

Two weaker statements were chosen on purpose. `FillsHappenInsideTheirBar` allows a
limit a tick: it is rounded to its tick against the order, so it may fill up to a
tick short of its price, where `BUILD_PLAN.md:2104` has "at its price or
better". `ResumedBackfillsMissOnlyUnfinishedSessions`: a resumed backfill never
revisits a session that was asked for before it had begun to trade, its own day
among them if it works past midnight, for `covered` asks the clock again at every
chunk.

## 6. What is not modelled

- Wording, layout, logging; reading and writing JSON, headers and flags.
- What indicators compute: the strategy's three are windows, so warming one up
  and priming it are the same. Indicators that depend on all of their past are
  primed with a multiple of their period in the code, and how near that comes is
  a matter of floating point. The same goes for the ratios of a report (Sharpe,
  Sortino, CAGR, volatility, beta), the thinning of curves for the page, and
  parameters of an indicator that are fractions.
- How corporate actions are told from adjusted closes: `Engine` gets them with
  the bar. What a strategy decides, in `Engine`: any decision is possible.
- What a bucket says of prices, and the indicators merged into a body of the
  chart: bars are told apart by stamp and rows.
- Several timeframes at once in the ledger (every guard of it is per timeframe),
  the trimming of a range token, the request's own retries (a chunk is answered,
  fails or is cut).
- Passwords, hashes and signatures: a credential is good or not.
- The brapi client and the request rate limiter: token buckets on wall-clock
  time, with no state that outlives the process. Two things about them are worth
  a reader's attention all the same: a cancelled `Wait` has taken its token, and
  each of up to four attempts spends quota.
- `sync-symbols`: it compares two lists and writes the difference in one
  transaction, run by hand.
- Embedded tables (calendar, rates, borrow lists): looked up, never written.
- The panels that poll runs and sweeps, where a late answer meets another
  selection, and everything that is drawn.
- Skew between the clocks of processes and database (the margin it would have to
  exceed is the slack of `EngineFits`), and unlimited arrivals of ad-hoc runs,
  which would starve a sweep by design.

## 7. What could come next

The panels of the page, with the same care as the chart; and the brapi client under
the evening pass, with quota as a resource.
