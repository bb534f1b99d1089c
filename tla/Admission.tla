------------------------------- MODULE Admission -------------------------------
(***************************************************************************)
(* What one user's requests do to their strategies, backtests and sweeps   *)
(* (internal/api: strategies.go, sharing.go, backtests.go, sweeps.go) when *)
(* several are served at once.  A statement is a step, as PostgreSQL runs  *)
(* it under READ COMMITTED; an insertion of several tables in a transaction*)
(* is one step too.                                                        *)
(*                                                                         *)
(* A sweep is what CountActiveSweeps can tell of it: some row queued or    *)
(* running, all settled but for folds still to be promoted, or over.       *)
(* WalkForward has its inside.                                             *)
(*                                                                         *)
(* "Bug:" introduces a wrong version of the definition after it, kept to   *)
(* show that the properties notice.                                        *)
(***************************************************************************)
EXTENDS Integers, FiniteSets

CONSTANTS
  Handlers,       \* requests of the user that can be served at once
  Names, Specs,   \* of strategies
  MaxStrategies,  \* maxUserStrategies
  MaxBacktests,   \* maxActiveBacktests
  MaxSweeps,      \* maxActiveSweeps
  Ids,            \* of strategies, none of which is used twice
  Runs, Sweeps,   \* ids of backtests and sweeps
  MaxVersion,     \* bound on the updates that change a spec
  Tokens,         \* share tokens that can be minted
  Absent, NoToken

Rows     == [name : Names, spec : Specs, version : 1 .. MaxVersion, token : Tokens \cup {NoToken}]
Launches == [strategy : Ids, status : {"active", "between", "over"}]

ASSUME AdmissionAssumption ==
  /\ IsFiniteSet(Handlers)
  /\ IsFiniteSet(Ids) /\ IsFiniteSet(Runs) /\ IsFiniteSet(Sweeps)
  /\ MaxStrategies \in Nat \ {0} /\ MaxBacktests \in Nat \ {0} /\ MaxSweeps \in Nat \ {0}
  /\ MaxVersion \in Nat \ {0}
  /\ NoToken \notin Tokens /\ Absent \notin Rows \cup Launches

VARIABLES
  strategies,  \* rows by id, Absent if there is none
  runs,        \* ad-hoc backtest_runs by id
  sweeps,      \* backtest_sweeps by id
  step,        \* what the handler does next
  asked,       \* what it was asked for, and what it has read
  used,        \* ids and tokens that have been handed out
  published    \* history: what has ever been the spec of a version

vars == <<strategies, runs, sweeps, step, asked, used, published>>

Held(rows) == {i \in DOMAIN rows : rows[i] # Absent}

(* Of one user: CountStrategies, CountActiveBacktestRuns, CountActiveSweeps.*)
Active(rows) == {i \in Held(rows) : rows[i].status = "active"}

Count(kind) ==
  Cardinality(CASE kind = "strategy" -> Held(strategies)
                [] kind = "backtest" -> Active(runs)
                [] kind = "sweep"    -> Active(sweeps))

Limit(kind) ==
  CASE kind = "strategy" -> MaxStrategies
    [] kind = "backtest" -> MaxBacktests
    [] kind = "sweep"    -> MaxSweeps

(* UNIQUE (user_id, name).                                                  *)
Taken(name, but) == \E i \in Held(strategies) \ {but} : strategies[i].name = name

(* strategy_id REFERENCES strategies(id).                                   *)
Referenced(id) ==
  \/ \E r \in Held(runs) : runs[r].strategy = id
  \/ \E s \in Held(sweeps) : sweeps[s].strategy = id

-----------------------------------------------------------------------------
(* The three requests that count before they insert.                        *)

Kinds   == {"strategy", "backtest", "sweep"}
Nothing == [kind |-> "none"]

Begin(h, what, next) ==
  /\ step[h] = "idle"
  /\ step' = [step EXCEPT ![h] = next]
  /\ asked' = [asked EXCEPT ![h] = what]
  /\ UNCHANGED <<strategies, runs, sweeps, used, published>>

(* handleCreateStrategy, after its body has been read and compiled.         *)
AskStrategy(h, name, spec) ==
  Begin(h, [kind |-> "strategy", name |-> name, spec |-> spec], "count")

(* handleCreateBacktest, handleCreateSweep: the strategy is read, for the   *)
(* copy of its spec that will be run.                                       *)
AskLaunch(h, kind, id) ==
  /\ id \in Held(strategies)
  /\ Begin(h, [kind |-> kind, strategy |-> id], "count")

Done(h) ==
  /\ step' = [step EXCEPT ![h] = "idle"]
  /\ asked' = [asked EXCEPT ![h] = Nothing]

(* Bug: one more than the limit is let in.                                  *)
AdmitOneMore(h) ==
  /\ step[h] = "count"
  /\ IF Count(asked[h].kind) > Limit(asked[h].kind) THEN Done(h)
     ELSE step' = [step EXCEPT ![h] = "insert"] /\ UNCHANGED asked
  /\ UNCHANGED <<strategies, runs, sweeps, used, published>>

(* The count, and the 409 it may end in.                                    *)
Admit(h) ==
  /\ step[h] = "count"
  /\ IF Count(asked[h].kind) >= Limit(asked[h].kind) THEN Done(h)
     ELSE step' = [step EXCEPT ![h] = "insert"] /\ UNCHANGED asked
  /\ UNCHANGED <<strategies, runs, sweeps, used, published>>

InsertStrategy(h, id) ==
  /\ step[h] = "insert" /\ asked[h].kind = "strategy"
  /\ id \notin used
  /\ IF Taken(asked[h].name, id) THEN UNCHANGED <<strategies, used, published>>
     ELSE /\ strategies' = [strategies EXCEPT ![id] =
               [name |-> asked[h].name, spec |-> asked[h].spec, version |-> 1, token |-> NoToken]]
          /\ used' = used \cup {id}
          /\ published' = published \cup {<<id, 1, asked[h].spec>>}
  /\ Done(h)
  /\ UNCHANGED <<runs, sweeps>>

Launched(h) == [strategy |-> asked[h].strategy, status |-> "active"]

(* Bug: without the foreign key a row of a deleted strategy goes in.        *)
InsertRunUnchecked(h, r) ==
  /\ step[h] = "insert" /\ asked[h].kind = "backtest"
  /\ runs[r] = Absent
  /\ runs' = [runs EXCEPT ![r] = Launched(h)]
  /\ Done(h)
  /\ UNCHANGED <<strategies, sweeps, used, published>>

(* createRun; a strategy deleted in the meantime fails the request.         *)
InsertRun(h, r) ==
  /\ step[h] = "insert" /\ asked[h].kind = "backtest"
  /\ runs[r] = Absent
  /\ runs' = IF asked[h].strategy \in Held(strategies)
             THEN [runs EXCEPT ![r] = Launched(h)] ELSE runs
  /\ Done(h)
  /\ UNCHANGED <<strategies, sweeps, used, published>>

(* createSweep, likewise.                                                   *)
InsertSweep(h, s) ==
  /\ step[h] = "insert" /\ asked[h].kind = "sweep"
  /\ sweeps[s] = Absent
  /\ sweeps' = IF asked[h].strategy \in Held(strategies)
               THEN [sweeps EXCEPT ![s] = Launched(h)] ELSE sweeps
  /\ Done(h)
  /\ UNCHANGED <<strategies, runs, used, published>>

-----------------------------------------------------------------------------
(* The requests that are one statement.                                     *)

Free == UNCHANGED <<runs, sweeps, step, asked>>

(* Bug: a rename that changes the spec as well keeps the version.           *)
UpdateStrategyRenamed(id, name, spec) ==
  /\ id \in Held(strategies)
  /\ ~Taken(name, id)
  /\ LET row     == strategies[id]
         version == IF spec = row.spec \/ name # row.name THEN row.version ELSE row.version + 1
     IN  /\ version <= MaxVersion
         /\ strategies' = [strategies EXCEPT ![id] =
                             [row EXCEPT !.name = name, !.spec = spec, !.version = version]]
         /\ published' = published \cup {<<id, version, spec>>}
  /\ UNCHANGED used
  /\ Free

UpdateStrategy(id, name, spec) ==
  /\ id \in Held(strategies)
  /\ ~Taken(name, id)
  /\ LET row     == strategies[id]
         version == IF spec = row.spec THEN row.version ELSE row.version + 1
     IN  /\ version <= MaxVersion
         /\ strategies' = [strategies EXCEPT ![id] =
                             [row EXCEPT !.name = name, !.spec = spec, !.version = version]]
         /\ published' = published \cup {<<id, version, spec>>}
  /\ UNCHANGED used
  /\ Free

(* Refused while a run or a sweep refers to it.                             *)
DeleteStrategy(id) ==
  /\ id \in Held(strategies)
  /\ ~Referenced(id)
  /\ strategies' = [strategies EXCEPT ![id] = Absent]
  /\ UNCHANGED <<used, published>>
  /\ Free

(* Bug: a strategy is shared again under the token it had.                  *)
ShareStrategyAgain(id, token) ==
  /\ id \in Held(strategies)
  /\ strategies' = [strategies EXCEPT ![id].token = token]
  /\ used' = used \cup {token}
  /\ UNCHANGED published
  /\ Free

(* A fresh token each time; the one before is gone.                         *)
ShareStrategy(id, token) ==
  /\ id \in Held(strategies)
  /\ token \notin used
  /\ strategies' = [strategies EXCEPT ![id].token = token]
  /\ used' = used \cup {token}
  /\ UNCHANGED published
  /\ Free

UnshareStrategy(id) ==
  /\ id \in Held(strategies)
  /\ strategies' = [strategies EXCEPT ![id].token = NoToken]
  /\ UNCHANGED <<used, published>>
  /\ Free

DeleteSweep(s) ==
  /\ s \in Held(sweeps)
  /\ sweeps' = [sweeps EXCEPT ![s] = Absent]
  /\ UNCHANGED <<strategies, runs, step, asked, used, published>>

-----------------------------------------------------------------------------
(* What the workers do meanwhile.                                           *)

RunSettles(r) ==
  /\ r \in Active(runs)
  /\ runs' = [runs EXCEPT ![r].status = "over"]
  /\ UNCHANGED <<strategies, sweeps, step, asked, used, published>>

(* The last row settles: of a grid for good, of a walk-forward sweep until  *)
(* a promoter has inserted the next test.                                   *)
SweepSettles(s) ==
  /\ s \in Active(sweeps)
  /\ \E status \in {"over", "between"} : sweeps' = [sweeps EXCEPT ![s].status = status]
  /\ UNCHANGED <<strategies, runs, step, asked, used, published>>

Promote(s) ==
  /\ s \in Held(sweeps) /\ sweeps[s].status = "between"
  /\ sweeps' = [sweeps EXCEPT ![s].status = "active"]
  /\ UNCHANGED <<strategies, runs, step, asked, used, published>>

Init ==
  /\ strategies = [i \in Ids |-> Absent]
  /\ runs = [r \in Runs |-> Absent]
  /\ sweeps = [s \in Sweeps |-> Absent]
  /\ step = [h \in Handlers |-> "idle"]
  /\ asked = [h \in Handlers |-> Nothing]
  /\ used = {}
  /\ published = {}

Next ==
  \/ \E h \in Handlers :
       \/ \E name \in Names, spec \in Specs : AskStrategy(h, name, spec)
       \/ \E kind \in {"backtest", "sweep"}, id \in Ids : AskLaunch(h, kind, id)
       \/ Admit(h)
       \/ \E id \in Ids : InsertStrategy(h, id)
       \/ \E r \in Runs : InsertRun(h, r)
       \/ \E s \in Sweeps : InsertSweep(h, s)
  \/ \E id \in Ids :
       \/ \E name \in Names, spec \in Specs : UpdateStrategy(id, name, spec)
       \/ DeleteStrategy(id)
       \/ \E token \in Tokens : ShareStrategy(id, token)
       \/ UnshareStrategy(id)
  \/ \E r \in Runs : RunSettles(r)
  \/ \E s \in Sweeps : DeleteSweep(s) \/ SweepSettles(s) \/ Promote(s)

Spec == Init /\ [][Next]_vars

-----------------------------------------------------------------------------
(* Properties.                                                              *)

Requests ==
  {Nothing} \cup [kind : {"strategy"}, name : Names, spec : Specs]
            \cup [kind : {"backtest", "sweep"}, strategy : Ids]

(* Every variable has the shape the schema and the handlers give it.        *)
TypeOK ==
  /\ strategies \in [Ids -> Rows \cup {Absent}]
  /\ runs \in [Runs -> Launches \cup {Absent}]
  /\ sweeps \in [Sweeps -> Launches \cup {Absent}]
  /\ step \in [Handlers -> {"idle", "count", "insert"}]
  /\ asked \in [Handlers -> Requests]
  /\ \A h \in Handlers : step[h] = "idle" <=> asked[h] = Nothing
  /\ used \subseteq Ids \cup Tokens
  /\ published \subseteq Ids \X (1 .. MaxVersion) \X Specs

(* The count and the insertion are two statements, so the limits on queued  *)
(* backtests and saved strategies can be overrun; but never by more than    *)
(* the other requests served at once, however they interleave with runs     *)
(* that settle and strategies that are deleted.                             *)
LimitsAreOverrunByRequestsOnly ==
  \A kind \in {"strategy", "backtest"} : Count(kind) < Limit(kind) + Cardinality(Handlers)

(* No run and no sweep ever points to a strategy that is gone, whoever      *)
(* deletes it between the read and the insertion.                           *)
ReferencedStrategiesStay ==
  \A id \in Ids : Referenced(id) => id \in Held(strategies)

(* A version of a strategy has one spec, for ever: who has seen a version   *)
(* (a shared link shows it) never sees another spec under it.               *)
VersionsNameOneSpec ==
  \A p, q \in published : p[1] = q[1] /\ p[2] = q[2] => p[3] = q[3]

(* A link that was revoked, replaced, or lost with its strategy never opens *)
(* anything again, and no link opens two strategies.                        *)
RevokedLinksStayDead ==
  [][\A token \in Tokens \cap used, id \in Ids :
       id \in Held(strategies') /\ strategies'[id].token = token =>
         id \in Held(strategies) /\ strategies[id].token = token]_vars

=============================================================================
