------------------------------ MODULE CandleFill ------------------------------
(***************************************************************************)
(* How daily candles reach the store (internal/ingest): the scheduler's    *)
(* evening pass, the backfill and sync commands an operator runs beside it,*)
(* and the ingest_runs ledger both read before they ask the provider again.*)
(* One timeframe; every guard and row of the code is per timeframe.        *)
(*                                                                         *)
(* Time is in parts of a day, called hours.  Of the ledger only completed  *)
(* rows are kept: the code queries no others.  A row that runs lives in    *)
(* open until it is closed; of a process that dies it runs for ever.       *)
(*                                                                         *)
(* "Bug:" introduces a wrong version of the definition after it, kept to   *)
(* show that the properties notice.                                        *)
(***************************************************************************)
EXTENDS Integers, FiniteSets, FiniteSetsExt

CONSTANTS
  Universe,      \* number of symbols tracked, and reachable with the token there is
  LastDay,       \* days 0 .. LastDay are modelled
  TradingDays,   \* of the calendar
  Hours,         \* hours of a day
  OpenAt,        \* from when the provider has a bar of the day, still moving
  CloseAt,       \* when the session ends
  Settled,       \* from when the provider's bar no longer moves
  FillHours,     \* values INGEST_FILL_AT may have
  Tail,          \* ScheduleOptions.Sessions
  ChunkDays,     \* days of a backfill chunk
  Gaps,          \* bars the provider may lack: sets of <<symbol, day>>
  Batches,       \* sets of symbols a command may be run for
  MaxFaults,     \* crashes, stops, failed requests, writes and ledger updates
  MaxCommands    \* commands an operator runs

Symbols == 1 .. Universe
Days    == 0 .. LastDay
Times   == 0 .. (LastDay + 2) * Hours - 1

ASSUME FillAssumption ==
  /\ Universe \in Nat
  /\ LastDay \in Nat /\ TradingDays \subseteq Days
  /\ Hours \in Nat \ {0}
  /\ OpenAt \in Nat /\ CloseAt \in OpenAt .. Hours - 1 /\ Settled \in CloseAt .. Hours - 1
  /\ CloseAt > 0     \* no session ends at midnight
  /\ FillHours \subseteq 0 .. Hours - 1
  /\ Tail \in Nat \ {0} /\ ChunkDays \in Nat \ {0}
  /\ Gaps \subseteq SUBSET (Symbols \X Days) /\ Batches \subseteq SUBSET Symbols
  /\ MaxFaults \in Nat /\ MaxCommands \in Nat

VARIABLES
  fillAt,    \* the hour configured
  gaps,      \* bars the provider never has
  now,
  stored,    \* candles: what there is of a symbol on a day
  ledger,    \* ingest_runs, the rows that ended ok or empty
  pc,        \* of the scheduler in the server, and of the operator's command
  todo,      \* chunks a pass or a command still has to go through
  open,      \* the chunk in flight
  wake,      \* when the scheduler's timer fires
  command,   \* what the operator asked for, for the hour after it ended too
  faults, commands,
  spent,     \* history: requests of the server since the last trigger
  disturbed  \* history: what got in its way since the last trigger

vars == <<fillAt, gaps, now, stored, ledger, pc, todo, open, wake, command,
          faults, commands, spent, disturbed>>

ledgerVars == <<stored, ledger>>
history    == <<faults, commands, spent, disturbed>>

-----------------------------------------------------------------------------
(* The calendar and the provider.                                           *)

Day(t)  == t \div Hours
Hour(t) == t % Hours

(* Bug: the configured hour is taken as it comes.                           *)
DueUnclamped(day) == day * Hours + fillAt

(* DueAt: never before the close.                                           *)
Due(day) == day * Hours + Max({fillAt, CloseAt})

(* NextRun, with a trading day after the modelled ones.                     *)
NextRun(t) == Min({due \in {Due(d) : d \in TradingDays \cup {LastDay + 1}} : due > t})

(* The provider's bar of a symbol and a day at some moment, as Normalize    *)
(* lets it through: it rejects what lies outside a session.                 *)
Bar(s, day, t) ==
  IF <<s, day>> \in gaps \/ day \notin TradingDays \/ t < day * Hours + OpenAt THEN "none"
  ELSE IF t >= day * Hours + Settled THEN "final" ELSE "moving"

(* RefreshWindow: the last sessions up to today.                            *)
TailOf(day) ==
  {d \in TradingDays : d <= day /\ Cardinality({e \in TradingDays : d < e /\ e <= day}) < Tail}

Request(s, from, to) == [symbol |-> s, from |-> from, to |-> to]

Refresh(symbols, day) ==
  IF TailOf(day) = {} THEN {}
  ELSE {Request(s, Min(TailOf(day)), Max(TailOf(day))) : s \in symbols}

(* Bug: the first day of every chunk but the first is lost.                 *)
ChunkWindowsApart(from, to) ==
  {<<start, Min({start + ChunkDays - 1, to})>> :
     start \in {d \in from .. to : (d - from) % (ChunkDays + 1) = 0}}

ChunkWindows(from, to) ==
  {<<start, Min({start + ChunkDays - 1, to})>> :
     start \in {d \in from .. to : (d - from) % ChunkDays = 0}}

-----------------------------------------------------------------------------
(* What the code asks the database before it asks the provider.             *)

(* Bug: anything completed today will do, a backfill before the close too.  *)
AlreadySyncedToday(due) == \E row \in ledger : row.started >= Day(due) * Hours

(* Bug: what ran is remembered by the process only.                         *)
AlreadySyncedForgotten(due) == FALSE

(* alreadySynced: the newest completed row is not older than the trigger.   *)
AlreadySynced(due) == \E row \in ledger : row.started >= due

(* GapReport.Clean: no session without a bar, no bar without a session.     *)
Clean(req) ==
  \A d \in req.from .. req.to : stored[req.symbol][d] # "none" <=> d \in TradingDays

(* covered: a bar on every session, or a window of the past that was once   *)
(* asked for and answered.                                                  *)
Covered(req) ==
  \/ Clean(req)
  \/ /\ req.to < Day(now)
     /\ \E row \in ledger : /\ row.symbol = req.symbol
                            /\ row.from <= req.from /\ row.to >= req.to

-----------------------------------------------------------------------------
(* The scheduler.                                                           *)

Processes == {"server", "command"}
NoChunk   == [stage |-> "none"]
NoCommand == [symbols |-> {}, from |-> 0, to |-> 0, resumes |-> FALSE,
              began |-> 0, failed |-> FALSE, ended |-> FALSE]

Fault         == faults < MaxFaults /\ faults' = faults + 1
Disturb(what) == disturbed' = disturbed \cup {what}
Evening       == Day(now) \in TradingDays /\ now >= Due(Day(now))
MidPass       == pc["server"] = "work"
InTime(p)     == p = "server" => now <= wake        \* the pass's hour of RunTimeout

Boot ==
  /\ pc["server"] = "down"
  /\ pc' = [pc EXCEPT !["server"] = "tick"]
  /\ UNCHANGED <<fillAt, gaps, now, ledgerVars, todo, open, wake, command, history>>

Wake ==
  /\ pc["server"] = "sleep" /\ now >= wake
  /\ pc' = [pc EXCEPT !["server"] = "tick"]
  /\ UNCHANGED <<fillAt, gaps, now, ledgerVars, todo, open, wake, command, history>>

(* tick, when the ledger cannot be read: the day is given up.               *)
TickFails ==
  /\ pc["server"] = "tick"
  /\ Day(now) \in TradingDays /\ now >= Due(Day(now))
  /\ Fault /\ Disturb("failure")
  /\ pc' = [pc EXCEPT !["server"] = "sleep"]
  /\ wake' = NextRun(now)
  /\ UNCHANGED <<fillAt, gaps, now, ledgerVars, todo, open, command, commands, spent>>

(* tick: a pass over the universe, unless the day is not a session, the     *)
(* hour has not come or the ledger says it ran.                             *)
Tick ==
  /\ pc["server"] = "tick"
  /\ LET due  == Due(Day(now))
         pass == IF Day(now) \in TradingDays /\ now >= due /\ ~AlreadySynced(due)
                 THEN Refresh(Symbols, Day(now)) ELSE {}
     IN  IF pass = {}
         THEN /\ pc' = [pc EXCEPT !["server"] = "sleep"]
              /\ wake' = NextRun(now)
              /\ UNCHANGED todo
         ELSE /\ pc' = [pc EXCEPT !["server"] = "work"]
              /\ todo' = [todo EXCEPT !["server"] = pass]
              /\ wake' = now + 1
  /\ UNCHANGED <<fillAt, gaps, now, ledgerVars, open, command, history>>

(* What the history says of a chunk that fails, and of a command that works *)
(* in the evening, when the pass has the store to itself.                   *)
Failed(p) ==
  IF p = "server" THEN Disturb("failure") /\ UNCHANGED command
  ELSE command' = [command EXCEPT !.failed = TRUE] /\ UNCHANGED disturbed

Interferes(p) ==
  IF p = "command" /\ Evening THEN Disturb("command") ELSE UNCHANGED disturbed

(* What happens to a process with nothing left to do.                       *)
Settle(p) ==
  IF p = "server"
  THEN /\ pc' = [pc EXCEPT ![p] = "sleep"]
       /\ wake' = NextRun(now)
       /\ UNCHANGED command
  ELSE /\ pc' = [pc EXCEPT ![p] = "idle"]
       /\ command' = [command EXCEPT !.ended = TRUE]
       /\ UNCHANGED wake

(* Symbol by symbol, and each from the oldest chunk on.                     *)
Turn(p, req) ==
  /\ req \in todo[p]
  /\ \A other \in todo[p] :
       \/ req.symbol < other.symbol
       \/ req.symbol = other.symbol /\ req.from <= other.from

Leave(p, req) ==
  /\ todo' = [todo EXCEPT ![p] = @ \ {req}]
  /\ IF todo[p] = {req} THEN Settle(p) ELSE UNCHANGED <<pc, wake, command>>

-----------------------------------------------------------------------------
(* One chunk, for the pass and for the commands.                            *)

Skip(req) ==
  /\ pc["command"] = "work" /\ open["command"] = NoChunk
  /\ Turn("command", req)
  /\ command.resumes /\ Covered(req)
  /\ Leave("command", req)
  /\ UNCHANGED <<fillAt, gaps, now, ledgerVars, open, history>>

Chunk(p, req, stage, bars) ==
  open' = [open EXCEPT ![p] = [stage |-> stage, req |-> req, started |-> now, bars |-> bars]]

(* Of the request's days, what the provider has now.                        *)
Answer(req) ==
  [d \in {e \in req.from .. req.to : Bar(req.symbol, e, now) # "none"} |-> Bar(req.symbol, d, now)]

(* Chunk, up to the provider's answer: the row is opened, the bars are read.*)
Ask(p, req) ==
  /\ pc[p] = "work" /\ open[p] = NoChunk /\ InTime(p)
  /\ Turn(p, req)
  /\ p = "command" /\ command.resumes => ~Covered(req)
  /\ spent' = IF p = "server" THEN spent + 1 ELSE spent
  /\ \/ /\ Chunk(p, req, IF Answer(req) = << >> THEN "empty" ELSE "answered", Answer(req))
        /\ Interferes(p)
        /\ UNCHANGED <<faults, command>>
     \/ /\ Chunk(p, req, "failed", << >>)
        /\ Fault /\ Failed(p)
  /\ UNCHANGED <<fillAt, gaps, now, ledgerVars, pc, todo, wake, commands>>

(* Store: every bar is upserted, in one transaction.                        *)
Store(p) ==
  /\ open[p].stage = "answered" /\ InTime(p)
  /\ \/ /\ LET s    == open[p].req.symbol
               bars == open[p].bars
           IN  stored' = [stored EXCEPT ![s] =
                            [d \in Days |-> IF d \in DOMAIN bars THEN bars[d] ELSE stored[s][d]]]
        /\ open' = [open EXCEPT ![p].stage = "ok"]
        /\ Interferes(p)
        /\ UNCHANGED <<faults, command>>
     \/ /\ open' = [open EXCEPT ![p].stage = "failed"]
        /\ Fault /\ Failed(p)
        /\ UNCHANGED stored
  /\ UNCHANGED <<fillAt, gaps, now, ledger, pc, todo, wake, commands, spent>>

Row(p) ==
  [symbol |-> open[p].req.symbol, from |-> open[p].req.from, to |-> open[p].req.to,
   started |-> open[p].started]

(* finish: the row is closed, or never, if even that fails.                 *)
Finish(p) ==
  /\ open[p].stage \in {"ok", "empty", "failed"}
  /\ \/ /\ ledger' = IF open[p].stage = "failed" THEN ledger ELSE ledger \cup {Row(p)}
        /\ UNCHANGED <<faults, disturbed>>
     \/ /\ UNCHANGED ledger
        /\ Fault
        /\ disturbed' = IF p = "server" THEN disturbed \cup {"failure"} ELSE disturbed
  /\ Leave(p, open[p].req)
  /\ open' = [open EXCEPT ![p] = NoChunk]
  /\ UNCHANGED <<fillAt, gaps, now, stored, commands, spent>>

-----------------------------------------------------------------------------
(* Interruptions.                                                           *)

(* The pass runs out of its hour: the chunk in flight fails and is closed,  *)
(* the rest of the universe is dropped.                                     *)
RunTimeout ==
  /\ MidPass /\ now >= wake
  /\ open' = [open EXCEPT !["server"] = NoChunk]
  /\ todo' = [todo EXCEPT !["server"] = {}]
  /\ Settle("server")
  /\ Disturb("cut")
  /\ UNCHANGED <<fillAt, gaps, now, ledgerVars, faults, commands, spent>>

(* A process is killed, or stopped; of a chunk that is stopped in time the  *)
(* row ends failed, of one that is killed it never ends: neither answers a  *)
(* query.                                                                   *)
Down(p) ==
  /\ pc[p] \notin {"down", "idle"}
  /\ Fault
  /\ pc' = [pc EXCEPT ![p] = IF p = "server" THEN "down" ELSE "idle"]
  /\ todo' = [todo EXCEPT ![p] = {}]
  /\ open' = [open EXCEPT ![p] = NoChunk]
  /\ IF p = "server" /\ MidPass THEN Disturb("cut") ELSE UNCHANGED disturbed
  /\ UNCHANGED <<fillAt, gaps, now, ledgerVars, wake, command, commands, spent>>

(* An operator asks for history up to today, the default of --to, resuming  *)
(* or with --force, for some symbols ...                                    *)
Backfill(symbols, from, to, resumes) ==
  /\ pc["command"] = "idle"
  /\ commands < MaxCommands
  /\ from <= to
  /\ commands' = commands + 1
  /\ pc' = [pc EXCEPT !["command"] = "work"]
  /\ todo' = [todo EXCEPT !["command"] =
                {Request(s, w[1], w[2]) : s \in symbols, w \in ChunkWindows(from, to)}]
  /\ command' = [symbols |-> symbols, from |-> from, to |-> to, resumes |-> resumes,
                 began |-> now, failed |-> FALSE, ended |-> FALSE]
  /\ UNCHANGED <<fillAt, gaps, now, ledgerVars, open, wake, faults, spent, disturbed>>

(* ... or for the tail, as the scheduler does.                              *)
SyncCandles(symbols) ==
  /\ pc["command"] = "idle"
  /\ commands < MaxCommands
  /\ Refresh(symbols, Day(now)) # {}
  /\ commands' = commands + 1
  /\ pc' = [pc EXCEPT !["command"] = "work"]
  /\ todo' = [todo EXCEPT !["command"] = Refresh(symbols, Day(now))]
  /\ command' = [symbols |-> symbols, from |-> Min(TailOf(Day(now))), to |-> Max(TailOf(Day(now))),
                 resumes |-> FALSE, began |-> now, failed |-> FALSE, ended |-> FALSE]
  /\ UNCHANGED <<fillAt, gaps, now, ledgerVars, open, wake, faults, spent, disturbed>>

(* Timers fire on time, and a pass that starts in an hour is over, one way  *)
(* or the other, in the next.                                               *)
Clock ==
  /\ now < (LastDay + 1) * Hours - 1
  /\ pc["server"] # "tick"
  /\ pc["server"] \in {"sleep", "work"} => now < wake
  /\ now' = now + 1
  /\ IF Day(now') \in TradingDays /\ now' = Due(Day(now'))
     THEN spent' = 0 /\ disturbed' = {}
     ELSE UNCHANGED <<spent, disturbed>>
  /\ command' = IF pc["command"] = "idle" THEN NoCommand ELSE command
  /\ UNCHANGED <<fillAt, gaps, ledgerVars, pc, todo, open, wake, faults, commands>>

(* A finished horizon.                                                      *)
Horizon == now = (LastDay + 1) * Hours - 1 /\ UNCHANGED vars

Init ==
  /\ fillAt \in FillHours
  /\ gaps \in Gaps
  /\ now = 0
  /\ stored = [s \in Symbols |-> [d \in Days |-> "none"]]
  /\ ledger = {}
  /\ pc = [p \in Processes |-> IF p = "server" THEN "down" ELSE "idle"]
  /\ todo = [p \in Processes |-> {}]
  /\ open = [p \in Processes |-> NoChunk]
  /\ wake = 0
  /\ command = NoCommand
  /\ faults = 0 /\ commands = 0
  /\ spent = 0
  /\ disturbed = {}

Next ==
  \/ Boot \/ Wake \/ Tick \/ TickFails \/ RunTimeout \/ Clock \/ Horizon
  \/ \E req \in todo["command"] : Skip(req)
  \/ \E p \in Processes : \/ \E req \in todo[p] : Ask(p, req)
                          \/ Store(p) \/ Finish(p) \/ Down(p)
  \/ \E symbols \in Batches :
       \/ SyncCandles(symbols)
       \/ \E from \in Days, resumes \in BOOLEAN : Backfill(symbols, from, Day(now), resumes)

Spec == Init /\ [][Next]_vars

-----------------------------------------------------------------------------
(* Properties.                                                              *)

Requests == [symbol : Symbols, from : Days, to : Days]
Rows     == [symbol : Symbols, from : Days, to : Days, started : Times]

(* Shapes, and a chunk is in flight only in a process at work on it.        *)
TypeOK ==
  /\ fillAt \in FillHours
  /\ gaps \subseteq Symbols \X Days
  /\ now \in Times
  /\ stored \in [Symbols -> [Days -> {"none", "moving", "final"}]]
  /\ ledger \subseteq Rows
  /\ pc["server"] \in {"down", "tick", "work", "sleep"} /\ pc["command"] \in {"idle", "work"}
  /\ todo \in [Processes -> SUBSET Requests]
  /\ \A p \in Processes : open[p] # NoChunk => pc[p] = "work" /\ open[p].req \in todo[p]

(* An evening on which no request fails, no pass is cut short and no        *)
(* operator interferes leaves every symbol with settled bars on the whole   *)
(* tail, whatever was missed or half written on the evenings before, and    *)
(* even if the server only came up late.                                    *)
QuietEveningsHealTheTail ==
  /\ Evening /\ Hour(now) = Hours - 1 /\ now >= Day(now) * Hours + Settled
  /\ fillAt >= Settled
  /\ pc["server"] = "sleep" /\ wake > now
  /\ disturbed = {}
  => \A s \in Symbols, d \in TailOf(Day(now)) : stored[s][d] = Bar(s, d, now)

(* Whatever hour is configured, a pass never asks for a session that is not *)
(* over, which the ledger would then keep it from asking for again.         *)
PassesWaitForTheClose ==
  open["server"] # NoChunk =>
    open["server"].started >= open["server"].req.to * Hours + CloseAt

(* A pass that ran is not run again by a restart or a crash loop: requests  *)
(* beyond one per symbol are bounded by what failed or died in between.     *)
QuotaIsSpentOnce == spent <= Universe + faults

(* A resumed backfill that ends without a failure leaves out no bar the     *)
(* provider had, but of sessions of the past, its own day included if it    *)
(* worked past midnight, that an earlier run had asked for before they had  *)
(* begun to trade.                                                          *)
ResumedBackfillsMissOnlyUnfinishedSessions ==
  command.ended /\ ~command.failed =>
    \A s \in command.symbols, d \in command.from .. command.to :
      Bar(s, d, command.began) # "none" /\ stored[s][d] = "none" =>
        /\ d < Day(now)
        /\ \E row \in ledger : /\ row.symbol = s
                               /\ row.from <= d /\ d <= row.to
                               /\ row.started < d * Hours + OpenAt

=============================================================================
