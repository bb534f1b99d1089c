-------------------------- MODULE CandleFillProofs --------------------------
(***************************************************************************)
(* Theorems about CandleFill, for any universe, calendar, hours, tail and  *)
(* chunks.                                                                 *)
(*                                                                         *)
(* That a pass waits for the close is decided when it begins, by the day's *)
(* trigger; its requests go out one by one after that, and the row of each *)
(* says when.  So FillInv is about all requests still to come, none of     *)
(* which is for a day that was not over when the pass began.               *)
(*                                                                         *)
(* The rest is in layers, each of which keeps itself given those before:   *)
(*   Clocks   when what there is was asked for, and when it will be again  *)
(*   Books    a row of the ledger stands for bars that are stored          *)
(*   Pending  what a command was asked for is stored, excused or to come   *)
(*   Quota    until the ledger says a pass ran, its requests went to waste *)
(*   Quiet    what an undisturbed pass has not healed it has still to do   *)
(***************************************************************************)
EXTENDS CandleFill, FiniteSetTheorems, WellFoundedInduction, TLAPS

-----------------------------------------------------------------------------
(* Least and greatest elements.                                             *)

LEMMA LeastNatural ==
  ASSUME NEW S \in SUBSET Nat, S # {}
  PROVE  Min(S) \in S /\ \A n \in S : Min(S) <= n
<1> DEFINE R == OpToRel(<, Nat)
<1>1. IsWellFoundedOn(R, Nat)
  BY NatLessThanWellFounded
<1>2. \A a, b \in Nat : <<a, b>> \in R <=> a < b
  BY DEF OpToRel
<1> HIDE DEF R
<1>3. PICK m \in S : \A n \in S : ~ (<<n, m>> \in R)
  BY <1>1, WFMin
<1>4. ASSUME NEW n \in S PROVE m <= n
  <2>1. m \in Nat /\ n \in Nat
    OBVIOUS
  <2>2. ~ (n < m)
    BY <1>2, <1>3, <2>1
  <2>3. QED
    BY <2>1, <2>2
<1>5. \E x \in S : \A y \in S : x <= y
  BY <1>4
<1>6. QED
  BY <1>5 DEF Min

LEMMA GreatestBounded ==
  ASSUME NEW bound \in Nat, NEW S \in SUBSET (0 .. bound), S # {}
  PROVE  Max(S) \in S /\ \A n \in S : n <= Max(S)
<1> DEFINE T == {bound - n : n \in S}
<1>a. \A n \in S : n \in 0 .. bound
  OBVIOUS
<1>1. T \in SUBSET Nat /\ T # {}
  BY <1>a
<1>2. PICK t \in T : \A n \in T : t <= n
  BY <1>1, LeastNatural
<1>3. PICK m \in S : t = bound - m
  BY <1>2
<1>4. ASSUME NEW n \in S PROVE m >= n
  <2>1. bound - n \in T /\ m \in 0 .. bound /\ n \in 0 .. bound
    BY <1>a
  <2>2. bound - m <= bound - n
    BY <1>2, <1>3, <2>1
  <2>3. QED
    BY <2>1, <2>2
<1>5. \E x \in S : \A y \in S : x >= y
  BY <1>4
<1>6. Max(S) \in S /\ \A y \in S : Max(S) >= y
  BY <1>5 DEF Max
<1>7. QED
  BY <1>6, <1>a

-----------------------------------------------------------------------------
(* The invariant.                                                           *)

Closed(day) == day * Hours + CloseAt     \* when its session is over

WholeChunk(c) ==
  /\ c = [stage |-> c.stage, req |-> c.req, started |-> c.started, bars |-> c.bars]
  /\ c.req \in Requests /\ c.started \in Times
  /\ c.stage = "answered" =>
       /\ DOMAIN c.bars \subseteq Days
       /\ \A d \in DOMAIN c.bars : c.bars[d] \in {"moving", "final"}

(* What TypeOK says of the processes, in the form their updates need.       *)
Processing ==
  /\ pc \in [Processes -> {"down", "tick", "work", "sleep", "idle"}]
  /\ open = [p \in Processes |-> open[p]]
  /\ \A p \in Processes : open[p] # NoChunk => WholeChunk(open[p])

PassIsDue == \A req \in todo["server"] : now >= Closed(req.to)

FillInv ==
  /\ TypeOK
  /\ now < (LastDay + 1) * Hours
  /\ Processing
  /\ PassIsDue
  /\ PassesWaitForTheClose

-----------------------------------------------------------------------------
(* Days and requests.                                                       *)

LEMMA DivMod ==
  ASSUME NEW n \in Nat, NEW d \in Nat \ {0}
  PROVE  /\ n \div d \in Nat
         /\ n - (n \div d) * d \in Nat
         /\ n - (n \div d) * d < d
  OBVIOUS

LEMMA FillConstants ==
  /\ LastDay \in Nat /\ TradingDays \subseteq Days /\ Hours \in Nat \ {0} /\ CloseAt \in Nat
  /\ ChunkDays \in Nat \ {0} /\ FillHours \subseteq Nat
  /\ Gaps \subseteq SUBSET (Symbols \X Days) /\ Batches \subseteq SUBSET Symbols
  /\ \A s \in Batches : s \subseteq Symbols
  BY FillAssumption

LEMMA Today ==
  ASSUME FillInv
  PROVE  /\ now \in Nat /\ now \in Times
         /\ Day(now) \in Days /\ Day(now) \in Nat
<1>1. now \in Nat /\ now \in Times
  BY DEF FillInv, TypeOK, Times
<1>2. now < (LastDay + 1) * Hours
  BY DEF FillInv
<1>3. PICK day \in Nat : day = Day(now)
  BY <1>1, DivMod, FillConstants DEF Day
<1>4. now - day * Hours \in Nat
  BY <1>1, <1>3, DivMod, FillConstants DEF Day
<1>5. day <= LastDay
  <2>1. SUFFICES ASSUME day >= LastDay + 1 PROVE FALSE
    BY <1>3, FillConstants
  <2>2. day * Hours >= (LastDay + 1) * Hours
    BY <2>1, <1>3, FillConstants
  <2>3. day * Hours \in Nat /\ (LastDay + 1) * Hours \in Nat
    BY <1>3, FillConstants
  <2>4. QED
    BY <1>1, <1>2, <1>4, <2>2, <2>3
<1>6. QED
  BY <1>1, <1>3, <1>5, FillConstants DEF Days

(* The tail ends today at the latest.                                       *)
LEMMA RefreshRequests ==
  ASSUME FillInv, NEW symbols \in SUBSET Symbols
  PROVE  /\ Refresh(symbols, Day(now)) \in SUBSET Requests
         /\ \A req \in Refresh(symbols, Day(now)) : req.to <= Day(now)
<1> DEFINE tail == TailOf(Day(now))
<1>1. tail \subseteq 0 .. LastDay /\ \A d \in tail : d <= Day(now)
  BY FillConstants DEF TailOf, Days
<1>2. CASE tail = {}
  BY <1>2 DEF Refresh
<1>3. CASE tail # {}
  <2>1. Max(tail) \in tail
    BY <1>1, <1>3, GreatestBounded, FillConstants
  <2>2. tail \in SUBSET Nat
    BY <1>1
  <2>3. Min(tail) \in tail
    BY <1>3, <2>2, LeastNatural
  <2>4. Min(tail) \in Days /\ Max(tail) \in Days /\ Max(tail) <= Day(now)
    BY <1>1, <2>1, <2>3 DEF Days
  <2> HIDE DEF tail
  <2>5. Refresh(symbols, Day(now)) = {Request(s, Min(tail), Max(tail)) : s \in symbols}
    BY <1>3 DEF Refresh, tail
  <2>6. \A s \in symbols : /\ Request(s, Min(tail), Max(tail)) \in Requests
                           /\ Request(s, Min(tail), Max(tail)).to <= Day(now)
    BY <2>4 DEF Request, Requests
  <2>7. QED
    BY <2>5, <2>6
<1>4. QED
  BY <1>2, <1>3

LEMMA BackfillRequests ==
  ASSUME NEW symbols \in SUBSET Symbols, NEW from \in Days, NEW to \in Days
  PROVE  {Request(s, w[1], w[2]) : s \in symbols, w \in ChunkWindows(from, to)} \in SUBSET Requests
<1>1. ASSUME NEW start \in from .. to
      PROVE  start \in Days /\ Min({start + ChunkDays - 1, to}) \in Days
  <2> DEFINE ends == {start + ChunkDays - 1, to}
  <2>1. start \in Nat /\ to \in Nat /\ to <= LastDay /\ start <= to
    BY FillConstants DEF Days
  <2>2. ends \in SUBSET Nat /\ ends # {}
    BY <2>1, FillConstants
  <2>3. Min(ends) \in ends /\ \A n \in ends : Min(ends) <= n
    BY <2>2, LeastNatural
  <2>4. Min(ends) \in Nat /\ Min(ends) <= to
    BY <2>2, <2>3
  <2>5. QED
    BY <2>1, <2>4, FillConstants DEF Days
<1>2. ASSUME NEW s \in symbols, NEW w \in ChunkWindows(from, to)
      PROVE  Request(s, w[1], w[2]) \in Requests
  <2>1. PICK start \in from .. to : w = <<start, Min({start + ChunkDays - 1, to})>>
    BY DEF ChunkWindows
  <2>2. w[1] \in Days /\ w[2] \in Days
    BY <2>1, <1>1
  <2>3. QED
    BY <2>2 DEF Request, Requests
<1>3. QED
  BY <1>2

-----------------------------------------------------------------------------
(* The first state.                                                         *)

LEMMA FillStarts == Init => FillInv
<1> SUFFICES ASSUME Init PROVE FillInv
  OBVIOUS
<1> USE DEF Init
<1>1. now \in Times /\ now < (LastDay + 1) * Hours
  <2>1. (LastDay + 1) * Hours > 0 /\ (LastDay + 2) * Hours > 0
    BY FillConstants
  <2>2. (LastDay + 1) * Hours \in Int /\ (LastDay + 2) * Hours \in Int
    BY FillConstants
  <2>3. QED
    BY <2>1, <2>2 DEF Times
<1>2. Processing
  BY DEF Processing, Processes
<1>3. TypeOK
  BY <1>1, FillConstants DEF TypeOK, Processes
<1>4. PassIsDue /\ PassesWaitForTheClose
  BY DEF PassIsDue, PassesWaitForTheClose, Processes
<1>5. QED
  BY <1>1, <1>2, <1>3, <1>4 DEF FillInv

-----------------------------------------------------------------------------
(* Steps.  Whoever is not at work has no chunk.                             *)

LEMMA Idle ==
  ASSUME FillInv, NEW p \in Processes, pc[p] # "work"
  PROVE  open[p] = NoChunk
  BY DEF FillInv, TypeOK

LEMMA ServerTurns ==
  ASSUME FillInv, NEW stage \in {"tick", "sleep"}, pc["server"] # "work",
         pc' = [pc EXCEPT !["server"] = stage],
         UNCHANGED <<fillAt, gaps, now, stored, ledger, todo, open>>
  PROVE  FillInv'
<1>1. open["server"] = NoChunk /\ "server" \in Processes
  BY Idle DEF Processes
<1>2. pc'["server"] = stage /\ pc'["command"] = pc["command"]
  BY DEF FillInv, Processing, Processes
<1>3. TypeOK'
  <2>1. \A p \in Processes : open[p] # NoChunk => pc'[p] = "work" /\ open[p].req \in todo[p]
    BY <1>1, <1>2 DEF FillInv, TypeOK, Processes
  <2>2. QED
    BY <1>2, <2>1 DEF FillInv, TypeOK
<1>4. Processing'
  BY DEF FillInv, Processing, WholeChunk
<1>5. PassIsDue' /\ PassesWaitForTheClose'
  BY DEF FillInv, PassIsDue, PassesWaitForTheClose
<1>6. QED
  BY <1>3, <1>4, <1>5 DEF FillInv

(* A pass begins after the close of the last day it asks for.               *)
LEMMA TickStep == ASSUME FillInv, Tick PROVE FillInv'
<1> DEFINE due  == Due(Day(now))
           pass == IF Day(now) \in TradingDays /\ now >= due /\ ~AlreadySynced(due)
                   THEN Refresh(Symbols, Day(now)) ELSE {}
<1>a. pc["server"] = "tick" /\ UNCHANGED <<fillAt, gaps, now, stored, ledger, open>>
  BY DEF Tick, ledgerVars
<1>1. CASE pass = {}
  <2>1. pc' = [pc EXCEPT !["server"] = "sleep"] /\ UNCHANGED todo
    BY <1>1 DEF Tick
  <2>2. QED
    BY <1>a, <2>1, ServerTurns
<1>2. CASE pass # {}
  <2>1. pc' = [pc EXCEPT !["server"] = "work"] /\ todo' = [todo EXCEPT !["server"] = pass]
    BY <1>2 DEF Tick
  <2>2. now >= due /\ pass = Refresh(Symbols, Day(now))
    BY <1>2
  <2>3. pass \in SUBSET Requests /\ \A req \in pass : req.to <= Day(now)
    BY <2>2, RefreshRequests
  <2>4. due \in Nat /\ due >= Closed(Day(now))
    <3> DEFINE hours == {fillAt, CloseAt}
    <3>1. fillAt \in 0 .. Hours - 1 /\ CloseAt \in 0 .. Hours - 1
      BY FillAssumption DEF FillInv, TypeOK
    <3>2. hours \in SUBSET (0 .. Hours - 1) /\ hours # {} /\ Hours - 1 \in Nat
      BY <3>1, FillConstants
    <3>3. Max(hours) \in hours /\ \A n \in hours : n <= Max(hours)
      BY <3>2, GreatestBounded
    <3>4. Max(hours) \in Nat /\ CloseAt <= Max(hours)
      BY <3>2, <3>3
    <3>5. Day(now) * Hours \in Nat
      BY Today, FillConstants
    <3>6. QED
      BY <3>4, <3>5, FillConstants DEF Due, Closed
  <2> HIDE DEF pass, due
  <2>5. \A req \in pass : now >= Closed(req.to)
    <3>1. SUFFICES ASSUME NEW req \in pass PROVE now >= Closed(req.to)
      OBVIOUS
    <3>2. req.to \in Nat /\ req.to <= Day(now) /\ Day(now) \in Nat
      BY <2>3, Today, FillConstants DEF Requests, Days
    <3>3. req.to * Hours <= Day(now) * Hours
      BY <3>2, FillConstants
    <3>4. req.to * Hours \in Nat /\ Day(now) * Hours \in Nat
      BY <3>2, FillConstants
    <3>5. now \in Nat /\ now >= Closed(Day(now))
      BY <2>2, <2>4, Today, FillConstants, <3>4 DEF Closed
    <3>6. QED
      BY <3>3, <3>4, <3>5, FillConstants DEF Closed
  <2>6. open["server"] = NoChunk
    BY <1>a, Idle DEF Processes
  <2>7. /\ pc'["server"] = "work" /\ pc'["command"] = pc["command"]
        /\ todo'["server"] = pass /\ todo'["command"] = todo["command"]
        /\ todo' \in [Processes -> SUBSET Requests]
    BY <2>1, <2>3 DEF FillInv, TypeOK, Processing, Processes
  <2>8. TypeOK'
    <3>1. \A p \in Processes : open[p] # NoChunk => pc'[p] = "work" /\ open[p].req \in todo'[p]
      BY <2>6, <2>7 DEF FillInv, TypeOK, Processes
    <3>2. QED
      BY <1>a, <2>7, <3>1 DEF FillInv, TypeOK
  <2>9. Processing'
    BY <1>a, <2>1 DEF FillInv, Processing, WholeChunk
  <2>10. PassIsDue' /\ PassesWaitForTheClose'
    BY <1>a, <2>5, <2>6, <2>7 DEF PassIsDue, PassesWaitForTheClose
  <2>11. QED
    BY <1>a, <2>8, <2>9, <2>10 DEF FillInv
<1>3. QED
  BY <1>1, <1>2

(* A process drops a request, with or without its chunk.                    *)
LEMMA LeaveStep ==
  ASSUME FillInv, NEW p \in Processes, NEW req \in todo[p], pc[p] = "work", Leave(p, req),
         open' = [open EXCEPT ![p] = NoChunk], ledger' \in SUBSET Rows,
         UNCHANGED <<fillAt, gaps, now, stored>>
  PROVE  FillInv'
<1>1. todo' = [todo EXCEPT ![p] = @ \ {req}] /\ todo \in [Processes -> SUBSET Requests]
  BY DEF Leave, FillInv, TypeOK
<1>2. pc' \in {pc, [pc EXCEPT ![p] = IF p = "server" THEN "sleep" ELSE "idle"]}
  BY DEF Leave, Settle
<1>3. pc \in [Processes -> {"down", "tick", "work", "sleep", "idle"}]
  BY DEF FillInv, Processing
<1>4. /\ open'[p] = NoChunk
      /\ \A q \in Processes \ {p} : open'[q] = open[q] /\ pc'[q] = pc[q] /\ todo'[q] = todo[q]
      /\ todo'[p] \subseteq todo[p]
  BY <1>1, <1>2, <1>3 DEF FillInv, Processing
<1>5. TypeOK'
  <2>1. \A q \in Processes : open'[q] # NoChunk => pc'[q] = "work" /\ open'[q].req \in todo'[q]
    BY <1>4 DEF FillInv, TypeOK
  <2>2. pc'["server"] \in {"down", "tick", "work", "sleep"} /\ pc'["command"] \in {"idle", "work"}
    BY <1>2, <1>3 DEF FillInv, TypeOK, Processes
  <2>3. todo' \in [Processes -> SUBSET Requests]
    BY <1>1
  <2>4. QED
    BY <2>1, <2>2, <2>3 DEF FillInv, TypeOK
<1>6. Processing'
  <2>1. pc' \in [Processes -> {"down", "tick", "work", "sleep", "idle"}]
    BY <1>2, <1>3
  <2>2. open' = [q \in Processes |-> open'[q]]
    BY DEF FillInv, Processing
  <2>3. \A q \in Processes : open'[q] # NoChunk => WholeChunk(open'[q])
    BY <1>4 DEF FillInv, Processing
  <2>4. QED
    BY <2>1, <2>2, <2>3 DEF Processing, WholeChunk
<1>7. PassIsDue'
  BY <1>4 DEF FillInv, PassIsDue, Processes
<1>8. PassesWaitForTheClose'
  BY <1>4 DEF FillInv, PassesWaitForTheClose, Processes
<1>9. QED
  BY <1>5, <1>6, <1>7, <1>8 DEF FillInv

LEMMA SkipStep == ASSUME FillInv, NEW req \in todo["command"], Skip(req) PROVE FillInv'
<1>1. pc["command"] = "work" /\ open["command"] = NoChunk /\ Leave("command", req)
      /\ UNCHANGED <<fillAt, gaps, now, stored, ledger, open>> /\ "command" \in Processes
  BY DEF Skip, ledgerVars, Processes
<1>2. open' = [open EXCEPT !["command"] = NoChunk]
  BY <1>1 DEF FillInv, Processing
<1>3. ledger' \in SUBSET Rows
  BY <1>1 DEF FillInv, TypeOK
<1>4. QED
  BY <1>1, <1>2, <1>3, LeaveStep

LEMMA FinishStep == ASSUME FillInv, NEW p \in Processes, Finish(p) PROVE FillInv'
<1>1. /\ open[p].stage \in {"ok", "empty", "failed"} /\ Leave(p, open[p].req)
      /\ open' = [open EXCEPT ![p] = NoChunk] /\ UNCHANGED <<fillAt, gaps, now, stored>>
      /\ ledger' \in {ledger, ledger \cup {Row(p)}}
  BY DEF Finish
<1>2. open[p] # NoChunk
  BY <1>1 DEF NoChunk
<1>3. pc[p] = "work" /\ open[p].req \in todo[p] /\ WholeChunk(open[p])
  BY <1>2 DEF FillInv, TypeOK, Processing
<1>4. Row(p) \in Rows
  BY <1>3 DEF Row, Rows, WholeChunk, Requests
<1>5. ledger' \in SUBSET Rows
  BY <1>1, <1>4 DEF FillInv, TypeOK
<1>6. QED
  BY <1>1, <1>3, <1>5, LeaveStep

(* A chunk is opened in answer to a request, ...                            *)
LEMMA AskStep ==
  ASSUME FillInv, NEW p \in Processes, NEW req \in todo[p], Ask(p, req)
  PROVE  FillInv'
<1>1. /\ pc[p] = "work" /\ open[p] = NoChunk
      /\ UNCHANGED <<fillAt, gaps, now, stored, ledger, pc, todo>>
  BY DEF Ask, ledgerVars
<1>2. req \in Requests /\ now \in Times /\ now \in Nat
  BY Today DEF FillInv, TypeOK
<1>3. PICK stage \in {"empty", "answered", "failed"}, bars \in {Answer(req), << >>} :
        /\ open' = [open EXCEPT ![p] = [stage |-> stage, req |-> req, started |-> now, bars |-> bars]]
        /\ stage = "answered" => bars = Answer(req)
  <2>1. CASE Chunk(p, req, IF Answer(req) = << >> THEN "empty" ELSE "answered", Answer(req))
    <3>1. CASE Answer(req) = << >>
      BY <2>1, <3>1 DEF Chunk
    <3>2. CASE Answer(req) # << >>
      BY <2>1, <3>2 DEF Chunk
    <3>3. QED
      BY <3>1, <3>2
  <2>2. CASE Chunk(p, req, "failed", << >>)
    BY <2>2 DEF Chunk
  <2>3. QED
    BY <2>1, <2>2 DEF Ask
<1> DEFINE chunk == [stage |-> stage, req |-> req, started |-> now, bars |-> bars]
<1>4. WholeChunk(chunk)
  <2>1. /\ DOMAIN Answer(req) \subseteq Days
        /\ \A d \in DOMAIN Answer(req) : Answer(req)[d] \in {"moving", "final"}
    <3> DEFINE days == {e \in req.from .. req.to : Bar(req.symbol, e, now) # "none"}
    <3>1. DOMAIN Answer(req) = days /\ \A d \in days : Answer(req)[d] = Bar(req.symbol, d, now)
      BY DEF Answer
    <3>2. days \subseteq Days
      BY <1>2, FillConstants DEF Requests, Days
    <3>3. \A d \in days : Bar(req.symbol, d, now) \in {"moving", "final"}
      BY DEF Bar
    <3>4. QED
      BY <3>1, <3>2, <3>3
  <2>2. QED
    BY <1>2, <1>3, <2>1 DEF WholeChunk
<1>5. open'[p] = chunk /\ \A q \in Processes \ {p} : open'[q] = open[q]
  BY <1>3 DEF FillInv, Processing
<1>6. chunk.req = req /\ chunk.started = now
  OBVIOUS
<1> HIDE DEF chunk
<1>7. TypeOK'
  <2>1. \A q \in Processes : open'[q] # NoChunk => pc[q] = "work" /\ open'[q].req \in todo[q]
    BY <1>1, <1>5, <1>6 DEF FillInv, TypeOK
  <2>2. QED
    BY <1>1, <2>1 DEF FillInv, TypeOK
<1>8. Processing'
  <2>1. open' = [q \in Processes |-> open'[q]]
    BY <1>3 DEF FillInv, Processing
  <2>2. \A q \in Processes : open'[q] # NoChunk => WholeChunk(open'[q])
    BY <1>4, <1>5 DEF FillInv, Processing
  <2>3. QED
    BY <1>1, <2>1, <2>2 DEF FillInv, Processing, WholeChunk
<1>9. PassIsDue' /\ PassesWaitForTheClose'
  <2>1. PassIsDue'
    BY <1>1 DEF FillInv, PassIsDue
  <2>2. CASE p = "server"
    BY <1>5, <1>6, <2>1, <2>2 DEF FillInv, PassIsDue, PassesWaitForTheClose, Closed
  <2>3. CASE p # "server"
    BY <1>5, <2>1, <2>3 DEF FillInv, PassesWaitForTheClose, Processes
  <2>4. QED
    BY <2>1, <2>2, <2>3
<1>10. QED
  BY <1>1, <1>7, <1>8, <1>9 DEF FillInv

(* ... and what it brought is stored.                                       *)
LEMMA StoreStep == ASSUME FillInv, NEW p \in Processes, Store(p) PROVE FillInv'
<1>1. /\ open[p].stage = "answered"
      /\ UNCHANGED <<fillAt, gaps, now, ledger, pc, todo>>
  BY DEF Store
<1>2. open[p] # NoChunk
  BY <1>1 DEF NoChunk
<1>3. WholeChunk(open[p]) /\ pc[p] = "work" /\ open[p].req \in todo[p]
  BY <1>2 DEF FillInv, TypeOK, Processing
<1>4. PICK stage \in {"ok", "failed"} : open' = [open EXCEPT ![p].stage = stage]
  BY DEF Store
<1>5. /\ open'[p] = [open[p] EXCEPT !.stage = stage]
      /\ \A q \in Processes \ {p} : open'[q] = open[q]
  BY <1>4 DEF FillInv, Processing
<1>6. /\ open'[p].req = open[p].req /\ open'[p].started = open[p].started
      /\ WholeChunk(open'[p])
  BY <1>3, <1>5 DEF WholeChunk
<1>7. stored' \in [Symbols -> [Days -> {"none", "moving", "final"}]]
  <2>1. CASE UNCHANGED stored
    BY <2>1 DEF FillInv, TypeOK
  <2> DEFINE s    == open[p].req.symbol
             bars == open[p].bars
  <2>2. CASE stored' = [stored EXCEPT ![s] =
                      [d \in Days |-> IF d \in DOMAIN bars THEN bars[d] ELSE stored[s][d]]]
    <3>1. s \in Symbols /\ stored \in [Symbols -> [Days -> {"none", "moving", "final"}]]
      BY <1>3 DEF WholeChunk, Requests, FillInv, TypeOK
    <3>2. DOMAIN bars \subseteq Days /\ \A d \in DOMAIN bars : bars[d] \in {"moving", "final"}
      BY <1>1, <1>3 DEF WholeChunk
    <3>3. \A d \in Days : stored[s][d] \in {"none", "moving", "final"}
      BY <3>1
    <3> HIDE DEF s, bars
    <3>4. [d \in Days |-> IF d \in DOMAIN bars THEN bars[d] ELSE stored[s][d]]
            \in [Days -> {"none", "moving", "final"}]
      BY <3>2, <3>3
    <3>5. QED
      BY <2>2, <3>1, <3>4
  <2>3. QED
    BY <2>1, <2>2 DEF Store
<1>8. TypeOK'
  <2>1. \A q \in Processes : open'[q] # NoChunk => pc[q] = "work" /\ open'[q].req \in todo[q]
    BY <1>3, <1>5, <1>6 DEF FillInv, TypeOK
  <2>2. QED
    BY <1>1, <1>7, <2>1 DEF FillInv, TypeOK
<1>9. Processing'
  <2>1. open' = [q \in Processes |-> open'[q]]
    BY <1>4 DEF FillInv, Processing
  <2>2. \A q \in Processes : open'[q] # NoChunk => WholeChunk(open'[q])
    BY <1>5, <1>6 DEF FillInv, Processing
  <2>3. QED
    BY <1>1, <2>1, <2>2 DEF FillInv, Processing, WholeChunk
<1>10. PassIsDue' /\ PassesWaitForTheClose'
  <2>1. PassIsDue'
    BY <1>1 DEF FillInv, PassIsDue
  <2>2. PassesWaitForTheClose'
    BY <1>2, <1>5, <1>6 DEF FillInv, PassesWaitForTheClose, Processes
  <2>3. QED
    BY <2>1, <2>2
<1>11. QED
  BY <1>1, <1>8, <1>9, <1>10 DEF FillInv

(* A process stops where it is.                                             *)
LEMMA StopStep ==
  ASSUME FillInv, NEW p \in Processes, NEW stage \in {"down", "sleep", "idle"},
         stage = "idle" <=> p = "command",
         pc' = [pc EXCEPT ![p] = stage], todo' = [todo EXCEPT ![p] = {}],
         open' = [open EXCEPT ![p] = NoChunk],
         UNCHANGED <<fillAt, gaps, now, stored, ledger>>
  PROVE  FillInv'
<1>1. pc \in [Processes -> {"down", "tick", "work", "sleep", "idle"}]
      /\ todo \in [Processes -> SUBSET Requests]
  BY DEF FillInv, Processing, TypeOK
<1>2. /\ open'[p] = NoChunk /\ pc'[p] = stage /\ todo'[p] = {}
      /\ \A q \in Processes \ {p} : open'[q] = open[q] /\ pc'[q] = pc[q] /\ todo'[q] = todo[q]
  BY <1>1 DEF FillInv, Processing
<1>3. TypeOK'
  <2>1. \A q \in Processes : open'[q] # NoChunk => pc'[q] = "work" /\ open'[q].req \in todo'[q]
    BY <1>2 DEF FillInv, TypeOK
  <2>2. pc'["server"] \in {"down", "tick", "work", "sleep"} /\ pc'["command"] \in {"idle", "work"}
    BY <1>2 DEF FillInv, TypeOK, Processes
  <2>3. todo' \in [Processes -> SUBSET Requests]
    BY <1>1
  <2>4. QED
    BY <2>1, <2>2, <2>3 DEF FillInv, TypeOK
<1>4. Processing'
  <2>1. pc' \in [Processes -> {"down", "tick", "work", "sleep", "idle"}]
    BY <1>1
  <2>2. open' = [q \in Processes |-> open'[q]]
    BY DEF FillInv, Processing
  <2>3. \A q \in Processes : open'[q] # NoChunk => WholeChunk(open'[q])
    BY <1>2 DEF FillInv, Processing
  <2>4. QED
    BY <2>1, <2>2, <2>3 DEF Processing, WholeChunk
<1>5. PassIsDue' /\ PassesWaitForTheClose'
  BY <1>2 DEF FillInv, PassIsDue, PassesWaitForTheClose, Processes
<1>6. QED
  BY <1>3, <1>4, <1>5 DEF FillInv

(* A command begins.                                                        *)
LEMMA CommandStep ==
  ASSUME FillInv, NEW asked \in SUBSET Requests, pc["command"] = "idle",
         pc' = [pc EXCEPT !["command"] = "work"], todo' = [todo EXCEPT !["command"] = asked],
         UNCHANGED <<fillAt, gaps, now, stored, ledger, open>>
  PROVE  FillInv'
<1>1. open["command"] = NoChunk
  BY Idle DEF Processes
<1>2. /\ pc'["server"] = pc["server"] /\ pc'["command"] = "work"
      /\ todo'["server"] = todo["server"] /\ todo' \in [Processes -> SUBSET Requests]
  BY DEF FillInv, TypeOK, Processing, Processes
<1>3. TypeOK'
  <2>1. \A q \in Processes : open[q] # NoChunk => pc'[q] = "work" /\ open[q].req \in todo'[q]
    BY <1>1, <1>2 DEF FillInv, TypeOK, Processes
  <2>2. QED
    BY <1>2, <2>1 DEF FillInv, TypeOK
<1>4. Processing'
  BY DEF FillInv, Processing, WholeChunk
<1>5. PassIsDue' /\ PassesWaitForTheClose'
  BY <1>2 DEF FillInv, PassIsDue, PassesWaitForTheClose
<1>6. QED
  BY <1>3, <1>4, <1>5 DEF FillInv

(* Time passes, and what was over stays over.                               *)
LEMMA ClockStep == ASSUME FillInv, Clock PROVE FillInv'
<1>1. /\ now < (LastDay + 1) * Hours - 1 /\ now' = now + 1
      /\ UNCHANGED <<fillAt, gaps, stored, ledger, pc, todo, open>>
  BY DEF Clock, ledgerVars
<1>2. now \in Nat /\ (LastDay + 1) * Hours \in Nat /\ (LastDay + 2) * Hours \in Nat
  BY Today, FillConstants
<1>3. (LastDay + 1) * Hours <= (LastDay + 2) * Hours
  BY FillConstants
<1>4. now' \in Times /\ now' < (LastDay + 1) * Hours
  BY <1>1, <1>2, <1>3 DEF Times
<1>5. TypeOK' /\ PassesWaitForTheClose'
  BY <1>1, <1>4 DEF FillInv, TypeOK, PassesWaitForTheClose
<1>6. Processing'
  BY <1>1 DEF FillInv, Processing, WholeChunk
<1>7. PassIsDue'
  <2>1. \A req \in todo["server"] : Closed(req.to) \in Int
    <3>1. \A req \in todo["server"] : req.to \in Nat
      BY FillConstants DEF FillInv, TypeOK, Processes, Requests, Days
    <3>2. QED
      BY <3>1, FillConstants DEF Closed
  <2>2. QED
    BY <1>1, <1>2, <2>1 DEF FillInv, PassIsDue, Closed
<1>8. QED
  BY <1>4, <1>5, <1>6, <1>7 DEF FillInv

LEMMA FillSteps == FillInv /\ [Next]_vars => FillInv'
<1> SUFFICES ASSUME FillInv, [Next]_vars PROVE FillInv'
  OBVIOUS
<1>1. CASE UNCHANGED vars
  BY <1>1 DEF FillInv, TypeOK, Processing, WholeChunk, PassIsDue, PassesWaitForTheClose,
              vars, ledgerVars, history
<1>2. CASE Boot
  BY <1>2, ServerTurns DEF Boot, ledgerVars
<1>3. CASE Wake
  BY <1>3, ServerTurns DEF Wake, ledgerVars
<1>4. CASE TickFails
  BY <1>4, ServerTurns DEF TickFails, ledgerVars
<1>5. CASE Tick
  BY <1>5, TickStep
<1>6. CASE RunTimeout
  BY <1>6, StopStep DEF RunTimeout, Settle, ledgerVars, Processes
<1>7. CASE Clock
  BY <1>7, ClockStep
<1>8. CASE Horizon
  BY <1>1, <1>8 DEF Horizon
<1>9. CASE \E req \in todo["command"] : Skip(req)
  BY <1>9, SkipStep
<1>10. ASSUME NEW p \in Processes,
              (\E req \in todo[p] : Ask(p, req)) \/ Store(p) \/ Finish(p)
       PROVE  FillInv'
  BY <1>10, AskStep, StoreStep, FinishStep
<1>11. ASSUME NEW p \in Processes, Down(p) PROVE FillInv'
  <2> DEFINE stage == IF p = "server" THEN "down" ELSE "idle"
  <2>1. stage \in {"down", "sleep", "idle"} /\ (stage = "idle" <=> p = "command")
    BY DEF Processes
  <2>2. /\ pc' = [pc EXCEPT ![p] = stage] /\ todo' = [todo EXCEPT ![p] = {}]
        /\ open' = [open EXCEPT ![p] = NoChunk]
        /\ UNCHANGED <<fillAt, gaps, now, stored, ledger>>
    BY <1>11 DEF Down, ledgerVars
  <2> HIDE DEF stage
  <2>3. QED
    BY <2>1, <2>2, StopStep
<1>12. ASSUME NEW symbols \in Batches, SyncCandles(symbols) PROVE FillInv'
  <2>1. symbols \in SUBSET Symbols
    BY FillConstants
  <2>2. Refresh(symbols, Day(now)) \in SUBSET Requests
    BY <2>1, RefreshRequests
  <2>3. QED
    BY <1>12, <2>2, CommandStep DEF SyncCandles, ledgerVars
<1>13. ASSUME NEW symbols \in Batches, NEW from \in Days, NEW resumes \in BOOLEAN,
              Backfill(symbols, from, Day(now), resumes)
       PROVE  FillInv'
  <2> DEFINE asked == {Request(s, w[1], w[2]) : s \in symbols, w \in ChunkWindows(from, Day(now))}
  <2>1. symbols \in SUBSET Symbols /\ Day(now) \in Days
    BY FillConstants, Today
  <2>2. asked \in SUBSET Requests
    BY <2>1, BackfillRequests
  <2>3. /\ pc["command"] = "idle" /\ pc' = [pc EXCEPT !["command"] = "work"]
        /\ todo' = [todo EXCEPT !["command"] = asked]
        /\ UNCHANGED <<fillAt, gaps, now, stored, ledger, open>>
    BY <1>13 DEF Backfill, ledgerVars
  <2> HIDE DEF asked
  <2>4. QED
    BY <2>2, <2>3, CommandStep
<1>14. CASE Next
  BY <1>2, <1>3, <1>4, <1>5, <1>6, <1>7, <1>8, <1>9, <1>10, <1>11, <1>12, <1>13, <1>14 DEF Next
<1>15. QED
  BY <1>1, <1>14

-----------------------------------------------------------------------------
(* What a step does to a chunk, to the rows and to the bars.                *)

ChunkUntouched(p) == open'[p] = open[p]

LEMMA AskDoes ==
  ASSUME FillInv, NEW p \in Processes, NEW req \in todo[p], Ask(p, req)
  PROVE  /\ pc[p] = "work" /\ open[p] = NoChunk /\ req \in Requests
         /\ UNCHANGED <<fillAt, gaps, now, stored, ledger, pc, todo, wake, commands>>
         /\ open'[p] # NoChunk /\ open'[p].req = req /\ open'[p].started = now
         /\ \/ open'[p].stage = "failed" /\ Fault /\ Failed(p)
            \/ /\ open'[p].stage = IF Answer(req) = << >> THEN "empty" ELSE "answered"
               /\ open'[p].bars = Answer(req) /\ Interferes(p) /\ UNCHANGED <<faults, command>>
         /\ \A q \in Processes \ {p} : ChunkUntouched(q)
<1>1. /\ pc[p] = "work" /\ open[p] = NoChunk
      /\ UNCHANGED <<fillAt, gaps, now, stored, ledger, pc, todo, wake, commands>>
  BY DEF Ask, ledgerVars
<1>2. req \in Requests /\ open = [q \in Processes |-> open[q]]
  BY DEF FillInv, TypeOK, Processing
<1>3. ASSUME NEW stage, NEW bars, stage # "none", Chunk(p, req, stage, bars)
      PROVE  /\ open'[p] # NoChunk /\ open'[p].req = req /\ open'[p].started = now
             /\ open'[p].stage = stage /\ open'[p].bars = bars
             /\ \A q \in Processes \ {p} : ChunkUntouched(q)
  <2>1. open'[p] = [stage |-> stage, req |-> req, started |-> now, bars |-> bars]
    BY <1>2, <1>3 DEF Chunk
  <2>2. \A q \in Processes \ {p} : ChunkUntouched(q)
    BY <1>2, <1>3 DEF Chunk, ChunkUntouched
  <2>3. open'[p].stage = stage /\ NoChunk.stage = "none"
    BY <2>1 DEF NoChunk
  <2>4. QED
    BY <1>3, <2>1, <2>2, <2>3
<1>4. CASE Chunk(p, req, "failed", << >>) /\ Fault /\ Failed(p)
  BY <1>1, <1>2, <1>3, <1>4
<1>5. CASE /\ Chunk(p, req, IF Answer(req) = << >> THEN "empty" ELSE "answered", Answer(req))
           /\ Interferes(p) /\ UNCHANGED <<faults, command>>
  <2> DEFINE stage == IF Answer(req) = << >> THEN "empty" ELSE "answered"
  <2>1. stage # "none" /\ Chunk(p, req, stage, Answer(req))
    BY <1>5
  <2>2. /\ open'[p] # NoChunk /\ open'[p].req = req /\ open'[p].started = now
        /\ open'[p].stage = stage /\ open'[p].bars = Answer(req)
        /\ \A q \in Processes \ {p} : ChunkUntouched(q)
    BY <1>3, <2>1
  <2>3. QED
    BY <1>1, <1>2, <1>5, <2>2
<1>6. QED
  BY <1>4, <1>5 DEF Ask

LEMMA StoreDoes ==
  ASSUME FillInv, NEW p \in Processes, Store(p)
  PROVE  /\ pc[p] = "work" /\ open[p] # NoChunk /\ open[p].stage = "answered"
         /\ open[p].req \in todo[p] /\ WholeChunk(open[p])
         /\ UNCHANGED <<fillAt, gaps, now, ledger, pc, todo, wake, commands, spent>>
         /\ open'[p] # NoChunk /\ open'[p].req = open[p].req /\ open'[p].started = open[p].started
         /\ \A q \in Processes \ {p} : ChunkUntouched(q)
         /\ \/ /\ open'[p].stage = "failed" /\ Fault /\ Failed(p) /\ UNCHANGED stored
            \/ /\ open'[p].stage = "ok" /\ Interferes(p) /\ UNCHANGED <<faults, command>>
               /\ \A s \in Symbols, d \in Days :
                    stored'[s][d] = IF s = open[p].req.symbol /\ d \in DOMAIN open[p].bars
                                    THEN open[p].bars[d] ELSE stored[s][d]
<1>1. /\ open[p].stage = "answered"
      /\ UNCHANGED <<fillAt, gaps, now, ledger, pc, todo, wake, commands, spent>>
  BY DEF Store
<1>2. open[p] # NoChunk
  BY <1>1 DEF NoChunk
<1>3. WholeChunk(open[p]) /\ pc[p] = "work" /\ open[p].req \in todo[p]
  BY <1>2 DEF FillInv, TypeOK, Processing
<1>4. ASSUME NEW stage, stage # "none", open' = [open EXCEPT ![p].stage = stage]
      PROVE  /\ open'[p] # NoChunk /\ open'[p].req = open[p].req /\ open'[p].started = open[p].started
             /\ open'[p].stage = stage /\ \A q \in Processes \ {p} : ChunkUntouched(q)
  <2>1. /\ open'[p] = [open[p] EXCEPT !.stage = stage]
        /\ \A q \in Processes \ {p} : ChunkUntouched(q)
    BY <1>4 DEF FillInv, Processing, ChunkUntouched
  <2>2. open'[p] = [stage |-> stage, req |-> open[p].req, started |-> open[p].started,
                    bars |-> open[p].bars]
    BY <1>3, <2>1 DEF WholeChunk
  <2>3. open'[p].stage = stage /\ NoChunk.stage = "none"
    BY <2>2 DEF NoChunk
  <2>4. QED
    BY <1>4, <2>1, <2>2, <2>3
<1>5. CASE open' = [open EXCEPT ![p].stage = "failed"] /\ Fault /\ Failed(p) /\ UNCHANGED stored
  BY <1>1, <1>2, <1>3, <1>4, <1>5
<1>6. CASE /\ open' = [open EXCEPT ![p].stage = "ok"] /\ Interferes(p) /\ UNCHANGED <<faults, command>>
           /\ stored' = [stored EXCEPT ![open[p].req.symbol] =
                [d \in Days |-> IF d \in DOMAIN open[p].bars THEN open[p].bars[d]
                                ELSE stored[open[p].req.symbol][d]]]
  <2> DEFINE s    == open[p].req.symbol
             bars == open[p].bars
  <2>1. s \in Symbols /\ stored \in [Symbols -> [Days -> {"none", "moving", "final"}]]
    BY <1>3 DEF WholeChunk, Requests, FillInv, TypeOK
  <2>2. stored' = [stored EXCEPT ![s] =
                     [d \in Days |-> IF d \in DOMAIN bars THEN bars[d] ELSE stored[s][d]]]
    BY <1>6
  <2> HIDE DEF s, bars
  <2>3. \A z \in Symbols, d \in Days :
          stored'[z][d] = IF z = s /\ d \in DOMAIN bars THEN bars[d] ELSE stored[z][d]
    BY <2>1, <2>2
  <2>4. /\ open'[p] # NoChunk /\ open'[p].req = open[p].req /\ open'[p].started = open[p].started
        /\ open'[p].stage = "ok" /\ \A q \in Processes \ {p} : ChunkUntouched(q)
    BY <1>4, <1>6
  <2>5. QED
    BY <1>1, <1>2, <1>3, <1>6, <2>3, <2>4 DEF s, bars
<1>7. QED
  BY <1>5, <1>6 DEF Store

LEMMA FinishDoes ==
  ASSUME FillInv, NEW p \in Processes, Finish(p)
  PROVE  /\ pc[p] = "work" /\ open[p] # NoChunk /\ open[p].stage \in {"ok", "empty", "failed"}
         /\ open[p].req \in todo[p] /\ open[p].req \in Requests
         /\ UNCHANGED <<fillAt, gaps, now, stored, commands, spent>>
         /\ Leave(p, open[p].req) /\ todo' = [todo EXCEPT ![p] = @ \ {open[p].req}]
         /\ open'[p] = NoChunk /\ \A q \in Processes \ {p} : ChunkUntouched(q)
         /\ \/ /\ ledger' = IF open[p].stage = "failed" THEN ledger ELSE ledger \cup {Row(p)}
               /\ UNCHANGED <<faults, disturbed>>
            \/ /\ Fault /\ UNCHANGED ledger
               /\ disturbed' = IF p = "server" THEN disturbed \cup {"failure"} ELSE disturbed
<1>1. /\ open[p].stage \in {"ok", "empty", "failed"} /\ Leave(p, open[p].req)
      /\ open' = [open EXCEPT ![p] = NoChunk] /\ UNCHANGED <<fillAt, gaps, now, stored, commands, spent>>
      /\ \/ /\ ledger' = IF open[p].stage = "failed" THEN ledger ELSE ledger \cup {Row(p)}
            /\ UNCHANGED <<faults, disturbed>>
         \/ /\ Fault /\ UNCHANGED ledger
            /\ disturbed' = IF p = "server" THEN disturbed \cup {"failure"} ELSE disturbed
  BY DEF Finish
<1>2. open[p] # NoChunk
  BY <1>1 DEF NoChunk
<1>3. WholeChunk(open[p]) /\ pc[p] = "work" /\ open[p].req \in todo[p]
  BY <1>2 DEF FillInv, TypeOK, Processing
<1>4. open'[p] = NoChunk /\ \A q \in Processes \ {p} : ChunkUntouched(q)
  BY <1>1 DEF FillInv, Processing, ChunkUntouched
<1>5. open[p].req \in Requests /\ todo' = [todo EXCEPT ![p] = @ \ {open[p].req}]
  BY <1>1, <1>3 DEF WholeChunk, Leave
<1>6. QED
  BY <1>1, <1>2, <1>3, <1>4, <1>5

(* A chunk is opened by Ask, changed by Store, and otherwise kept or gone.  *)
LEMMA ChunkMoves ==
  ASSUME FillInv, [Next]_vars, NEW p \in Processes
  PROVE  \/ open'[p] = NoChunk
         \/ ChunkUntouched(p)
         \/ \E req \in todo[p] : Ask(p, req)
         \/ Store(p)
<1>1. CASE UNCHANGED open
  BY <1>1 DEF ChunkUntouched
<1>2. ASSUME NEW q \in Processes, NEW req \in todo[q], Ask(q, req) PROVE ChunkUntouched(p) \/ p = q
  BY <1>2, AskDoes
<1>3. ASSUME NEW q \in Processes, Store(q) PROVE ChunkUntouched(p) \/ p = q
  BY <1>3, StoreDoes
<1>4. ASSUME NEW q \in Processes, Finish(q) PROVE ChunkUntouched(p) \/ open'[p] = NoChunk
  BY <1>4, FinishDoes
<1>5. ASSUME NEW q \in Processes, open' = [open EXCEPT ![q] = NoChunk]
      PROVE  ChunkUntouched(p) \/ open'[p] = NoChunk
  BY <1>5 DEF FillInv, Processing, ChunkUntouched
<1>6. CASE RunTimeout \/ \E q \in Processes : Down(q)
  BY <1>5, <1>6 DEF RunTimeout, Down, Processes
<1>7. CASE \/ Boot \/ Wake \/ Tick \/ TickFails \/ Clock \/ Horizon
           \/ \E req \in todo["command"] : Skip(req)
           \/ \E symbols \in Batches :
                \/ SyncCandles(symbols)
                \/ \E from \in Days, resumes \in BOOLEAN : Backfill(symbols, from, Day(now), resumes)
  BY <1>1, <1>7 DEF Boot, Wake, Tick, TickFails, Clock, Horizon, Skip, SyncCandles, Backfill, vars
<1>8. CASE UNCHANGED vars
  BY <1>1, <1>8 DEF vars
<1>9. CASE Next
  BY <1>2, <1>3, <1>4, <1>6, <1>7, <1>9 DEF Next
<1>10. QED
  BY <1>8, <1>9

LEMMA Bystanders ==
  ASSUME [Next]_vars
  PROVE  \/ UNCHANGED <<fillAt, gaps, now, stored, ledger>>
         \/ Clock /\ UNCHANGED <<fillAt, gaps, stored, ledger>>
         \/ \E p \in Processes : Store(p) /\ UNCHANGED <<fillAt, gaps, now, ledger>>
         \/ \E p \in Processes : Finish(p) /\ UNCHANGED <<fillAt, gaps, now, stored>>
<1>1. CASE Boot \/ Wake \/ Tick \/ TickFails \/ RunTimeout \/ Horizon \/ UNCHANGED vars
  BY <1>1 DEF Boot, Wake, Tick, TickFails, RunTimeout, Horizon, vars, ledgerVars
<1>2. CASE \E symbols \in Batches :
             \/ SyncCandles(symbols)
             \/ \E from \in Days, resumes \in BOOLEAN : Backfill(symbols, from, Day(now), resumes)
  BY <1>2 DEF SyncCandles, Backfill, ledgerVars
<1>3. CASE \E req \in todo["command"] : Skip(req)
  BY <1>3 DEF Skip, ledgerVars
<1>4. CASE \E p \in Processes : Down(p) \/ \E req \in todo[p] : Ask(p, req)
  BY <1>4 DEF Down, Ask, ledgerVars
<1>5. CASE Clock
  BY <1>5 DEF Clock, ledgerVars
<1>6. CASE \E p \in Processes : Store(p) \/ Finish(p)
  BY <1>6 DEF Store, Finish
<1>7. QED
  BY <1>1, <1>2, <1>3, <1>4, <1>5, <1>6 DEF Next

LEMMA LedgerMoves ==
  ASSUME [Next]_vars
  PROVE  \/ UNCHANGED ledger
         \/ \E p \in Processes : /\ Finish(p) /\ open[p].stage # "failed"
                                 /\ ledger' = ledger \cup {Row(p)}
<1>1. ASSUME NEW p \in Processes, Finish(p), open[p].stage = "failed" PROVE UNCHANGED ledger
  BY <1>1 DEF Finish
<1>2. ASSUME NEW p \in Processes, Finish(p), open[p].stage # "failed"
      PROVE  UNCHANGED ledger \/ ledger' = ledger \cup {Row(p)}
  BY <1>2 DEF Finish
<1>3. QED
  BY <1>1, <1>2, Bystanders

LEMMA TimeMoves ==
  ASSUME [Next]_vars
  PROVE  UNCHANGED <<fillAt, gaps>> /\ (UNCHANGED now \/ Clock)
  BY Bystanders

LEMMA StoredMoves ==
  ASSUME [Next]_vars
  PROVE  UNCHANGED stored \/ \E p \in Processes : Store(p)
  BY Bystanders

-----------------------------------------------------------------------------
(* Triggers.                                                                *)

LEMMA DayBounds ==
  ASSUME NEW t \in Nat
  PROVE  Day(t) \in Nat /\ Day(t) * Hours <= t /\ t < (Day(t) + 1) * Hours
<1>1. PICK day \in Nat : day = Day(t)
  BY DivMod, FillConstants DEF Day
<1>2. t - day * Hours \in Nat /\ t - day * Hours < Hours
  BY <1>1, DivMod, FillConstants DEF Day
<1>3. day * Hours \in Nat /\ (day + 1) * Hours = day * Hours + Hours
  BY <1>1, FillConstants
<1>4. QED
  BY <1>1, <1>2, <1>3, FillConstants

LEMMA DayOf ==
  ASSUME NEW t \in Nat, NEW day \in Nat, day * Hours <= t, t < (day + 1) * Hours
  PROVE  Day(t) = day
<1>1. PICK q \in Nat : q = Day(t) /\ q * Hours <= t /\ t < (q + 1) * Hours
  BY DayBounds
<1>2. \A a, b \in Nat : a < b => (a + 1) * Hours <= b * Hours
  <2>1. SUFFICES ASSUME NEW a \in Nat, NEW b \in Nat, a < b PROVE (a + 1) * Hours <= b * Hours
    OBVIOUS
  <2>2. a + 1 <= b
    BY <2>1
  <2>3. QED
    BY <2>2, FillConstants
<1>3. /\ q * Hours \in Nat /\ (q + 1) * Hours \in Nat
      /\ day * Hours \in Nat /\ (day + 1) * Hours \in Nat
  BY <1>1, FillConstants
<1>4. ~ (q < day) /\ ~ (day < q)
  BY <1>1, <1>2, <1>3
<1>5. QED
  BY <1>1, <1>4

LEMMA DueFacts ==
  ASSUME FillInv, NEW day \in Nat
  PROVE  /\ Due(day) \in Nat /\ Closed(day) <= Due(day) /\ day * Hours + fillAt <= Due(day)
         /\ day * Hours < Due(day) /\ Due(day) < (day + 1) * Hours
<1> DEFINE hours == {fillAt, CloseAt}
<1>1. fillAt \in 0 .. Hours - 1 /\ CloseAt \in 1 .. Hours - 1
  BY FillAssumption DEF FillInv, TypeOK
<1>2. hours \in SUBSET (0 .. Hours - 1) /\ hours # {} /\ Hours - 1 \in Nat
  BY <1>1, FillConstants
<1>3. Max(hours) \in hours /\ \A n \in hours : n <= Max(hours)
  BY <1>2, GreatestBounded
<1>4. Max(hours) \in 1 .. Hours - 1 /\ CloseAt <= Max(hours) /\ fillAt <= Max(hours)
  BY <1>1, <1>2, <1>3
<1>5. day * Hours \in Nat /\ (day + 1) * Hours = day * Hours + Hours
  BY FillConstants
<1>6. QED
  BY <1>1, <1>4, <1>5, FillConstants DEF Due, Closed

LEMMA NextRunFacts ==
  ASSUME FillInv
  PROVE  /\ NextRun(now) \in Nat /\ NextRun(now) > now
         /\ \E day \in TradingDays \cup {LastDay + 1} : NextRun(now) = Due(day)
         /\ \A day \in TradingDays : Due(day) > now => NextRun(now) <= Due(day)
<1> DEFINE days == TradingDays \cup {LastDay + 1}
           runs == {due \in {Due(d) : d \in days} : due > now}
<1>1. days \subseteq Nat
  BY FillConstants DEF Days
<1>2. runs \subseteq Nat
  BY <1>1, DueFacts
<1>3. Due(LastDay + 1) \in runs
  <2>1. Due(LastDay + 1) \in Nat /\ (LastDay + 1) * Hours < Due(LastDay + 1)
    BY DueFacts, FillConstants
  <2>2. now \in Nat /\ now < (LastDay + 1) * Hours /\ (LastDay + 1) * Hours \in Nat
    BY Today, FillConstants DEF FillInv
  <2>3. QED
    BY <2>1, <2>2
<1>4. Min(runs) \in runs /\ \A n \in runs : Min(runs) <= n
  BY <1>2, <1>3, LeastNatural
<1>5. NextRun(now) = Min(runs)
  BY DEF NextRun
<1> HIDE DEF runs
<1>6. NextRun(now) \in runs /\ \A n \in runs : NextRun(now) <= n
  BY <1>4, <1>5
<1>7. \A day \in TradingDays : Due(day) > now => Due(day) \in runs
  BY DEF runs
<1>8. NextRun(now) \in {Due(d) : d \in days} /\ NextRun(now) > now
  BY <1>6 DEF runs
<1>9. QED
  BY <1>2, <1>6, <1>7, <1>8

(* An evening begins at its trigger and lasts until midnight.               *)
LEMMA EveningTurns ==
  ASSUME FillInv, Clock, Evening'
  PROVE  \/ now' = Due(Day(now')) /\ Day(now') \in TradingDays
         \/ Evening /\ Day(now') = Day(now) /\ now' # Due(Day(now'))
<1>1. PICK t \in Nat : t = now
  BY Today
<1>2. now' = t + 1 /\ fillAt' = fillAt
  BY <1>1 DEF Clock
<1>3. PICK day \in Nat : day = Day(now')
  BY <1>2, DayBounds
<1>4. day \in TradingDays /\ t + 1 >= Due(day)
  BY <1>2, <1>3 DEF Evening, Due
<1>5. /\ Due(day) \in Nat /\ day * Hours < Due(day)
      /\ day * Hours \in Nat /\ t + 1 < (day + 1) * Hours /\ (day + 1) * Hours \in Nat
  <2>1. t + 1 \in Nat /\ day = Day(t + 1)
    BY <1>2, <1>3
  <2>2. t + 1 < (day + 1) * Hours
    BY <2>1, DayBounds
  <2>3. QED
    BY <2>2, DueFacts, FillConstants
<1>6. CASE t + 1 = Due(day)
  BY <1>2, <1>3, <1>4, <1>6
<1>7. CASE t + 1 # Due(day)
  <2>1. t >= Due(day)
    BY <1>4, <1>5, <1>7
  <2>2. Day(t) = day
    BY <1>5, <2>1, DayOf
  <2>3. QED
    BY <1>1, <1>2, <1>3, <1>4, <1>7, <2>1, <2>2 DEF Evening
<1>8. QED
  BY <1>6, <1>7

-----------------------------------------------------------------------------
(* The clocks: nothing was asked for in the future, a pass lasts an hour at *)
(* most and is for the evening it began in, a scheduler asleep will wake at *)
(* the next trigger.                                                        *)

Began == wake - 1     \* when the pass under way did

RowsPast ==
  /\ \A row \in ledger : row.started <= now
  /\ \A p \in Processes : open[p] # NoChunk => open[p].started <= now

PassWindow ==
  MidPass => /\ wake \in Nat /\ Began \in Nat /\ Began <= now /\ now <= wake
             /\ Day(Began) \in TradingDays /\ Began >= Due(Day(Began))
             /\ todo["server"] \subseteq Refresh(Symbols, Day(Began))
             /\ open["server"] # NoChunk => Began <= open["server"].started

SleepWindow ==
  pc["server"] = "sleep" =>
    /\ wake \in Nat /\ now <= wake
    /\ \E day \in TradingDays \cup {LastDay + 1} : wake = Due(day)
    /\ \A day \in TradingDays : Due(day) > now => wake <= Due(day)

Clocks == RowsPast /\ PassWindow /\ SleepWindow

LEMMA ClocksStart == Init => Clocks
  BY DEF Init, Clocks, RowsPast, PassWindow, SleepWindow, MidPass, Processes

LEMMA RowsPastStep == ASSUME FillInv, RowsPast, [Next]_vars PROVE RowsPast'
<1>1. now \in Nat /\ now' \in Nat /\ now <= now'
  BY Today, TimeMoves DEF Clock
<1>2. \A p \in Processes : open[p] # NoChunk => open[p].started \in Nat
  BY DEF FillInv, Processing, WholeChunk, Times
<1>3. ASSUME NEW p \in Processes, open'[p] # NoChunk PROVE open'[p].started <= now'
  <2>1. CASE ChunkUntouched(p)
    BY <1>1, <1>2, <1>3, <2>1 DEF RowsPast, ChunkUntouched
  <2>2. CASE \E req \in todo[p] : Ask(p, req)
    BY <1>1, <2>2, AskDoes
  <2>3. CASE Store(p)
    BY <1>1, <1>2, <2>3, StoreDoes DEF RowsPast
  <2>4. QED
    BY <1>3, <2>1, <2>2, <2>3, ChunkMoves
<1>4. ASSUME NEW row \in ledger' PROVE row.started <= now'
  <2>1. CASE row \in ledger
    <3>1. row.started \in Nat
      BY <2>1 DEF FillInv, TypeOK, Rows, Times
    <3>2. QED
      BY <1>1, <2>1, <3>1 DEF RowsPast
  <2>2. CASE row \notin ledger
    <3>1. PICK p \in Processes : Finish(p) /\ row = Row(p)
      BY <1>4, <2>2, LedgerMoves
    <3>2. open[p] # NoChunk /\ row.started = open[p].started
      BY <3>1, FinishDoes DEF Row
    <3>3. QED
      BY <1>1, <1>2, <3>2 DEF RowsPast
  <2>3. QED
    BY <2>1, <2>2
<1>5. QED
  BY <1>3, <1>4 DEF RowsPast

LEMMA AtWork ==
  ASSUME FillInv
  PROVE  /\ pc \in [Processes -> {"down", "tick", "work", "sleep", "idle"}]
         /\ todo \in [Processes -> SUBSET Requests] /\ open = [p \in Processes |-> open[p]]
         /\ "server" \in Processes /\ "command" \in Processes
         /\ \A p \in Processes : p = "server" \/ p = "command"
  BY DEF FillInv, Processing, TypeOK, Processes

(* What keeps a pass under way going, ...                                   *)
LEMMA PassGoesOn ==
  ASSUME FillInv, Clocks, [Next]_vars, MidPass,
         UNCHANGED <<now, wake>>, todo'["server"] \subseteq todo["server"]
  PROVE  PassWindow'
<1>1. PassWindow /\ UNCHANGED fillAt
  BY TimeMoves DEF Clocks
<1>2. /\ Began' = Began /\ wake \in Nat /\ Began \in Nat /\ Began <= now /\ now <= wake
      /\ Day(Began) \in TradingDays /\ Began >= Due(Day(Began))
      /\ todo["server"] \subseteq Refresh(Symbols, Day(Began))
      /\ open["server"] # NoChunk => Began <= open["server"].started
  BY <1>1 DEF PassWindow, Began
<1>3. (Day(Began) \in TradingDays /\ Began >= Due(Day(Began)))'
  BY <1>1, <1>2 DEF Due
<1>4. Refresh(Symbols, Day(Began))' = Refresh(Symbols, Day(Began))
  BY <1>2
<1>5. open'["server"] # NoChunk => Began <= open'["server"].started
  <2>1. CASE ChunkUntouched("server")
    BY <1>2, <2>1 DEF ChunkUntouched
  <2>2. CASE \E req \in todo["server"] : Ask("server", req)
    BY <1>2, <2>2, AskDoes, AtWork
  <2>3. CASE Store("server")
    BY <1>2, <2>3, StoreDoes, AtWork
  <2>4. QED
    BY <2>1, <2>2, <2>3, ChunkMoves, AtWork
<1>6. QED
  BY <1>2, <1>3, <1>4, <1>5 DEF PassWindow

(* ... and what puts the scheduler to sleep.                                *)
LEMMA SleepBegins ==
  ASSUME FillInv, UNCHANGED <<now, fillAt>>, wake' = NextRun(now), pc'["server"] = "sleep"
  PROVE  PassWindow' /\ SleepWindow'
<1>1. /\ wake' \in Nat /\ wake' > now /\ now \in Nat
      /\ \E day \in TradingDays \cup {LastDay + 1} : wake' = Due(day)
      /\ \A day \in TradingDays : Due(day) > now => wake' <= Due(day)
  BY NextRunFacts, Today
<1>2. \A day \in TradingDays \cup {LastDay + 1} : Due(day)' = Due(day)
  BY DEF Due
<1>3. QED
  BY <1>1, <1>2 DEF PassWindow, SleepWindow, MidPass

LEMMA SleepGoesOn ==
  ASSUME FillInv, Clocks, UNCHANGED <<now, fillAt, wake>>, pc'["server"] = pc["server"]
  PROVE  SleepWindow'
<1>1. \A day \in TradingDays \cup {LastDay + 1} : Due(day)' = Due(day)
  BY DEF Due
<1>2. QED
  BY <1>1 DEF Clocks, SleepWindow

LEMMA LeaveDoes ==
  ASSUME FillInv, NEW p \in Processes, NEW req \in todo[p], pc[p] = "work", Leave(p, req)
  PROVE  /\ todo' = [todo EXCEPT ![p] = @ \ {req}]
         /\ \/ /\ p = "server" /\ todo[p] = {req} /\ pc' = [pc EXCEPT ![p] = "sleep"]
               /\ wake' = NextRun(now) /\ UNCHANGED command
            \/ /\ p = "command" /\ todo[p] = {req} /\ pc' = [pc EXCEPT ![p] = "idle"]
               /\ command' = [command EXCEPT !.ended = TRUE] /\ UNCHANGED wake
            \/ todo[p] # {req} /\ UNCHANGED <<pc, wake, command>>
  BY DEF Leave, Settle, Processes

LEMMA WindowsStep ==
  ASSUME FillInv, Clocks, [Next]_vars
  PROVE  PassWindow' /\ SleepWindow'
<1> USE AtWork
<1>0. UNCHANGED fillAt
  BY TimeMoves
<1>1. ASSUME UNCHANGED <<pc, now, wake>>, todo'["server"] \subseteq todo["server"]
      PROVE  PassWindow' /\ SleepWindow'
  <2>1. SleepWindow'
    BY <1>0, <1>1, SleepGoesOn
  <2>2. CASE MidPass
    BY <1>1, <2>1, <2>2, PassGoesOn
  <2>3. CASE ~MidPass
    BY <1>1, <2>1, <2>3 DEF PassWindow, MidPass
  <2>4. QED
    BY <2>2, <2>3
<1>2. ASSUME pc'["server"] \in {"tick", "down"} PROVE PassWindow' /\ SleepWindow'
  BY <1>2 DEF PassWindow, SleepWindow, MidPass
<1>3. ASSUME NEW p \in Processes, NEW req \in todo[p], pc[p] = "work", Leave(p, req), UNCHANGED now
      PROVE  PassWindow' /\ SleepWindow'
  <2>1. todo'["server"] \subseteq todo["server"]
    BY <1>3, LeaveDoes
  <2>2. CASE UNCHANGED <<pc, wake, command>>
    BY <1>1, <1>3, <2>1, <2>2
  <2>3. CASE p = "server" /\ pc' = [pc EXCEPT ![p] = "sleep"] /\ wake' = NextRun(now)
    BY <1>0, <1>3, <2>3, SleepBegins
  <2>4. CASE p = "command" /\ pc' = [pc EXCEPT ![p] = "idle"] /\ UNCHANGED wake
    <3>1. pc'["server"] = pc["server"] /\ SleepWindow'
      BY <1>0, <1>3, <2>4, SleepGoesOn
    <3>2. CASE MidPass
      BY <1>3, <2>1, <2>4, <3>1, <3>2, PassGoesOn
    <3>3. CASE ~MidPass
      BY <3>1, <3>3 DEF PassWindow, MidPass
    <3>4. QED
      BY <3>2, <3>3
  <2>5. QED
    BY <1>3, <2>2, <2>3, <2>4, LeaveDoes
<1>4. ASSUME NEW asked \in SUBSET Requests, pc["command"] = "idle" \/ pc["command"] = "work",
             NEW stage, pc' = [pc EXCEPT !["command"] = stage],
             todo' = [todo EXCEPT !["command"] = asked], UNCHANGED <<now, wake>>
      PROVE  PassWindow' /\ SleepWindow'
  <2>1. pc'["server"] = pc["server"] /\ todo'["server"] = todo["server"] /\ SleepWindow'
    BY <1>0, <1>4, SleepGoesOn
  <2>2. CASE MidPass
    BY <1>4, <2>1, <2>2, PassGoesOn
  <2>3. CASE ~MidPass
    BY <2>1, <2>3 DEF PassWindow, MidPass
  <2>4. QED
    BY <2>2, <2>3
<1>5. CASE UNCHANGED vars \/ Horizon
  BY <1>1, <1>5 DEF vars, Horizon
<1>6. CASE Boot \/ Wake
  BY <1>2, <1>6 DEF Boot, Wake
<1>7. CASE TickFails \/ RunTimeout
  <2>1. pc'["server"] = "sleep" /\ wake' = NextRun(now) /\ UNCHANGED now
    BY <1>7 DEF TickFails, RunTimeout, Settle
  <2>2. QED
    BY <1>0, <2>1, SleepBegins
<1>8. CASE Tick
  <2> DEFINE due  == Due(Day(now))
             pass == IF Day(now) \in TradingDays /\ now >= due /\ ~AlreadySynced(due)
                     THEN Refresh(Symbols, Day(now)) ELSE {}
  <2>1. pc["server"] = "tick" /\ UNCHANGED <<now, open>>
    BY <1>8 DEF Tick
  <2>2. CASE pass = {}
    <3>1. pc'["server"] = "sleep" /\ wake' = NextRun(now)
      BY <1>8, <2>2 DEF Tick
    <3>2. QED
      BY <1>0, <2>1, <3>1, SleepBegins
  <2>3. CASE pass # {}
    <3>1. pc'["server"] = "work" /\ todo'["server"] = pass /\ wake' = now + 1
      BY <1>8, <2>3 DEF Tick
    <3>2. Day(now) \in TradingDays /\ now >= due /\ pass = Refresh(Symbols, Day(now))
      BY <2>3
    <3>3. now \in Nat /\ wake' \in Nat /\ Began' = now
      BY <3>1, Today DEF Began
    <3>4. open'["server"] = NoChunk
      BY <2>1, Idle
    <3>5. (Day(Began) \in TradingDays /\ Began >= Due(Day(Began)))'
      BY <1>0, <2>1, <3>2, <3>3 DEF Due
    <3>6. Refresh(Symbols, Day(Began))' = pass
      BY <3>2, <3>3
    <3> HIDE DEF pass, due
    <3>7. PassWindow'
      BY <2>1, <3>1, <3>3, <3>4, <3>5, <3>6 DEF PassWindow
    <3>8. SleepWindow'
      BY <3>1 DEF SleepWindow
    <3>9. QED
      BY <3>7, <3>8
  <2>4. QED
    BY <2>2, <2>3
<1>9. CASE Clock
  <2>1. /\ now' = now + 1 /\ UNCHANGED <<fillAt, pc, todo, open, wake>>
        /\ pc["server"] \in {"sleep", "work"} => now < wake
    BY <1>9 DEF Clock
  <2>2. now \in Nat
    BY Today
  <2>3. PassWindow'
    <3>1. SUFFICES ASSUME MidPass PROVE PassWindow'
      BY <2>1 DEF PassWindow, MidPass
    <3>2. /\ Began' = Began /\ Began \in Nat /\ Began <= now /\ now < wake /\ wake \in Nat
          /\ Day(Began) \in TradingDays /\ Began >= Due(Day(Began))
          /\ todo["server"] \subseteq Refresh(Symbols, Day(Began))
          /\ open["server"] # NoChunk => Began <= open["server"].started
      BY <3>1, <2>1 DEF Clocks, PassWindow, Began, MidPass
    <3>3. (Day(Began) \in TradingDays /\ Began >= Due(Day(Began)))'
      BY <2>1, <3>2 DEF Due
    <3>4. Refresh(Symbols, Day(Began))' = Refresh(Symbols, Day(Began))
      BY <3>2
    <3>5. Began <= now' /\ now' <= wake'
      BY <2>1, <2>2, <3>2
    <3>6. QED
      BY <2>1, <3>2, <3>3, <3>4, <3>5 DEF PassWindow
  <2>4. SleepWindow'
    <3>a. \A day \in TradingDays \cup {LastDay + 1} : day \in Nat
      BY FillConstants DEF Days
    <3>1. \A day \in TradingDays \cup {LastDay + 1} : Due(day)' = Due(day) /\ Due(day) \in Nat
      BY <1>0, <3>a, DueFacts DEF Due
    <3>2. QED
      BY <2>1, <2>2, <3>1 DEF Clocks, SleepWindow
  <2>5. QED
    BY <2>3, <2>4
<1>10. ASSUME NEW req \in todo["command"], Skip(req) PROVE PassWindow' /\ SleepWindow'
  BY <1>3, <1>10 DEF Skip
<1>11. ASSUME NEW p \in Processes, (\E req \in todo[p] : Ask(p, req)) \/ Store(p)
       PROVE  PassWindow' /\ SleepWindow'
  BY <1>1, <1>11 DEF Ask, Store
<1>12. ASSUME NEW p \in Processes, Finish(p) PROVE PassWindow' /\ SleepWindow'
  BY <1>3, <1>12, FinishDoes
<1>13. ASSUME NEW p \in Processes, Down(p) PROVE PassWindow' /\ SleepWindow'
  <2>1. CASE p = "server"
    BY <1>2, <1>13, <2>1 DEF Down
  <2>2. CASE p = "command"
    BY <1>4, <1>13, <2>2 DEF Down, FillInv, TypeOK
  <2>3. QED
    BY <2>1, <2>2
<1>14. ASSUME NEW symbols \in Batches,
              \/ SyncCandles(symbols)
              \/ \E from \in Days, resumes \in BOOLEAN : Backfill(symbols, from, Day(now), resumes)
       PROVE  PassWindow' /\ SleepWindow'
  <2>1. UNCHANGED <<now, wake>> /\ pc' = [pc EXCEPT !["command"] = "work"] /\ pc["command"] = "idle"
    BY <1>14 DEF SyncCandles, Backfill
  <2>2. \E asked \in SUBSET Requests : todo' = [todo EXCEPT !["command"] = asked]
    <3>1. symbols \in SUBSET Symbols /\ Day(now) \in Days
      BY FillConstants, Today
    <3>2. QED
      BY <1>14, <3>1, RefreshRequests, BackfillRequests DEF SyncCandles, Backfill
  <2>3. QED
    BY <1>4, <2>1, <2>2
<1>15. QED
  BY <1>5, <1>6, <1>7, <1>8, <1>9, <1>10, <1>11, <1>12, <1>13, <1>14 DEF Next

LEMMA ClocksStep == FillInv /\ Clocks /\ [Next]_vars => Clocks'
  BY RowsPastStep, WindowsStep DEF Clocks

-----------------------------------------------------------------------------
(* The bars: what was answered is stored before its row is closed, and no   *)
(* bar is ever lost again.                                                  *)

Had(s, d, t) == Bar(s, d, t) # "none"

Brought(c) ==
  LET s     == c.req.symbol
      asked == c.req.from .. c.req.to
  IN  /\ c.stage \in {"answered", "ok", "empty", "failed"}
      /\ c.stage = "answered" => /\ DOMAIN c.bars = {d \in asked : Had(s, d, c.started)}
                                 /\ \A d \in DOMAIN c.bars : c.bars[d] = Bar(s, d, c.started)
      /\ c.stage = "ok" => \A d \in asked : Had(s, d, c.started) => stored[s][d] # "none"
      /\ c.stage = "empty" => \A d \in asked : ~Had(s, d, c.started)

ChunksBring == \A p \in Processes : open[p] # NoChunk => Brought(open[p])

RowsKept ==
  \A row \in ledger : \A d \in row.from .. row.to :
    Had(row.symbol, d, row.started) => stored[row.symbol][d] # "none"

GapsStay ==
  \A s \in Symbols, d \in Days :
    <<s, d>> \in gaps \/ d \notin TradingDays => stored[s][d] = "none"

Books == ChunksBring /\ RowsKept /\ GapsStay

LEMMA BooksStart == Init => Books
  BY DEF Init, Books, ChunksBring, RowsKept, GapsStay, Processes

LEMMA BarsGrow ==
  ASSUME NEW s, NEW d \in Days, NEW t \in Nat, NEW u \in Nat, t <= u, Had(s, d, t)
  PROVE  Had(s, d, u)
<1>1. d * Hours + OpenAt \in Nat
  BY FillAssumption, FillConstants DEF Days
<1>2. QED
  BY <1>1 DEF Had, Bar

LEMMA Asked ==
  ASSUME NEW req \in Requests
  PROVE  /\ req.symbol \in Symbols /\ req.from .. req.to \subseteq Days
         /\ req.from \in Days /\ req.to \in Days
  BY FillConstants DEF Requests, Days

LEMMA BarsStay ==
  ASSUME FillInv, [Next]_vars, NEW s \in Symbols, NEW d \in Days, stored[s][d] # "none"
  PROVE  stored'[s][d] # "none"
<1>1. ASSUME NEW p \in Processes, Store(p) PROVE stored'[s][d] # "none"
  <2>1. \A e \in DOMAIN open[p].bars : open[p].bars[e] # "none"
    BY <1>1, StoreDoes DEF WholeChunk
  <2>2. QED
    BY <1>1, <2>1, StoreDoes
<1>2. QED
  BY <1>1, StoredMoves

LEMMA BroughtStays ==
  ASSUME FillInv, [Next]_vars, NEW c, WholeChunk(c), Brought(c)
  PROVE  Brought(c)'
<1> DEFINE s     == c.req.symbol
           asked == c.req.from .. c.req.to
<1>1. \A d, t : Bar(s, d, t)' = Bar(s, d, t)
  BY TimeMoves DEF Bar
<1>2. s \in Symbols /\ asked \subseteq Days
  BY Asked DEF WholeChunk
<1>3. \A d \in asked : stored[s][d] # "none" => stored'[s][d] # "none"
  BY <1>2, BarsStay
<1>4. QED
  BY <1>1, <1>3 DEF Brought, Had

LEMMA ChunksBringStep == ASSUME FillInv, Books, [Next]_vars PROVE ChunksBring'
<1>1. SUFFICES ASSUME NEW p \in Processes, open'[p] # NoChunk PROVE Brought(open[p])'
  BY DEF ChunksBring
<1>2. CASE ChunkUntouched(p)
  <2>1. WholeChunk(open[p]) /\ Brought(open[p]) /\ open'[p] = open[p]
    BY <1>1, <1>2 DEF ChunkUntouched, Books, ChunksBring, FillInv, Processing
  <2>2. PICK c : c = open[p]
    OBVIOUS
  <2>3. Brought(c)'
    BY <2>1, <2>2, BroughtStays
  <2>4. QED
    BY <2>1, <2>2, <2>3
<1>3. CASE \E req \in todo[p] : Ask(p, req)
  <2>1. PICK req \in todo[p] : Ask(p, req)
    BY <1>3
  <2>2. PICK c : c = open'[p]
    OBVIOUS
  <2>3. /\ c.req = req /\ c.started = now /\ UNCHANGED <<gaps, stored>>
        /\ \/ c.stage = "failed"
           \/ /\ c.stage = IF Answer(req) = << >> THEN "empty" ELSE "answered"
              /\ c.bars = Answer(req)
    BY <2>1, <2>2, AskDoes
  <2>4. /\ DOMAIN Answer(req) = {d \in req.from .. req.to : Had(req.symbol, d, now)}
        /\ \A d \in DOMAIN Answer(req) : Answer(req)[d] = Bar(req.symbol, d, now)
    BY DEF Answer, Had
  <2>5. Answer(req) = << >> => \A d \in req.from .. req.to : ~Had(req.symbol, d, now)
    <3>1. Answer(req) = << >> => DOMAIN Answer(req) = {}
      OBVIOUS
    <3>2. QED
      BY <2>4, <3>1
  <2>6. Brought(c)
    BY <2>3, <2>4, <2>5 DEF Brought
  <2>7. \A d, t : Bar(c.req.symbol, d, t)' = Bar(c.req.symbol, d, t)
    BY <2>3 DEF Bar
  <2>8. Brought(c)'
    BY <2>3, <2>6, <2>7 DEF Brought, Had
  <2>9. QED
    BY <2>2, <2>8
<1>4. CASE Store(p)
  <2>1. PICK c, was, s : c = open'[p] /\ was = open[p] /\ s = was.req.symbol
    OBVIOUS
  <2>2. /\ c.req = was.req /\ c.started = was.started /\ UNCHANGED gaps
        /\ was # NoChunk /\ was.stage = "answered" /\ WholeChunk(was) /\ Brought(was)
        /\ \/ c.stage = "failed"
           \/ /\ c.stage = "ok"
              /\ \A z \in Symbols, d \in Days :
                   stored'[z][d] = IF z = s /\ d \in DOMAIN was.bars THEN was.bars[d] ELSE stored[z][d]
    BY <1>4, <2>1, StoreDoes DEF Books, ChunksBring
  <2>3. s \in Symbols /\ was.req.from .. was.req.to \subseteq Days
    BY <2>1, <2>2, Asked DEF WholeChunk
  <2>4. \A d \in was.req.from .. was.req.to :
          Had(s, d, was.started) => d \in DOMAIN was.bars /\ was.bars[d] # "none"
    BY <2>1, <2>2 DEF Brought, Had
  <2>5. \A d, t : Bar(s, d, t)' = Bar(s, d, t)
    BY <2>2 DEF Bar
  <2>6. c.stage = "ok" => \A d \in was.req.from .. was.req.to :
                            Had(s, d, was.started) => stored'[s][d] # "none"
    BY <2>2, <2>3, <2>4
  <2>7. Brought(c)'
    BY <2>1, <2>2, <2>5, <2>6 DEF Brought, Had
  <2>8. QED
    BY <2>1, <2>7
<1>5. QED
  BY <1>1, <1>2, <1>3, <1>4, ChunkMoves

LEMMA RowsKeptStep == ASSUME FillInv, Books, [Next]_vars PROVE RowsKept'
<1>1. SUFFICES ASSUME NEW row \in ledger', NEW d \in row.from .. row.to,
                      Had(row.symbol, d, row.started)
               PROVE  stored'[row.symbol][d] # "none"
  BY TimeMoves DEF RowsKept, Had, Bar
<1>2. CASE row \in ledger
  <2>1. row.symbol \in Symbols /\ row.from .. row.to \subseteq Days
    BY <1>2, FillConstants DEF FillInv, TypeOK, Rows, Days
  <2>2. stored[row.symbol][d] # "none"
    BY <1>1, <1>2 DEF Books, RowsKept
  <2>3. QED
    BY <2>1, <2>2, BarsStay
<1>3. CASE row \notin ledger
  <2>1. PICK p \in Processes : Finish(p) /\ row = Row(p) /\ open[p].stage # "failed"
    BY <1>1, <1>3, LedgerMoves
  <2>2. /\ open[p] # NoChunk /\ open[p].stage \in {"ok", "empty"} /\ UNCHANGED stored
        /\ Brought(open[p])
    BY <2>1, FinishDoes DEF Books, ChunksBring
  <2>3. QED
    BY <1>1, <2>1, <2>2 DEF Brought, Row
<1>4. QED
  BY <1>2, <1>3

LEMMA GapsStayStep == ASSUME FillInv, Books, [Next]_vars PROVE GapsStay'
<1>1. ASSUME NEW p \in Processes, Store(p) PROVE GapsStay'
  <2>1. SUFFICES ASSUME NEW s \in Symbols, NEW d \in Days, <<s, d>> \in gaps \/ d \notin TradingDays
                 PROVE  stored'[s][d] = "none"
    BY TimeMoves DEF GapsStay
  <2>2. stored[s][d] = "none" /\ \A t : ~Had(s, d, t)
    BY <2>1 DEF Books, GapsStay, Had, Bar
  <2>3. s = open[p].req.symbol => d \notin DOMAIN open[p].bars
    BY <1>1, <2>2, StoreDoes DEF Books, ChunksBring, Brought
  <2>4. QED
    BY <1>1, <2>2, <2>3, StoreDoes
<1>2. QED
  BY <1>1, StoredMoves, TimeMoves DEF Books, GapsStay

LEMMA BooksStep == FillInv /\ Books /\ [Next]_vars => Books'
  BY ChunksBringStep, RowsKeptStep, GapsStayStep DEF Books

-----------------------------------------------------------------------------
(* The command: what it was asked for is stored, excused by an earlier row, *)
(* or still to be gone through.                                             *)

Excused(s, d) ==
  /\ d < Day(now)
  /\ \E row \in ledger : /\ row.symbol = s
                         /\ row.from <= d /\ d <= row.to
                         /\ row.started < d * Hours + OpenAt

Commands == [symbols : SUBSET Symbols, from : Days, to : Days, resumes : BOOLEAN,
             began : Nat, failed : BOOLEAN, ended : BOOLEAN]

Awaited(s, d) == \E req \in todo["command"] : req.symbol = s /\ d \in req.from .. req.to

Pursued ==
  (pc["command"] = "work" \/ command.ended) /\ ~command.failed =>
    \A s \in command.symbols, d \in command.from .. command.to :
      Had(s, d, command.began) => stored[s][d] # "none" \/ Excused(s, d) \/ Awaited(s, d)

CommandWell ==
  /\ command \in Commands /\ command.began <= now
  /\ command.ended => pc["command"] = "idle" /\ todo["command"] = {}
  /\ open["command"] # NoChunk => /\ command.began <= open["command"].started
                                  /\ open["command"].stage = "failed" => command.failed

Pending == CommandWell /\ Pursued

LEMMA PendingStart == Init => Pending
<1> SUFFICES ASSUME Init PROVE Pending
  OBVIOUS
<1>1. 0 \in Days
  BY FillConstants DEF Days
<1>2. NoCommand \in Commands
  BY <1>1 DEF NoCommand, Commands
<1>3. QED
  BY <1>2 DEF Init, Pending, CommandWell, Pursued, Processes, NoCommand

LEMMA CommandMoves ==
  ASSUME FillInv, [Next]_vars
  PROVE  \/ /\ todo'["command"] = todo["command"] /\ pc'["command"] = pc["command"]
            /\ command' = command \/ command' = [command EXCEPT !.failed = TRUE]
         \/ /\ pc["command"] = "idle" /\ command' = NoCommand
            /\ UNCHANGED <<pc, todo>>
         \/ \E req \in todo["command"] : Skip(req)
         \/ Finish("command")
         \/ Down("command")
         \/ \E symbols \in Batches :
              \/ SyncCandles(symbols)
              \/ \E from \in Days, resumes \in BOOLEAN : Backfill(symbols, from, Day(now), resumes)
<1> USE AtWork
<1>1. CASE UNCHANGED vars \/ Horizon
  BY <1>1 DEF vars, Horizon
<1>2. CASE Boot \/ Wake \/ TickFails
  BY <1>2 DEF Boot, Wake, TickFails
<1>3. CASE Tick
  <2>1. UNCHANGED command
    BY <1>3 DEF Tick, history
  <2>2. \E stage, asked : /\ pc' = [pc EXCEPT !["server"] = stage]
                          /\ todo' = todo \/ todo' = [todo EXCEPT !["server"] = asked]
    BY <1>3 DEF Tick
  <2>3. QED
    BY <2>1, <2>2
<1>4. CASE RunTimeout
  BY <1>4 DEF RunTimeout, Settle
<1>5. CASE Clock
  BY <1>5 DEF Clock
<1>6. ASSUME NEW p \in Processes, NEW req \in todo[p], Ask(p, req)
      PROVE  /\ todo'["command"] = todo["command"] /\ pc'["command"] = pc["command"]
             /\ command' = command \/ command' = [command EXCEPT !.failed = TRUE]
  BY <1>6, AskDoes DEF Failed
<1>7. ASSUME NEW p \in Processes, Store(p)
      PROVE  /\ todo'["command"] = todo["command"] /\ pc'["command"] = pc["command"]
             /\ command' = command \/ command' = [command EXCEPT !.failed = TRUE]
  BY <1>7, StoreDoes DEF Failed
<1>8. ASSUME Finish("server")
      PROVE  /\ todo'["command"] = todo["command"] /\ pc'["command"] = pc["command"]
             /\ command' = command
  BY <1>8, FinishDoes, LeaveDoes
<1>9. ASSUME Down("server")
      PROVE  /\ todo'["command"] = todo["command"] /\ pc'["command"] = pc["command"]
             /\ command' = command
  BY <1>9 DEF Down
<1>10. QED
  BY <1>1, <1>2, <1>3, <1>4, <1>5, <1>6, <1>7, <1>8, <1>9 DEF Next

LEMMA ChunkStarts ==
  ASSUME NEW n \in Nat, NEW d \in Nat \ {0}
  PROVE  (n * d) % d = 0
<1>1. PICK q \in Nat : q = (n * d) \div d /\ n * d - q * d \in Nat /\ n * d - q * d < d
  BY DivMod
<1>2. \A a, b \in Nat : a < b => (a + 1) * d <= b * d
  <2>1. SUFFICES ASSUME NEW a \in Nat, NEW b \in Nat, a < b PROVE (a + 1) * d <= b * d
    OBVIOUS
  <2>2. a + 1 <= b
    BY <2>1
  <2>3. QED
    BY <2>2
<1>3. n * d \in Nat /\ q * d \in Nat /\ (n + 1) * d = n * d + d /\ (q + 1) * d = q * d + d
  OBVIOUS
<1>4. ~ (n < q) /\ ~ (q < n)
  BY <1>1, <1>2, <1>3
<1>5. n * d = q * d
  BY <1>4
<1>6. QED
  BY <1>1, <1>3, <1>5

(* The chunks of a backfill leave no day out, ...                           *)
LEMMA ChunksCover ==
  ASSUME NEW from \in Days, NEW to \in Days, NEW d \in from .. to
  PROVE  \E w \in ChunkWindows(from, to) : d \in w[1] .. w[2]
<1>1. from \in Nat /\ to \in Nat /\ d \in Nat /\ from <= d /\ d <= to /\ d - from \in Nat
  BY FillConstants DEF Days
<1>2. PICK k \in Nat : /\ k = (d - from) \div ChunkDays
                       /\ (d - from) - k * ChunkDays \in Nat
                       /\ (d - from) - k * ChunkDays < ChunkDays
  BY <1>1, DivMod, FillConstants
<1>3. PICK size \in Nat : size = k * ChunkDays
  BY FillConstants
<1>4. PICK start \in from .. to : start = from + size /\ start <= d /\ d <= start + ChunkDays - 1
  <2>1. from + size \in from .. to /\ from + size <= d /\ d <= from + size + ChunkDays - 1
    BY <1>1, <1>2, <1>3, FillConstants
  <2>2. QED
    BY <2>1
<1>5. (start - from) % ChunkDays = 0
  <2>1. start - from = k * ChunkDays
    BY <1>1, <1>3, <1>4
  <2>2. QED
    BY <2>1, ChunkStarts, FillConstants
<1> DEFINE ends == {start + ChunkDays - 1, to}
<1>6. Min(ends) \in ends
  <2>1. ends \in SUBSET Nat /\ ends # {}
    BY <1>1, <1>4, FillConstants
  <2>2. QED
    BY <2>1, LeastNatural
<1>7. d <= Min(ends) /\ Min(ends) \in Nat
  BY <1>1, <1>4, <1>6, FillConstants
<1>8. <<start, Min(ends)>> \in ChunkWindows(from, to)
  BY <1>5 DEF ChunkWindows
<1> HIDE DEF ends
<1>9. QED
  BY <1>1, <1>4, <1>7, <1>8

LEMMA ChunkUnstarted ==
  ASSUME FillInv, pc["command"] = "idle" PROVE open["command"] = NoChunk
  BY Idle, AtWork

(* ... and so a command that begins has all it was asked for before it.     *)
LEMMA CommandBegins ==
  ASSUME FillInv, [Next]_vars, NEW symbols \in SUBSET Symbols, NEW from \in Days, NEW to \in Days,
         NEW resumes \in BOOLEAN,
         pc["command"] = "idle", pc' = [pc EXCEPT !["command"] = "work"], UNCHANGED <<now, open>>,
         command' = [symbols |-> symbols, from |-> from, to |-> to, resumes |-> resumes,
                     began |-> now, failed |-> FALSE, ended |-> FALSE],
         \A s \in symbols, d \in from .. to :
           \E req \in todo'["command"] : req.symbol = s /\ d \in req.from .. req.to
  PROVE  Pending'
<1>1. now \in Nat
  BY Today
<1>2. open'["command"] = NoChunk
  BY ChunkUnstarted
<1>3. /\ command'.symbols = symbols /\ command'.from = from /\ command'.to = to
      /\ command'.began = now /\ command'.failed = FALSE /\ command'.ended = FALSE
  OBVIOUS
<1>4. CommandWell'
  <2>1. command' \in Commands
    BY <1>1 DEF Commands
  <2>2. QED
    BY <1>1, <1>2, <1>3, <2>1 DEF CommandWell
<1>5. Pursued'
  BY <1>3 DEF Pursued, Awaited
<1>6. QED
  BY <1>4, <1>5 DEF Pending

LEMMA SyncBegins ==
  ASSUME FillInv, [Next]_vars, NEW symbols \in Batches, SyncCandles(symbols) PROVE Pending'
<1> DEFINE tail == TailOf(Day(now))
<1>1. symbols \in SUBSET Symbols
  BY FillConstants
<1>2. tail # {}
  BY DEF SyncCandles, Refresh
<1>3. tail \subseteq 0 .. LastDay
  BY FillConstants DEF TailOf, Days
<1>4. Max(tail) \in tail
  BY <1>2, <1>3, GreatestBounded, FillConstants
<1>5. Min(tail) \in tail
  <2>1. tail \in SUBSET Nat
    BY <1>3
  <2>2. QED
    BY <1>2, <2>1, LeastNatural
<1>6. Min(tail) \in Days /\ Max(tail) \in Days
  BY <1>3, <1>4, <1>5 DEF Days
<1>7. /\ pc["command"] = "idle" /\ pc' = [pc EXCEPT !["command"] = "work"] /\ UNCHANGED <<now, open>>
      /\ command' = [symbols |-> symbols, from |-> Min(tail), to |-> Max(tail), resumes |-> FALSE,
                     began |-> now, failed |-> FALSE, ended |-> FALSE]
      /\ todo'["command"] = {Request(s, Min(tail), Max(tail)) : s \in symbols}
  BY <1>2, AtWork DEF SyncCandles, Refresh
<1> HIDE DEF tail
<1>8. \A s \in symbols, d \in Min(tail) .. Max(tail) :
        \E req \in todo'["command"] : req.symbol = s /\ d \in req.from .. req.to
  <2>1. SUFFICES ASSUME NEW s \in symbols, NEW d \in Min(tail) .. Max(tail)
                 PROVE  \E req \in todo'["command"] : req.symbol = s /\ d \in req.from .. req.to
    OBVIOUS
  <2>2. Request(s, Min(tail), Max(tail)) \in todo'["command"]
    BY <1>7
  <2>3. QED
    BY <2>2 DEF Request
<1>9. PICK from \in Days, to \in Days, resumes \in BOOLEAN :
        from = Min(tail) /\ to = Max(tail) /\ resumes = FALSE
  BY <1>6
<1>10. /\ pc["command"] = "idle" /\ pc' = [pc EXCEPT !["command"] = "work"] /\ UNCHANGED <<now, open>>
       /\ command' = [symbols |-> symbols, from |-> from, to |-> to, resumes |-> resumes,
                      began |-> now, failed |-> FALSE, ended |-> FALSE]
  BY <1>7, <1>9
<1>11. \A s \in symbols, d \in from .. to :
         \E req \in todo'["command"] : req.symbol = s /\ d \in req.from .. req.to
  BY <1>8, <1>9
<1>12. QED
  BY <1>1, <1>10, <1>11, CommandBegins

LEMMA BackfillBegins ==
  ASSUME FillInv, [Next]_vars, NEW symbols \in Batches, NEW from \in Days, NEW resumes \in BOOLEAN,
         Backfill(symbols, from, Day(now), resumes)
  PROVE  Pending'
<1>1. PICK to \in Days : to = Day(now)
  BY Today
<1>2. symbols \in SUBSET Symbols
  BY FillConstants
<1>3. /\ pc["command"] = "idle" /\ pc' = [pc EXCEPT !["command"] = "work"] /\ UNCHANGED <<now, open>>
      /\ command' = [symbols |-> symbols, from |-> from, to |-> to, resumes |-> resumes,
                     began |-> now, failed |-> FALSE, ended |-> FALSE]
      /\ todo'["command"] = {Request(s, w[1], w[2]) : s \in symbols, w \in ChunkWindows(from, to)}
  BY <1>1, AtWork DEF Backfill
<1>4. \A s \in symbols, d \in from .. to :
        \E req \in todo'["command"] : req.symbol = s /\ d \in req.from .. req.to
  <2>1. SUFFICES ASSUME NEW s \in symbols, NEW d \in from .. to
                 PROVE  \E req \in todo'["command"] : req.symbol = s /\ d \in req.from .. req.to
    OBVIOUS
  <2>2. PICK w \in ChunkWindows(from, to) : d \in w[1] .. w[2]
    BY ChunksCover
  <2>3. Request(s, w[1], w[2]) \in todo'["command"]
    BY <1>3
  <2>4. QED
    BY <2>2, <2>3 DEF Request
<1>5. QED
  BY <1>2, <1>3, <1>4, CommandBegins

(* What is stored or excused stays so, ...                                  *)
LEMMA HeardStays ==
  ASSUME FillInv, [Next]_vars, NEW s \in Symbols, NEW d \in Days,
         stored[s][d] # "none" \/ Excused(s, d)
  PROVE  stored'[s][d] # "none" \/ Excused(s, d)'
<1>1. CASE stored[s][d] # "none"
  BY <1>1, BarsStay
<1>2. CASE Excused(s, d)
  <2>1. ledger \subseteq ledger'
    BY LedgerMoves
  <2>2. Day(now) <= Day(now')
    <3>1. CASE UNCHANGED now
      BY <3>1, Today
    <3>2. CASE Clock
      <4>1. PICK t \in Nat : t = now /\ now' = t + 1
        BY <3>2, Today DEF Clock
      <4>2. PICK a \in Nat : a = Day(t) /\ a * Hours <= t
        BY DayBounds
      <4>3. PICK b \in Nat : b = Day(t + 1) /\ t + 1 < (b + 1) * Hours
        BY DayBounds
      <4>4. ~ (b < a)
        <5>1. SUFFICES ASSUME b + 1 <= a PROVE FALSE
          BY <4>2, <4>3
        <5>2. (b + 1) * Hours <= a * Hours
          BY <5>1, <4>2, <4>3, FillConstants
        <5>3. (b + 1) * Hours \in Nat /\ a * Hours \in Nat
          BY FillConstants
        <5>4. QED
          BY <4>2, <4>3, <5>2, <5>3
      <4>5. QED
        BY <4>1, <4>2, <4>3, <4>4
    <3>3. QED
      BY <3>1, <3>2, TimeMoves
  <2>3. Day(now) \in Nat /\ Day(now') \in Nat /\ d \in Nat
    BY Today, TimeMoves, DayBounds, FillConstants DEF Days, Clock
  <2>4. QED
    BY <1>2, <2>1, <2>2, <2>3 DEF Excused
<1>3. QED
  BY <1>1, <1>2

(* ... what is skipped is one or the other, ...                             *)
LEMMA SkippedIsHeard ==
  ASSUME FillInv, Books, NEW req \in Requests, Covered(req), NEW d \in req.from .. req.to,
         NEW t \in Nat, Had(req.symbol, d, t)
  PROVE  stored[req.symbol][d] # "none" \/ Excused(req.symbol, d)
<1>1. d \in Days /\ req.symbol \in Symbols /\ req.from \in Days /\ req.to \in Days
  BY Asked
<1>2. d \in TradingDays /\ <<req.symbol, d>> \notin gaps
  BY DEF Had, Bar
<1>3. CASE Clean(req)
  BY <1>2, <1>3 DEF Clean
<1>4. CASE req.to < Day(now) /\ \E row \in ledger : /\ row.symbol = req.symbol
                                                   /\ row.from <= req.from /\ row.to >= req.to
  <2>1. PICK row \in ledger : /\ row.symbol = req.symbol
                              /\ row.from <= req.from /\ row.to >= req.to
    BY <1>4
  <2>2. row.from \in Nat /\ row.to \in Nat /\ row.started \in Nat
    BY FillConstants DEF FillInv, TypeOK, Rows, Times, Days
  <2>3. req.from \in Nat /\ req.to \in Nat /\ d \in Nat /\ Day(now) \in Nat
    BY <1>1, Today, FillConstants DEF Days
  <2>4. d \in row.from .. row.to /\ row.from <= d /\ d <= row.to /\ d < Day(now)
    BY <1>4, <2>1, <2>2, <2>3
  <2>5. CASE Had(row.symbol, d, row.started)
    BY <2>1, <2>4, <2>5 DEF Books, RowsKept
  <2>6. CASE ~Had(row.symbol, d, row.started)
    <3>1. row.started < d * Hours + OpenAt
      BY <1>2, <2>1, <2>6 DEF Had, Bar
    <3>2. QED
      BY <2>1, <2>4, <3>1 DEF Excused
  <2>7. QED
    BY <2>5, <2>6
<1>5. QED
  BY <1>3, <1>4 DEF Covered

(* ... and so is what is finished, if it did not fail.                      *)
LEMMA FinishedIsHeard ==
  ASSUME FillInv, Books, NEW p \in Processes, open[p] # NoChunk, open[p].stage \in {"ok", "empty"},
         NEW d \in open[p].req.from .. open[p].req.to,
         NEW t \in Nat, t <= open[p].started, Had(open[p].req.symbol, d, t)
  PROVE  stored[open[p].req.symbol][d] # "none"
<1>1. Brought(open[p]) /\ WholeChunk(open[p])
  BY DEF Books, ChunksBring, FillInv, Processing
<1>2. d \in Days /\ open[p].started \in Nat
  BY <1>1, Asked DEF WholeChunk, Times
<1>3. Had(open[p].req.symbol, d, open[p].started)
  BY <1>2, BarsGrow
<1>4. QED
  BY <1>1, <1>3 DEF Brought

LEMMA CommandWellStep ==
  ASSUME FillInv, Clocks, Pending, [Next]_vars,
         \/ /\ todo'["command"] = todo["command"] /\ pc'["command"] = pc["command"]
            /\ command' = command \/ command' = [command EXCEPT !.failed = TRUE]
         \/ /\ pc["command"] = "work" /\ pc'["command"] = "work" /\ UNCHANGED command
         \/ /\ pc["command"] = "work" /\ pc'["command"] = "idle" /\ todo'["command"] = {}
            /\ command' = command \/ command' = [command EXCEPT !.ended = TRUE]
  PROVE  CommandWell'
<1>1. /\ command \in Commands /\ command.began <= now
      /\ command.ended => pc["command"] = "idle" /\ todo["command"] = {}
      /\ open["command"] # NoChunk => /\ command.began <= open["command"].started
                                      /\ open["command"].stage = "failed" => command.failed
  BY DEF Pending, CommandWell
<1>2. command.began \in Nat /\ command.began <= now'
  <2>1. now \in Nat /\ now' \in Nat /\ now <= now' /\ command.began \in Nat
    BY <1>1, Today, TimeMoves DEF Clock, Commands
  <2>2. QED
    BY <1>1, <2>1
<1>3. /\ command' \in Commands /\ command'.began = command.began
      /\ command.failed => command'.failed
      /\ command'.ended = command.ended \/ (pc'["command"] = "idle" /\ todo'["command"] = {})
  BY <1>1 DEF Commands
<1>4. command'.ended => pc'["command"] = "idle" /\ todo'["command"] = {}
  BY <1>1, <1>3
<1>5. ASSUME open'["command"] # NoChunk
      PROVE  /\ command.began <= open'["command"].started
             /\ open'["command"].stage = "failed" => command'.failed
  <2>0. now \in Nat /\ command.began <= now
    BY <1>1, Today
  <2>1. CASE ChunkUntouched("command")
    BY <1>1, <1>3, <1>5, <2>1 DEF ChunkUntouched
  <2>2. CASE \E req \in todo["command"] : Ask("command", req)
    <3>1. PICK req \in todo["command"] : Ask("command", req)
      BY <2>2
    <3>2. open'["command"].started = now
      BY <3>1, AskDoes, AtWork
    <3>3. open'["command"].stage = "failed" => command' = [command EXCEPT !.failed = TRUE]
      BY <3>1, AskDoes, AtWork DEF Failed
    <3>4. QED
      BY <1>1, <2>0, <3>2, <3>3 DEF Commands
  <2>3. CASE Store("command")
    <3>1. open'["command"].started = open["command"].started /\ open["command"] # NoChunk
      BY <2>3, StoreDoes, AtWork
    <3>2. open'["command"].stage = "failed" => command' = [command EXCEPT !.failed = TRUE]
      BY <2>3, StoreDoes, AtWork DEF Failed
    <3>3. QED
      BY <1>1, <3>1, <3>2 DEF Commands
  <2>4. QED
    BY <1>5, <2>1, <2>2, <2>3, ChunkMoves, AtWork
<1>6. QED
  BY <1>2, <1>3, <1>4, <1>5 DEF CommandWell

(* A request leaves the command's list only when it is heard, or failed.    *)
LEMMA PursuitGoesOn ==
  ASSUME FillInv, Pending, [Next]_vars, pc["command"] = "work" \/ command.ended,
         command' \in Commands, command'.failed \/ command'.failed = command.failed,
         command'.symbols = command.symbols, command'.began = command.began,
         command'.from = command.from, command'.to = command.to,
         ~command'.failed =>
           \A req \in todo["command"] \ todo'["command"] : \A d \in req.from .. req.to :
             Had(req.symbol, d, command.began) =>
               stored[req.symbol][d] # "none" \/ Excused(req.symbol, d)
  PROVE  Pursued'
<1>1. SUFFICES ASSUME ~command'.failed,
                      NEW s \in command.symbols, NEW d \in command.from .. command.to,
                      Had(s, d, command.began)'
               PROVE  stored'[s][d] # "none" \/ Excused(s, d)' \/ Awaited(s, d)'
  BY DEF Pursued
<1>2. s \in Symbols /\ d \in Days /\ Had(s, d, command.began)
  <2>1. command \in Commands
    BY DEF Pending, CommandWell
  <2>2. s \in Symbols /\ d \in Days
    BY <2>1, FillConstants DEF Commands, Days
  <2>3. QED
    BY <1>1, <2>2, TimeMoves DEF Had, Bar
<1>3. CASE stored[s][d] # "none" \/ Excused(s, d)
  BY <1>2, <1>3, HeardStays
<1>4. CASE Awaited(s, d)
  <2>1. PICK req \in todo["command"] : req.symbol = s /\ d \in req.from .. req.to
    BY <1>4 DEF Awaited
  <2>2. CASE req \in todo'["command"]
    BY <2>1, <2>2 DEF Awaited
  <2>3. CASE req \notin todo'["command"]
    <3>1. stored[s][d] # "none" \/ Excused(s, d)
      BY <1>1, <1>2, <2>1, <2>3
    <3>2. QED
      BY <1>2, <3>1, HeardStays
  <2>4. QED
    BY <2>2, <2>3
<1>5. QED
  BY <1>1, <1>2, <1>3, <1>4 DEF Pending, Pursued

LEMMA LeavingStep ==
  ASSUME FillInv, Clocks, Pending, [Next]_vars, NEW req \in todo["command"],
         pc["command"] = "work", Leave("command", req),
         ~command.failed => \A d \in req.from .. req.to :
           Had(req.symbol, d, command.began) =>
             stored[req.symbol][d] # "none" \/ Excused(req.symbol, d)
  PROVE  Pending'
<1>1. /\ todo'["command"] = todo["command"] \ {req}
      /\ \/ /\ pc'["command"] = "idle" /\ todo'["command"] = {}
            /\ command' = [command EXCEPT !.ended = TRUE]
         \/ UNCHANGED <<pc, command>>
  BY LeaveDoes, AtWork
<1>2. CommandWell'
  BY <1>1, CommandWellStep
<1>3. command \in Commands
  BY DEF Pending, CommandWell
<1>4. /\ command' \in Commands /\ command'.failed = command.failed
      /\ command'.symbols = command.symbols /\ command'.began = command.began
      /\ command'.from = command.from /\ command'.to = command.to
  BY <1>1, <1>3 DEF Commands
<1>5. \A other \in todo["command"] \ todo'["command"] : other = req
  BY <1>1
<1>6. Pursued'
  BY <1>4, <1>5, PursuitGoesOn
<1>7. QED
  BY <1>2, <1>6 DEF Pending

LEMMA PendingStep == FillInv /\ Clocks /\ Books /\ Pending /\ [Next]_vars => Pending'
<1> SUFFICES ASSUME FillInv, Clocks, Books, Pending, [Next]_vars PROVE Pending'
  OBVIOUS
<1>0. command \in Commands /\ command.began \in Nat
  BY DEF Pending, CommandWell, Commands
<1>1. CASE /\ todo'["command"] = todo["command"] /\ pc'["command"] = pc["command"]
           /\ command' = command \/ command' = [command EXCEPT !.failed = TRUE]
  <2>1. CommandWell'
    BY <1>1, CommandWellStep
  <2>2. /\ command' \in Commands
        /\ command'.failed \/ command'.failed = command.failed
        /\ command'.symbols = command.symbols /\ command'.began = command.began
        /\ command'.from = command.from /\ command'.to = command.to /\ command'.ended = command.ended
    BY <1>0, <1>1 DEF Commands
  <2>3. CASE pc["command"] = "work" \/ command.ended
    <3>1. ~command'.failed =>
            \A req \in todo["command"] \ todo'["command"] : \A d \in req.from .. req.to :
              Had(req.symbol, d, command.began) =>
                stored[req.symbol][d] # "none" \/ Excused(req.symbol, d)
      BY <1>1
    <3>2. Pursued'
      BY <2>2, <2>3, <3>1, PursuitGoesOn
    <3>3. QED
      BY <2>1, <3>2 DEF Pending
  <2>4. CASE ~ (pc["command"] = "work" \/ command.ended)
    BY <1>1, <2>1, <2>2, <2>4 DEF Pending, Pursued
  <2>5. QED
    BY <2>3, <2>4
<1>2. CASE pc["command"] = "idle" /\ command' = NoCommand /\ UNCHANGED <<pc, todo>>
  <2>1. open'["command"] = NoChunk
    <3>1. ChunkUntouched("command") \/ open'["command"] = NoChunk
      BY <1>2, ChunkMoves, AtWork, AskDoes, StoreDoes
    <3>2. QED
      BY <1>2, <3>1, ChunkUnstarted DEF ChunkUntouched
  <2>2. NoCommand \in Commands /\ 0 \in Days /\ now' \in Nat
    <3>1. 0 \in Days
      BY FillConstants DEF Days
    <3>2. QED
      BY <3>1, Today, TimeMoves DEF NoCommand, Commands, Clock
  <2>3. QED
    BY <1>2, <2>1, <2>2 DEF Pending, CommandWell, Pursued, NoCommand
<1>3. ASSUME NEW req \in todo["command"], Skip(req) PROVE Pending'
  <2>1. pc["command"] = "work" /\ Leave("command", req) /\ Covered(req) /\ req \in Requests
    BY <1>3, AtWork DEF Skip
  <2>2. QED
    BY <1>0, <2>1, SkippedIsHeard, LeavingStep
<1>4. CASE Finish("command")
  <2>1. /\ pc["command"] = "work" /\ open["command"] # NoChunk
        /\ open["command"].req \in todo["command"] /\ open["command"].req \in Requests
        /\ Leave("command", open["command"].req)
        /\ open["command"].stage \in {"ok", "empty", "failed"}
    BY <1>4, FinishDoes, AtWork
  <2>2. /\ command.began <= open["command"].started
        /\ open["command"].stage = "failed" => command.failed
    BY <2>1 DEF Pending, CommandWell
  <2>3. ~command.failed => \A d \in open["command"].req.from .. open["command"].req.to :
          Had(open["command"].req.symbol, d, command.began) =>
            stored[open["command"].req.symbol][d] # "none"
    BY <1>0, <2>1, <2>2, FinishedIsHeard, AtWork
  <2>4. QED
    BY <2>1, <2>3, LeavingStep
<1>5. CASE Down("command")
  <2>1. /\ pc'["command"] = "idle" /\ todo'["command"] = {} /\ UNCHANGED command
        /\ pc["command"] = "work"
    BY <1>5, AtWork DEF Down, FillInv, TypeOK
  <2>2. CommandWell'
    BY <2>1, CommandWellStep
  <2>3. ~command.ended
    BY <2>1 DEF Pending, CommandWell
  <2>4. QED
    BY <2>1, <2>2, <2>3 DEF Pending, Pursued
<1>6. CASE \E symbols \in Batches :
             \/ SyncCandles(symbols)
             \/ \E from \in Days, resumes \in BOOLEAN : Backfill(symbols, from, Day(now), resumes)
  BY <1>6, SyncBegins, BackfillBegins
<1>7. QED
  BY <1>1, <1>2, <1>3, <1>4, <1>5, <1>6, CommandMoves

-----------------------------------------------------------------------------
(* The quota: as long as the ledger does not say the evening's pass ran,    *)
(* every request of the evening but the one in flight failed, died or was   *)
(* cut.                                                                     *)

Good(c) == c # NoChunk /\ c.stage # "failed"

Counts == spent \in Nat /\ faults \in Nat

InFlight == MidPass /\ Good(open["server"]) /\ open["server"].started >= Due(Day(now))

SpentFresh ==
  Evening /\ ~AlreadySynced(Due(Day(now))) =>
    spent <= faults + (IF InFlight \/ (pc["server"] = "sleep" /\ now < wake) THEN 1 ELSE 0)

Left ==
  IF ~MidPass THEN 0
  ELSE Cardinality(todo["server"]) - (IF open["server"] = NoChunk THEN 0 ELSE 1)

QuotaLeft == spent + Left <= Universe + faults

Quota == Counts /\ SpentFresh /\ QuotaLeft

LEMMA QuotaStart == Init => Quota
<1> SUFFICES ASSUME Init PROVE Quota
  OBVIOUS
<1>1. spent = 0 /\ faults = 0 /\ ~MidPass /\ Universe \in Nat
  BY FillAssumption DEF Init, MidPass, Processes
<1>2. QED
  BY <1>1 DEF Quota, Counts, SpentFresh, QuotaLeft, Left

(* What the command does leaves the server alone.                           *)
ServerUntouched ==
  /\ UNCHANGED <<fillAt, gaps, now, wake, spent>>
  /\ pc'["server"] = pc["server"] /\ todo'["server"] = todo["server"] /\ ChunkUntouched("server")
  /\ faults' = faults \/ faults' = faults + 1
  /\ disturbed \subseteq disturbed' /\ ledger \subseteq ledger'

LEMMA ServerMoves ==
  ASSUME FillInv, [Next]_vars
  PROVE  \/ ServerUntouched
         \/ Boot \/ Wake \/ Tick \/ TickFails \/ RunTimeout \/ Clock
         \/ \E req \in todo["server"] : Ask("server", req)
         \/ Store("server") \/ Finish("server") \/ Down("server")
<1> USE AtWork DEF ServerUntouched, ChunkUntouched
<1>0. "server" \in Processes \ {"command"}
  OBVIOUS
<1>1. CASE UNCHANGED vars \/ Horizon
  BY <1>1 DEF vars, Horizon
<1>2. ASSUME NEW req \in todo["command"], Skip(req) PROVE ServerUntouched
  <2>1. /\ pc["command"] = "work" /\ Leave("command", req)
        /\ UNCHANGED <<fillAt, gaps, now, ledger, open, spent, faults, disturbed>>
    BY <1>2 DEF Skip, ledgerVars, history
  <2>2. QED
    BY <2>1, LeaveDoes
<1>3. ASSUME NEW req \in todo["command"], Ask("command", req) PROVE ServerUntouched
  <2>1. spent' = spent
    BY <1>3 DEF Ask
  <2>2. ChunkUntouched("server")
    BY <1>0, <1>3, AskDoes
  <2>3. /\ faults' = faults \/ faults' = faults + 1
        /\ disturbed \subseteq disturbed'
    BY <1>3, AskDoes DEF Fault, Failed, Interferes, Disturb
  <2>4. QED
    BY <1>3, <2>1, <2>2, <2>3, AskDoes
<1>4. CASE Store("command")
  <2>1. ChunkUntouched("server")
    BY <1>0, <1>4, StoreDoes
  <2>2. /\ faults' = faults \/ faults' = faults + 1
        /\ disturbed \subseteq disturbed'
    BY <1>4, StoreDoes DEF Fault, Failed, Interferes, Disturb
  <2>3. QED
    BY <1>4, <2>1, <2>2, StoreDoes
<1>5. CASE Finish("command")
  <2>1. ChunkUntouched("server")
    BY <1>0, <1>5, FinishDoes
  <2>2. /\ faults' = faults \/ faults' = faults + 1
        /\ disturbed' = disturbed /\ ledger \subseteq ledger'
    BY <1>5, FinishDoes DEF Fault
  <2>3. UNCHANGED wake /\ pc'["server"] = pc["server"] /\ todo'["server"] = todo["server"]
    BY <1>5, FinishDoes, LeaveDoes
  <2>4. QED
    BY <1>5, <2>1, <2>2, <2>3, FinishDoes
<1>6. CASE Down("command")
  BY <1>6 DEF Down, Fault, ledgerVars
<1>7. CASE \E symbols \in Batches :
             \/ SyncCandles(symbols)
             \/ \E from \in Days, resumes \in BOOLEAN : Backfill(symbols, from, Day(now), resumes)
  BY <1>7 DEF SyncCandles, Backfill, ledgerVars
<1>8. QED
  BY <1>1, <1>2, <1>3, <1>4, <1>5, <1>6, <1>7 DEF Next

LEMMA RefreshSize ==
  ASSUME NEW day
  PROVE  IsFiniteSet(Refresh(Symbols, day)) /\ Cardinality(Refresh(Symbols, day)) <= Universe
<1>0. Universe \in Nat
  BY FillAssumption
<1>1. IsFiniteSet(Symbols) /\ Cardinality(Symbols) = Universe
  BY <1>0, FS_Interval DEF Symbols
<1>2. CASE TailOf(day) = {}
  BY <1>0, <1>2, FS_EmptySet DEF Refresh
<1>3. CASE TailOf(day) # {}
  <2> DEFINE f == [s \in Symbols |-> Request(s, Min(TailOf(day)), Max(TailOf(day)))]
  <2>1. f \in Surjection(Symbols, Refresh(Symbols, day))
    <3>1. Refresh(Symbols, day) = {f[s] : s \in Symbols}
      BY <1>3 DEF Refresh
    <3> HIDE DEF f
    <3>2. DOMAIN f = Symbols /\ f = [s \in Symbols |-> f[s]]
      BY DEF f
    <3>3. QED
      BY <3>1, <3>2 DEF Surjection
  <2>2. QED
    BY <1>1, <2>1, FS_Surjection
<1>4. QED
  BY <1>2, <1>3

LEMMA PassSize ==
  ASSUME Clocks, MidPass
  PROVE  /\ IsFiniteSet(todo["server"]) /\ Cardinality(todo["server"]) \in Nat
         /\ Cardinality(todo["server"]) <= Universe
<1>1. todo["server"] \subseteq Refresh(Symbols, Day(Began))
  BY DEF Clocks, PassWindow
<1>2. PICK all : all = Refresh(Symbols, Day(Began))
  OBVIOUS
<1>3. PICK rest : rest = todo["server"]
  OBVIOUS
<1>4. IsFiniteSet(all) /\ Cardinality(all) <= Universe
  <2>1. PICK day : day = Day(Began)
    OBVIOUS
  <2>2. QED
    BY <1>2, <2>1, RefreshSize
<1>5. IsFiniteSet(rest) /\ Cardinality(rest) <= Cardinality(all)
  BY <1>1, <1>2, <1>3, <1>4, FS_Subset
<1>6. Cardinality(rest) \in Nat /\ Cardinality(all) \in Nat /\ Universe \in Nat
  BY <1>4, <1>5, FS_CardinalityType, FillAssumption
<1>7. QED
  BY <1>3, <1>4, <1>5, <1>6

LEMMA LeftOver == FillInv /\ Clocks => Left \in Nat /\ Left <= Universe
<1> SUFFICES ASSUME FillInv, Clocks PROVE Left \in Nat /\ Left <= Universe
  OBVIOUS
<1>1. Universe \in Nat
  BY FillAssumption
<1>2. CASE ~MidPass
  BY <1>1, <1>2 DEF Left
<1>3. CASE MidPass
  <2>1. open["server"] # NoChunk => Cardinality(todo["server"]) >= 1
    <3>1. SUFFICES ASSUME open["server"] # NoChunk PROVE todo["server"] # {}
      BY <1>3, PassSize, FS_EmptySet
    <3>2. QED
      BY <3>1, AtWork DEF FillInv, TypeOK
  <2>2. QED
    BY <1>1, <1>3, <2>1, PassSize DEF Left
<1>4. QED
  BY <1>2, <1>3

(* A scheduler whose timer is up is at a trigger.                           *)
LEMMA TimerIsTrigger ==
  ASSUME FillInv, Clocks, NEW t \in Nat, t < (LastDay + 1) * Hours, pc["server"] = "sleep", t = wake
  PROVE  Day(t) \in TradingDays /\ t = Due(Day(t))
<1>1. PICK day \in TradingDays \cup {LastDay + 1} : wake = Due(day)
  BY DEF Clocks, SleepWindow
<1>2. day \in Nat
  BY FillConstants DEF Days
<1>3. /\ Due(day) \in Nat /\ day * Hours < Due(day) /\ Due(day) < (day + 1) * Hours
      /\ day * Hours \in Nat /\ (day + 1) * Hours \in Nat
  BY <1>2, DueFacts, FillConstants
<1>4. Day(t) = day
  BY <1>1, <1>2, <1>3, DayOf
<1>5. day # LastDay + 1
  BY <1>1, <1>3
<1>6. QED
  BY <1>1, <1>4, <1>5

Slack == IF InFlight \/ (pc["server"] = "sleep" /\ now < wake) THEN 1 ELSE 0

LEMMA SameEvening ==
  ASSUME UNCHANGED <<fillAt, now>>
  PROVE  Evening' = Evening /\ Day(now)' = Day(now) /\ Due(Day(now))' = Due(Day(now))
  BY DEF Evening, Due, Day

LEMMA LedgerGrows == ASSUME [Next]_vars PROVE ledger \subseteq ledger'
  BY LedgerMoves

(* Within an hour the bill is only to be compared.                          *)
LEMMA BillWithinTheHour ==
  ASSUME FillInv, Quota, [Next]_vars, UNCHANGED <<fillAt, now>>, Counts',
         ~AlreadySynced(Due(Day(now)))' /\ Evening /\ spent <= faults + Slack
           => spent' <= faults' + Slack'
  PROVE  SpentFresh'
<1>1. SUFFICES ASSUME Evening', ~AlreadySynced(Due(Day(now)))'
               PROVE  spent' <= faults' + Slack'
  BY DEF SpentFresh, Slack
<1>2. Evening
  BY <1>1, SameEvening
<1>3. ~AlreadySynced(Due(Day(now)))
  BY <1>1, SameEvening, LedgerGrows DEF AlreadySynced
<1>4. QED
  BY <1>1, <1>2, <1>3 DEF Quota, SpentFresh, Slack

LEMMA CountsStep == ASSUME FillInv, Quota, [Next]_vars PROVE Counts'
<1>1. spent \in Nat /\ faults \in Nat
  BY DEF Quota, Counts
<1>2. spent' \in {0, spent, spent + 1} /\ faults' \in {faults, faults + 1}
  <2>1. CASE ServerUntouched
    BY <2>1 DEF ServerUntouched
  <2>2. CASE Boot \/ Wake \/ Tick \/ TickFails \/ RunTimeout \/ Down("server") \/ Clock
    BY <2>2 DEF Boot, Wake, Tick, TickFails, RunTimeout, Down, Clock, history, Fault
  <2>3. ASSUME NEW req \in todo["server"], Ask("server", req)
        PROVE  spent' \in {0, spent, spent + 1} /\ faults' \in {faults, faults + 1}
    <3>1. spent' = spent + 1
      BY <2>3 DEF Ask
    <3>2. QED
      BY <2>3, <3>1, AskDoes, AtWork DEF Fault
  <2>4. CASE Store("server")
    BY <2>4, StoreDoes, AtWork DEF Fault
  <2>5. CASE Finish("server")
    BY <2>5, FinishDoes, AtWork DEF Fault
  <2>6. QED
    BY <2>1, <2>2, <2>3, <2>4, <2>5, ServerMoves
<1>3. QED
  BY <1>1, <1>2 DEF Counts

LEMMA SpentFreshStep ==
  ASSUME FillInv, Clocks, Quota, [Next]_vars PROVE SpentFresh'
<1> USE AtWork
<1>0. Counts /\ Counts' /\ spent \in Nat /\ faults \in Nat /\ spent' \in Nat /\ faults' \in Nat
  BY CountsStep DEF Quota, Counts
<1>a. now \in Nat /\ Slack \in 0 .. 1 /\ Slack' \in 0 .. 1
  BY Today DEF Slack
<1>b. ~MidPass => ~InFlight
  BY DEF InFlight
<1>1. CASE ServerUntouched
  <2>1. UNCHANGED <<fillAt, now>> /\ Slack' = Slack
    BY <1>1, SameEvening DEF ServerUntouched, ChunkUntouched, Slack, InFlight, MidPass
  <2>2. spent' = spent /\ faults <= faults'
    BY <1>0, <1>1 DEF ServerUntouched
  <2>3. QED
    BY <1>0, <1>a, <2>1, <2>2, BillWithinTheHour
<1>2. CASE Boot \/ Wake
  <2>1. UNCHANGED <<fillAt, now, spent, faults>>
    BY <1>2 DEF Boot, Wake, history
  <2>2. Slack = 0
    <3>1. ~MidPass
      BY <1>2 DEF Boot, Wake, MidPass
    <3>2. pc["server"] = "sleep" => now >= wake
      BY <1>2 DEF Boot, Wake
    <3>3. pc["server"] = "sleep" => wake \in Nat
      BY DEF Clocks, SleepWindow
    <3>4. QED
      BY <1>a, <1>b, <3>1, <3>2, <3>3 DEF Slack
  <2>3. QED
    BY <1>0, <1>a, <2>1, <2>2, BillWithinTheHour
<1>3. CASE TickFails \/ RunTimeout \/ (Tick /\ pc'["server"] = "sleep")
  <2>1. UNCHANGED <<fillAt, now, spent>>
    BY <1>3 DEF TickFails, RunTimeout, Tick, history
  <2>2. pc'["server"] = "sleep" /\ wake' = NextRun(now)
    BY <1>3 DEF TickFails, RunTimeout, Tick, Settle
  <2>3. Slack' = 1
    BY <2>1, <2>2, NextRunFacts DEF Slack
  <2>4. faults <= faults'
    BY <1>0, <1>3 DEF TickFails, RunTimeout, Tick, history, Fault
  <2>5. QED
    BY <1>0, <1>a, <2>1, <2>3, <2>4, BillWithinTheHour
<1>4. CASE Tick /\ pc'["server"] # "sleep"
  <2>1. UNCHANGED <<fillAt, now, spent, faults>> /\ pc["server"] = "tick"
    BY <1>4 DEF Tick, history
  <2>2. Slack = 0
    BY <1>b, <2>1 DEF Slack, MidPass
  <2>3. QED
    BY <1>0, <1>a, <2>1, <2>2, BillWithinTheHour
<1>5. CASE Clock
  <2>1. now' = now + 1 /\ UNCHANGED <<fillAt, ledger, pc, open, wake, faults>>
    BY <1>5 DEF Clock, ledgerVars
  <2>2. CASE Day(now') \in TradingDays /\ now' = Due(Day(now'))
    <3>1. spent' = 0
      BY <1>5, <2>2 DEF Clock
    <3>2. QED
      BY <1>0, <1>a, <3>1 DEF SpentFresh, Slack
  <2>3. CASE ~(Day(now') \in TradingDays /\ now' = Due(Day(now')))
    <3>1. UNCHANGED spent
      BY <1>5, <2>3 DEF Clock
    <3>2. SUFFICES ASSUME Evening', ~AlreadySynced(Due(Day(now)))'
                   PROVE  spent' <= faults' + Slack'
      BY DEF SpentFresh, Slack
    <3>3. Evening /\ Day(now') = Day(now)
      BY <1>5, <2>3, <3>2, EveningTurns
    <3>4. PICK due : due = Due(Day(now)) /\ due = Due(Day(now))'
      BY <2>1, <3>3 DEF Due
    <3>5. ~AlreadySynced(due)
      BY <2>1, <3>2, <3>4 DEF AlreadySynced
    <3>6. spent <= faults + Slack
      BY <3>3, <3>4, <3>5 DEF Quota, SpentFresh, Slack
    <3>7. InFlight' = InFlight
      BY <2>1, <3>4 DEF InFlight, MidPass
    <3>8. pc["server"] = "sleep" => now' < wake
      <4>1. SUFFICES ASSUME pc["server"] = "sleep" PROVE now' < wake
        OBVIOUS
      <4>2. wake \in Nat /\ now < wake
        BY <1>5, <4>1 DEF Clocks, SleepWindow, Clock
      <4>3. now' \in Nat /\ now' < (LastDay + 1) * Hours
        <5>1. FillInv'
          BY FillSteps
        <5>2. QED
          BY <1>a, <2>1, <5>1 DEF FillInv
      <4>4. PICK t \in Nat : t = now'
        BY <4>3
      <4>5. t # wake
        <5>1. SUFFICES ASSUME t = wake PROVE FALSE
          OBVIOUS
        <5>2. Day(t) \in TradingDays /\ t = Due(Day(t))
          BY <4>1, <4>3, <4>4, <5>1, TimerIsTrigger
        <5>3. Day(now') \in TradingDays /\ now' = Due(Day(now'))
          BY <4>4, <5>2
        <5>4. QED
          BY <2>3, <5>3
      <4>6. QED
        BY <1>a, <2>1, <4>2, <4>4, <4>5
    <3>9. Slack <= Slack'
      BY <1>a, <2>1, <3>7, <3>8 DEF Slack
    <3>10. QED
      BY <1>0, <1>a, <2>1, <3>1, <3>6, <3>9
  <2>4. QED
    BY <2>2, <2>3
<1>6. ASSUME NEW req \in todo["server"], Ask("server", req) PROVE SpentFresh'
  <2>1. UNCHANGED <<fillAt, now, pc>> /\ open["server"] = NoChunk /\ spent' = spent + 1
        /\ pc["server"] = "work"
    BY <1>6, AskDoes DEF Ask
  <2>2. Slack = 0
    BY <2>1 DEF Slack, InFlight, Good
  <2>3. CASE open'["server"].stage = "failed" /\ Fault
    BY <1>0, <1>a, <2>1, <2>2, <2>3, BillWithinTheHour DEF Fault
  <2>4. CASE ~(open'["server"].stage = "failed" /\ Fault)
    <3>1. /\ open'["server"] # NoChunk /\ open'["server"].started = now /\ UNCHANGED faults
          /\ open'["server"].stage # "failed"
      BY <1>6, <2>4, AskDoes
    <3>2. Evening => Slack' = 1
      <4>1. Evening => now >= Due(Day(now))'
        BY <2>1, SameEvening DEF Evening
      <4>2. QED
        BY <2>1, <3>1, <4>1 DEF Slack, InFlight, Good, MidPass
    <3>3. QED
      BY <1>0, <1>a, <2>1, <2>2, <3>1, <3>2, BillWithinTheHour
  <2>5. QED
    BY <2>3, <2>4
<1>7. CASE Store("server")
  <2>1. /\ UNCHANGED <<fillAt, now, pc, spent, wake>> /\ open'["server"] # NoChunk
        /\ open["server"] # NoChunk
        /\ open'["server"].started = open["server"].started /\ open["server"].stage = "answered"
        /\ (open'["server"].stage = "failed" /\ Fault) \/ (open'["server"].stage = "ok" /\ UNCHANGED faults)
    BY <1>7, StoreDoes
  <2>2. CASE open'["server"].stage = "failed" /\ Fault
    BY <1>0, <1>a, <2>1, <2>2, BillWithinTheHour DEF Fault
  <2>3. CASE open'["server"].stage = "ok" /\ UNCHANGED faults
    <3>1. Slack' = Slack
      BY <2>1, <2>3, SameEvening DEF Slack, InFlight, Good, MidPass
    <3>2. QED
      BY <1>0, <1>a, <2>1, <2>3, <3>1, BillWithinTheHour
  <2>4. QED
    BY <2>1, <2>2, <2>3
<1>8. CASE Finish("server")
  <2>1. /\ UNCHANGED <<fillAt, now, spent>> /\ pc["server"] = "work"
        /\ \/ /\ ledger' = IF open["server"].stage = "failed" THEN ledger ELSE ledger \cup {Row("server")}
              /\ UNCHANGED faults
           \/ Fault
    BY <1>8, FinishDoes
  <2>2. CASE Fault
    BY <1>0, <1>a, <2>1, <2>2, BillWithinTheHour DEF Fault
  <2>3. CASE /\ ledger' = IF open["server"].stage = "failed" THEN ledger ELSE ledger \cup {Row("server")}
             /\ UNCHANGED faults
    <3>1. ~AlreadySynced(Due(Day(now)))' => Slack = 0
      <4>1. SUFFICES ASSUME InFlight PROVE AlreadySynced(Due(Day(now)))'
        BY <2>1 DEF Slack
      <4>2. /\ open["server"].stage # "failed" /\ open["server"].started >= Due(Day(now))
            /\ Row("server").started = open["server"].started
        BY <4>1 DEF InFlight, Good, Row
      <4>3. Row("server") \in ledger'
        BY <2>3, <4>2
      <4>4. QED
        BY <2>1, <4>2, <4>3, SameEvening DEF AlreadySynced
    <3>2. QED
      BY <1>0, <1>a, <2>1, <2>3, <3>1, BillWithinTheHour
  <2>4. QED
    BY <2>1, <2>2, <2>3
<1>9. CASE Down("server")
  <2>1. UNCHANGED <<fillAt, now, spent>> /\ Fault
    BY <1>9 DEF Down
  <2>2. QED
    BY <1>0, <1>a, <2>1, BillWithinTheHour DEF Fault
<1>10. QED
  BY <1>1, <1>2, <1>3, <1>4, <1>5, <1>6, <1>7, <1>8, <1>9, ServerMoves

LEMMA QuotaLeftStep ==
  ASSUME FillInv, Clocks, Quota, [Next]_vars PROVE QuotaLeft'
<1> USE AtWork
<1>0. /\ spent \in Nat /\ faults \in Nat /\ spent' \in Nat /\ faults' \in Nat /\ Universe \in Nat
      /\ spent + Left <= Universe + faults
  BY CountsStep, FillAssumption DEF Quota, Counts, QuotaLeft
<1>a. Left \in Nat /\ Left <= Universe /\ Left' \in Nat /\ Left' <= Universe
  <2>1. FillInv' /\ Clocks'
    BY FillSteps, ClocksStep
  <2>2. (FillInv /\ Clocks => Left \in Nat /\ Left <= Universe)'
    BY LeftOver, PTL
  <2>3. QED
    BY <2>1, <2>2, LeftOver
<1>b. ~MidPass => Left = 0
  BY DEF Left
<1>c. ~MidPass' => Left' = 0
  BY DEF Left
<1>1. CASE ServerUntouched
  <2>1. Left' = Left
    BY <1>1 DEF ServerUntouched, ChunkUntouched, Left, MidPass
  <2>2. QED
    BY <1>0, <1>1, <1>a, <2>1 DEF QuotaLeft, ServerUntouched
<1>2. CASE Boot \/ Wake \/ TickFails \/ RunTimeout \/ Down("server") \/ (Tick /\ pc'["server"] = "sleep")
  <2>1. UNCHANGED spent /\ faults <= faults' /\ ~MidPass'
    BY <1>0, <1>2 DEF Boot, Wake, TickFails, RunTimeout, Down, Tick, history, Fault, Settle, MidPass
  <2>2. QED
    BY <1>0, <1>a, <1>c, <2>1 DEF QuotaLeft
<1>3. CASE Tick /\ pc'["server"] # "sleep"
  <2>1. UNCHANGED <<spent, faults>> /\ pc["server"] = "tick"
    BY <1>3 DEF Tick, history
  <2>2. Evening /\ ~AlreadySynced(Due(Day(now)))
    BY <1>3 DEF Tick, Evening
  <2>3. spent <= faults
    BY <1>0, <2>1, <2>2 DEF Quota, SpentFresh, InFlight, MidPass
  <2>4. QED
    BY <1>0, <1>a, <2>1, <2>3 DEF QuotaLeft
<1>4. CASE Clock
  <2>1. UNCHANGED <<pc, todo, open, faults>> /\ spent' \in {0, spent}
    BY <1>4 DEF Clock
  <2>2. Left' = Left
    BY <2>1 DEF Left, MidPass
  <2>3. QED
    BY <1>0, <1>a, <2>1, <2>2 DEF QuotaLeft
<1>5. ASSUME NEW req \in todo["server"], Ask("server", req) PROVE QuotaLeft'
  <2>1. /\ UNCHANGED <<pc, todo>> /\ open["server"] = NoChunk /\ open'["server"] # NoChunk
        /\ pc["server"] = "work" /\ spent' = spent + 1
    BY <1>5, AskDoes DEF Ask
  <2>2. faults <= faults'
    BY <1>0, <1>5, AskDoes DEF Fault
  <2>3. Left' = Left - 1
    BY <2>1, PassSize DEF Left, MidPass
  <2>4. QED
    BY <1>0, <1>a, <2>1, <2>2, <2>3 DEF QuotaLeft
<1>6. CASE Store("server")
  <2>1. UNCHANGED <<pc, todo, spent>> /\ open["server"] # NoChunk /\ open'["server"] # NoChunk
    BY <1>6, StoreDoes
  <2>2. Left' = Left
    BY <2>1 DEF Left, MidPass
  <2>3. faults <= faults'
    BY <1>0, <1>6, StoreDoes DEF Fault
  <2>4. QED
    BY <1>0, <1>a, <2>1, <2>2, <2>3 DEF QuotaLeft
<1>7. CASE Finish("server")
  <2>1. /\ pc["server"] = "work" /\ open["server"] # NoChunk /\ open'["server"] = NoChunk
        /\ UNCHANGED spent /\ open["server"].req \in todo["server"]
        /\ todo'["server"] = todo["server"] \ {open["server"].req}
    BY <1>7, FinishDoes
  <2>2. faults <= faults'
    BY <1>0, <1>7, FinishDoes DEF Fault
  <2>3. PICK rest, gone : rest = todo["server"] /\ gone = open["server"].req
    OBVIOUS
  <2>4. MidPass /\ IsFiniteSet(rest) /\ Cardinality(rest) \in Nat
    BY <2>1, <2>3, PassSize DEF MidPass
  <2>5. Cardinality(rest \ {gone}) = Cardinality(rest) - 1
    <3>1. gone \in rest
      BY <2>1, <2>3
    <3>2. QED
      BY <2>4, <3>1, FS_RemoveElement
  <2>6. Left' <= Left
    <3>1. Left = Cardinality(rest) - 1
      BY <2>1, <2>3, <2>4 DEF Left
    <3>2. MidPass' => Left' = Cardinality(rest) - 1
      BY <2>1, <2>3, <2>4, <2>5 DEF Left
    <3>3. QED
      BY <1>a, <1>c, <2>4, <3>1, <3>2
  <2>7. QED
    BY <1>0, <1>a, <2>1, <2>2, <2>6 DEF QuotaLeft
<1>8. QED
  BY <1>1, <1>2, <1>3, <1>4, <1>5, <1>6, <1>7, ServerMoves

LEMMA QuotaStep == FillInv /\ Clocks /\ Quota /\ [Next]_vars => Quota'
  BY CountsStep, SpentFreshStep, QuotaLeftStep DEF Quota

-----------------------------------------------------------------------------
(* The quiet evening: what its pass has not healed yet it has still to ask  *)
(* for, and until the pass ran the ledger does not say it did.              *)

Settles(s, d) == IF <<s, d>> \in gaps THEN "none" ELSE "final"

Healed(s)  == \A d \in TailOf(Day(now)) : stored[s][d] = Settles(s, d)
AllHealed  == \A s \in Symbols : Healed(s)

QuietEvening == Evening /\ fillAt >= Settled /\ disturbed = {}

PassHeals ==
  /\ Day(Began) = Day(now)
  /\ \A s \in Symbols : Healed(s) \/ \E req \in todo["server"] : req.symbol = s
  /\ open["server"] # NoChunk =>
       /\ open["server"].stage # "failed"
       /\ open["server"].stage \in {"ok", "empty"} => Healed(open["server"].req.symbol)

Quiet ==
  QuietEvening =>
    /\ Good(open["command"]) => open["command"].started < Due(Day(now))
    /\ ~MidPass => AllHealed \/ ~AlreadySynced(Due(Day(now)))
    /\ pc["server"] = "sleep" => AllHealed \/ now = wake
    /\ MidPass => PassHeals

LEMMA QuietStart == Init => Quiet
<1> SUFFICES ASSUME Init PROVE Quiet
  OBVIOUS
<1>1. FillInv /\ now = 0
  BY FillStarts DEF Init
<1>2. ~Evening
  <2>1. Day(0) * Hours <= 0 /\ Day(0) \in Nat
    BY DayBounds
  <2>2. Day(0) * Hours < Due(Day(0)) /\ Day(0) * Hours \in Nat /\ Due(Day(0)) \in Nat
    BY <1>1, <2>1, DueFacts, FillConstants
  <2>3. QED
    BY <1>1, <2>1, <2>2 DEF Evening
<1>3. QED
  BY <1>2 DEF Quiet, QuietEvening

(* On such an evening the bars of the tail no longer move.                  *)
LEMMA SettledBars ==
  ASSUME FillInv, Evening, fillAt >= Settled,
         NEW s, NEW d \in TailOf(Day(now)), NEW t \in Nat, t >= Due(Day(now))
  PROVE  Bar(s, d, t) = Settles(s, d)
<1>1. PICK day \in Nat : day = Day(now) /\ day \in Days
  BY Today
<1>2. d \in TradingDays /\ d \in Nat /\ d <= day
  BY <1>1, FillConstants DEF TailOf, Days
<1>3. /\ fillAt \in Nat /\ Settled \in Nat /\ OpenAt \in Nat /\ OpenAt <= Settled
  BY FillAssumption DEF FillInv, TypeOK
<1>4. d * Hours <= day * Hours /\ d * Hours \in Nat /\ day * Hours \in Nat
  BY <1>2, FillConstants
<1>5. day * Hours + fillAt <= Due(day) /\ Due(day) \in Nat /\ Due(day) <= t
  BY <1>1, DueFacts
<1>6. t >= d * Hours + Settled /\ t >= d * Hours + OpenAt
  BY <1>3, <1>4, <1>5
<1>7. d * Hours + Settled \in Nat /\ d * Hours + OpenAt \in Nat
  BY <1>3, <1>4
<1>8. QED
  BY <1>2, <1>6, <1>7 DEF Bar, Settles

LEMMA TailToday ==
  ASSUME Day(now) \in TradingDays
  PROVE  Day(now) \in TailOf(Day(now))
<1>1. PICK day \in TradingDays : day = Day(now)
  OBVIOUS
<1>2. day \in Nat /\ \A e \in TradingDays : e \in Nat
  BY FillConstants DEF Days
<1>3. {e \in TradingDays : day < e /\ e <= day} = {}
  <2>1. \A e \in TradingDays : ~ (day < e /\ e <= day)
    BY <1>2
  <2>2. QED
    BY <2>1
<1>4. Cardinality({e \in TradingDays : day < e /\ e <= day}) < Tail
  <2>1. Cardinality({}) = 0 /\ Tail \in Nat \ {0}
    BY FS_EmptySet, FillAssumption
  <2>2. QED
    BY <1>3, <2>1
<1>5. QED
  BY <1>1, <1>2, <1>4 DEF TailOf

(* A pass asks for the whole tail of every symbol.                          *)
LEMMA PassCoversTail ==
  ASSUME NEW day, NEW req \in Refresh(Symbols, day)
  PROVE  TailOf(day) \subseteq req.from .. req.to
<1>0. TailOf(day) # {}
  BY DEF Refresh
<1>a. TailOf(day) \subseteq TradingDays
  BY DEF TailOf
<1>b. \A d \in TradingDays : d \in 0 .. LastDay /\ d \in Nat
  BY FillConstants DEF Days
<1>1. TailOf(day) \subseteq 0 .. LastDay /\ TailOf(day) \in SUBSET Nat /\ TailOf(day) # {}
  BY <1>0, <1>a, <1>b
<1>2. \A d \in TailOf(day) : Min(TailOf(day)) <= d /\ d <= Max(TailOf(day))
  BY <1>1, LeastNatural, GreatestBounded, FillConstants
<1>3. Min(TailOf(day)) \in Nat /\ Max(TailOf(day)) \in Nat
  BY <1>1, LeastNatural, GreatestBounded, FillConstants
<1>4. req.from = Min(TailOf(day)) /\ req.to = Max(TailOf(day))
  BY <1>1 DEF Refresh, Request
<1>5. QED
  BY <1>1, <1>2, <1>3, <1>4

(* What a pass was answered and stored, or found that there is none of,     *)
(* heals its symbol.                                                        *)
LEMMA ChunkHeals ==
  /\ FillInv /\ Clocks /\ Books /\ QuietEvening /\ MidPass /\ Day(Began) = Day(now)
  /\ open["server"] # NoChunk /\ open["server"].stage = "empty"
  => Healed(open["server"].req.symbol)
<1> SUFFICES ASSUME FillInv, Clocks, Books, QuietEvening, MidPass, Day(Began) = Day(now),
                    open["server"] # NoChunk, open["server"].stage = "empty"
             PROVE  Healed(open["server"].req.symbol)
  OBVIOUS
<1> DEFINE c == open["server"]
<1>1. Brought(c) /\ c.started \in Nat /\ c.req \in Requests /\ c.req \in todo["server"]
  BY AtWork DEF Books, ChunksBring, FillInv, Processing, TypeOK, WholeChunk, Times
<1>2. c.req \in Refresh(Symbols, Day(now)) /\ Began <= c.started /\ Began \in Nat
      /\ Began >= Due(Day(now))
  BY <1>1 DEF Clocks, PassWindow
<1>3. TailOf(Day(now)) \subseteq c.req.from .. c.req.to
  <2>1. PICK day : day = Day(now)
    OBVIOUS
  <2>2. PICK req \in Refresh(Symbols, day) : req = c.req
    BY <1>2, <2>1
  <2>3. QED
    BY <2>1, <2>2, PassCoversTail
<1>4. c.started >= Due(Day(now))
  BY <1>1, <1>2, Today, DueFacts
<1>5. Evening /\ fillAt >= Settled
  BY DEF QuietEvening
<1>6. SUFFICES ASSUME NEW d \in TailOf(Day(now))
               PROVE  stored[c.req.symbol][d] = Settles(c.req.symbol, d)
  BY DEF Healed
<1>7. ~Had(c.req.symbol, d, c.started)
  BY <1>1, <1>3, <1>6 DEF Brought
<1>8. Bar(c.req.symbol, d, c.started) = Settles(c.req.symbol, d)
  BY <1>1, <1>4, <1>5, <1>6, SettledBars
<1>9. <<c.req.symbol, d>> \in gaps
  BY <1>7, <1>8 DEF Had, Settles
<1>10. d \in Days /\ c.req.symbol \in Symbols
  BY <1>1, Asked, FillConstants DEF TailOf
<1>11. stored[c.req.symbol][d] = "none"
  BY <1>9, <1>10 DEF Books, GapsStay
<1>12. QED
  BY <1>9, <1>11 DEF Settles

LEMMA StoreHeals ==
  ASSUME FillInv, Clocks, Books, QuietEvening, MidPass, Day(Began) = Day(now),
         Store("server"), open'["server"].stage = "ok"
  PROVE  /\ \A s \in Symbols : Healed(s) => Healed(s)'
         /\ \A s : s = open["server"].req.symbol => Healed(s)'
<1> DEFINE c == open["server"]
<1>0. /\ UNCHANGED <<now, gaps, fillAt>> /\ c # NoChunk /\ c.stage = "answered" /\ WholeChunk(c)
      /\ \A s \in Symbols, d \in Days :
           stored'[s][d] = IF s = c.req.symbol /\ d \in DOMAIN c.bars THEN c.bars[d] ELSE stored[s][d]
  BY StoreDoes, AtWork
<1>1. Brought(c) /\ c.started \in Nat /\ c.req \in Requests /\ c.req \in todo["server"]
  BY <1>0, AtWork DEF Books, ChunksBring, FillInv, TypeOK, WholeChunk, Times
<1>2. c.req \in Refresh(Symbols, Day(now)) /\ Began <= c.started /\ Began \in Nat
      /\ Began >= Due(Day(now))
  BY <1>0, <1>1 DEF Clocks, PassWindow
<1>3. TailOf(Day(now)) \subseteq c.req.from .. c.req.to
  <2>1. PICK day : day = Day(now)
    OBVIOUS
  <2>2. PICK req \in Refresh(Symbols, day) : req = c.req
    BY <1>2, <2>1
  <2>3. QED
    BY <2>1, <2>2, PassCoversTail
<1>4. c.started >= Due(Day(now))
  BY <1>1, <1>2, Today, DueFacts
<1>5. Evening /\ fillAt >= Settled
  BY DEF QuietEvening
<1>6. c.req.symbol \in Symbols /\ \A d \in TailOf(Day(now)) : d \in Days
  BY <1>1, Asked, FillConstants DEF TailOf
<1>7. ASSUME NEW d \in TailOf(Day(now))
      PROVE  stored'[c.req.symbol][d] = Settles(c.req.symbol, d)
  <2>1. Bar(c.req.symbol, d, c.started) = Settles(c.req.symbol, d)
    BY <1>1, <1>4, <1>5, SettledBars
  <2>2. CASE d \in DOMAIN c.bars
    <3>1. c.bars[d] = Bar(c.req.symbol, d, c.started)
      BY <1>0, <1>1, <2>2 DEF Brought
    <3>2. QED
      BY <1>0, <1>6, <2>1, <2>2, <3>1
  <2>3. CASE d \notin DOMAIN c.bars
    <3>1. ~Had(c.req.symbol, d, c.started)
      BY <1>0, <1>1, <1>3, <2>3 DEF Brought
    <3>2. <<c.req.symbol, d>> \in gaps
      BY <2>1, <3>1 DEF Had, Settles
    <3>3. stored'[c.req.symbol][d] = "none"
      BY <1>0, <1>6, <2>3, <3>2 DEF Books, GapsStay
    <3>4. QED
      BY <3>2, <3>3 DEF Settles
  <2>4. QED
    BY <2>2, <2>3
<1>8. ASSUME NEW s, s = c.req.symbol PROVE Healed(s)'
  <2>2. \A d \in TailOf(Day(now)) : stored'[s][d] = Settles(s, d)
    BY <1>7, <1>8
  <2>3. QED
    BY <1>0, <2>2 DEF Healed, Settles
<1>9. ASSUME NEW s \in Symbols, Healed(s) PROVE Healed(s)'
  <2>1. CASE s = c.req.symbol
    BY <1>0, <1>7, <2>1 DEF Healed, Settles
  <2>2. CASE s # c.req.symbol
    BY <1>0, <1>6, <1>9, <2>2 DEF Healed, Settles
  <2>3. QED
    BY <2>1, <2>2
<1>10. QED
  BY <1>8, <1>9

(* Whatever gets in the evening's way is on record, ...                     *)
LEMMA DisturbanceStays ==
  ASSUME FillInv, [Next]_vars
  PROVE  Clock \/ disturbed \subseteq disturbed'
<1> USE AtWork
<1>1. CASE ServerUntouched
  BY <1>1 DEF ServerUntouched
<1>2. CASE Boot \/ Wake \/ Tick \/ TickFails \/ RunTimeout \/ Down("server")
  BY <1>2 DEF Boot, Wake, Tick, TickFails, RunTimeout, Down, Disturb, history
<1>3. ASSUME NEW req \in todo["server"], Ask("server", req) PROVE disturbed \subseteq disturbed'
  BY <1>3, AskDoes DEF Failed, Interferes, Disturb
<1>4. CASE Store("server")
  BY <1>4, StoreDoes DEF Failed, Interferes, Disturb
<1>5. CASE Finish("server")
  BY <1>5, FinishDoes
<1>6. QED
  BY <1>1, <1>2, <1>3, <1>4, <1>5, ServerMoves

LEMMA QuietBefore ==
  ASSUME FillInv, [Next]_vars, QuietEvening', UNCHANGED now
  PROVE  QuietEvening /\ UNCHANGED fillAt /\ Evening
<1>1. UNCHANGED fillAt
  BY TimeMoves
<1>2. ~Clock
  BY Today DEF Clock
<1>3. disturbed' = {} /\ Evening'
  BY DEF QuietEvening
<1>4. disturbed = {}
  BY <1>2, <1>3, DisturbanceStays
<1>5. Evening
  BY <1>1, <1>3, SameEvening
<1>6. QED
  BY <1>1, <1>4, <1>5 DEF QuietEvening

(* ... so on a quiet one only the pass stores bars, ...                     *)
LEMMA QuietStores ==
  ASSUME FillInv, [Next]_vars, QuietEvening', UNCHANGED now
  PROVE  UNCHANGED stored \/ (Store("server") /\ open'["server"].stage = "ok")
<1>1. Evening /\ disturbed' = {}
  BY QuietBefore DEF QuietEvening
<1>2. CASE Store("command")
  <2>1. open'["command"].stage = "failed" \/ Interferes("command")
    BY <1>2, StoreDoes, AtWork
  <2>2. ~Interferes("command")
    BY <1>1 DEF Interferes, Disturb
  <2>3. QED
    BY <1>2, <2>1, <2>2, StoreDoes, AtWork
<1>3. CASE Store("server")
  BY <1>3, StoreDoes, AtWork
<1>4. QED
  BY <1>2, <1>3, StoredMoves, AtWork

(* ... and a command's chunk is one from before it.                         *)
LEMMA QuietCommand ==
  ASSUME FillInv, Quiet, [Next]_vars, QuietEvening', UNCHANGED now
  PROVE  /\ Good(open'["command"]) => open'["command"].started < Due(Day(now))
         /\ (AlreadySynced(Due(Day(now)))' /\ ~AlreadySynced(Due(Day(now)))) => Finish("server")
<1>1. QuietEvening /\ Evening /\ disturbed' = {} /\ UNCHANGED fillAt
  BY QuietBefore DEF QuietEvening
<1>2. Good(open["command"]) => open["command"].started < Due(Day(now))
  BY <1>1 DEF Quiet
<1>3. ~Interferes("command")
  BY <1>1 DEF Interferes, Disturb
<1>4. ASSUME Good(open'["command"]) PROVE open'["command"].started < Due(Day(now))
  <2>1. CASE ChunkUntouched("command")
    BY <1>2, <1>4, <2>1 DEF ChunkUntouched
  <2>2. CASE \E req \in todo["command"] : Ask("command", req)
    BY <1>3, <1>4, <2>2, AskDoes, AtWork DEF Good
  <2>3. CASE Store("command")
    BY <1>3, <1>4, <2>3, StoreDoes, AtWork DEF Good
  <2>4. QED
    BY <1>4, <2>1, <2>2, <2>3, ChunkMoves, AtWork DEF Good
<1>5. ASSUME AlreadySynced(Due(Day(now)))', ~AlreadySynced(Due(Day(now))), ~Finish("server")
      PROVE  FALSE
  <2>1. PICK row \in ledger' : row.started >= Due(Day(now))
    BY <1>1, <1>5, SameEvening DEF AlreadySynced
  <2>2. row \notin ledger
    BY <1>5, <2>1 DEF AlreadySynced
  <2>3. PICK p \in Processes : Finish(p) /\ open[p].stage # "failed" /\ ledger' = ledger \cup {Row(p)}
    BY <2>1, <2>2, LedgerMoves
  <2>4. p = "command" /\ row = Row(p)
    BY <1>5, <2>1, <2>2, <2>3, AtWork
  <2>5. open["command"] # NoChunk /\ Good(open["command"])
    BY <2>3, <2>4, FinishDoes, AtWork DEF Good
  <2>6. row.started = open["command"].started
    BY <2>4 DEF Row
  <2>7. open["command"].started \in Nat /\ Due(Day(now)) \in Nat
    BY <2>5, Today, DueFacts, AtWork DEF FillInv, Processing, WholeChunk, Times
  <2>8. QED
    BY <1>2, <2>1, <2>5, <2>6, <2>7
<1>6. QED
  BY <1>4, <1>5

LEMMA HealedStays ==
  ASSUME UNCHANGED <<stored, gaps>>, Day(now) = Day(now)'
  PROVE  /\ \A s : Healed(s)' = Healed(s)
         /\ AllHealed' = AllHealed
<1>1. ASSUME NEW s PROVE Healed(s)' = Healed(s)
  BY DEF Healed, Settles
<1>2. QED
  BY <1>1 DEF AllHealed

LEMMA QuietWithinTheHour ==
  ASSUME FillInv, Clocks, Books, Quiet, [Next]_vars, QuietEvening', UNCHANGED now
  PROVE  Quiet'
<1> USE AtWork
<1>0. QuietEvening /\ Evening /\ disturbed' = {} /\ UNCHANGED <<fillAt, gaps>>
  BY QuietBefore, TimeMoves DEF QuietEvening
<1>1. /\ Good(open["command"]) => open["command"].started < Due(Day(now))
      /\ ~MidPass => AllHealed \/ ~AlreadySynced(Due(Day(now)))
      /\ pc["server"] = "sleep" => AllHealed \/ now = wake
      /\ MidPass => PassHeals
  BY <1>0 DEF Quiet
<1>2. Day(now)' = Day(now) /\ Due(Day(now))' = Due(Day(now))
  BY <1>0, SameEvening
<1>3. (Good(open["command"]) => open["command"].started < Due(Day(now)))'
  <2>1. Good(open["command"])' <=> Good(open'["command"])
    BY DEF Good
  <2>2. QED
    BY <1>2, <2>1, QuietCommand
<1>4. ~Finish("server") /\ ~AlreadySynced(Due(Day(now))) => ~AlreadySynced(Due(Day(now)))'
  BY QuietCommand
<1>5. ASSUME UNCHANGED stored PROVE (\A s : Healed(s)' = Healed(s)) /\ AllHealed' = AllHealed
  BY <1>0, <1>2, <1>5, HealedStays
<1>6. ASSUME /\ ~MidPass' => AllHealed' \/ ~AlreadySynced(Due(Day(now)))'
             /\ pc'["server"] = "sleep" => AllHealed' \/ now' = wake'
             /\ MidPass' => PassHeals'
      PROVE  Quiet'
  BY <1>3, <1>6 DEF Quiet
<1>7. CASE ServerUntouched
  <2>1. UNCHANGED stored
    <3>1. ~Store("server")
      BY <1>7, StoreDoes DEF ServerUntouched, ChunkUntouched
    <3>2. QED
      BY <3>1, QuietStores
  <2>2. UNCHANGED wake /\ MidPass' = MidPass /\ pc'["server"] = pc["server"]
    BY <1>7 DEF ServerUntouched, MidPass
  <2>3. ~Finish("server")
    BY <1>7, FinishDoes DEF ServerUntouched, ChunkUntouched
  <2>4. PassHeals => PassHeals'
    BY <1>2, <1>5, <1>7, <2>1, <2>2 DEF PassHeals, ServerUntouched, ChunkUntouched, Began
  <2>5. QED
    BY <1>1, <1>4, <1>5, <1>6, <2>1, <2>2, <2>3, <2>4
<1>8. CASE Boot \/ Wake \/ (Down("server") /\ ~MidPass)
  <2>1. UNCHANGED <<stored, ledger>> /\ ~MidPass' /\ ~MidPass /\ pc'["server"] # "sleep"
    BY <1>8 DEF Boot, Wake, Down, MidPass, ledgerVars
  <2>2. ~AlreadySynced(Due(Day(now))) => ~AlreadySynced(Due(Day(now)))'
    BY <1>2, <2>1 DEF AlreadySynced
  <2>3. QED
    BY <1>1, <1>5, <1>6, <2>1, <2>2
<1>9. CASE Tick
  <2>0. UNCHANGED <<stored, ledger>> /\ ~MidPass /\ pc["server"] = "tick" /\ UNCHANGED open
    BY <1>9 DEF Tick, MidPass, ledgerVars
  <2>1. PICK today : today = Day(now) /\ today \in TradingDays /\ today \in TailOf(today)
    BY <1>0, TailToday DEF Evening
  <2>2. Refresh(Symbols, today) = {Request(s, Min(TailOf(today)), Max(TailOf(today))) : s \in Symbols}
    BY <2>1 DEF Refresh
  <2>3. CASE AlreadySynced(Due(Day(now))) \/ Symbols = {}
    <3>1. AllHealed
      BY <1>1, <2>0, <2>3 DEF AllHealed
    <3>2. AllHealed'
      BY <1>5, <2>0, <3>1
    <3>3. ~MidPass'
      BY <1>9, <2>0, <2>1, <2>2, <2>3 DEF Tick, MidPass
    <3>4. QED
      BY <1>6, <3>2, <3>3
  <2>4. CASE ~AlreadySynced(Due(Day(now))) /\ Symbols # {}
    <3>1. /\ pc'["server"] = "work" /\ todo'["server"] = Refresh(Symbols, today) /\ wake' = now + 1
      BY <1>0, <1>9, <2>1, <2>2, <2>4 DEF Tick, Evening
    <3>2. Began' = now
      BY <3>1, Today DEF Began
    <3>3. \A s \in Symbols : \E req \in todo'["server"] : req.symbol = s
      <4>1. SUFFICES ASSUME NEW s \in Symbols PROVE \E req \in todo'["server"] : req.symbol = s
        OBVIOUS
      <4>2. Request(s, Min(TailOf(today)), Max(TailOf(today))) \in todo'["server"]
        BY <2>2, <3>1
      <4>3. QED
        BY <4>2 DEF Request
    <3>4. open'["server"] = NoChunk
      BY <2>0, Idle
    <3>5. PassHeals'
      BY <3>2, <3>3, <3>4 DEF PassHeals
    <3>6. MidPass' /\ pc'["server"] # "sleep"
      BY <3>1 DEF MidPass
    <3>7. QED
      BY <1>6, <3>5, <3>6
  <2>5. QED
    BY <2>3, <2>4
<1>10. ASSUME TickFails \/ RunTimeout \/ (Down("server") /\ MidPass) PROVE FALSE
  BY <1>0, <1>10 DEF TickFails, RunTimeout, Down, Disturb
<1>11. ASSUME NEW req \in todo["server"], Ask("server", req) PROVE Quiet'
  <2>1. /\ UNCHANGED <<pc, todo, wake, stored>> /\ pc["server"] = "work" /\ open'["server"] # NoChunk
        /\ open'["server"].req = req
    BY <1>11, AskDoes
  <2>2. open'["server"].stage \in {"answered", "empty"}
    <3>1. open'["server"].stage = "failed" => Failed("server")
      BY <1>11, AskDoes
    <3>2. ~Failed("server")
      BY <1>0 DEF Failed, Disturb
    <3>3. QED
      BY <1>11, <3>1, <3>2, AskDoes
  <2>3. MidPass /\ MidPass' /\ PassHeals /\ Began' = Began
    BY <1>1, <2>1 DEF MidPass, Began
  <2>4. open'["server"].stage = "empty" => Healed(open["server"].req.symbol)'
    <3>1. FillInv' /\ Clocks' /\ Books'
      BY FillSteps, ClocksStep, BooksStep
    <3>2. (Day(Began) = Day(now))'
      BY <1>2, <2>3 DEF PassHeals
    <3>3. (/\ FillInv /\ Clocks /\ Books /\ QuietEvening /\ MidPass /\ Day(Began) = Day(now)
           /\ open["server"] # NoChunk /\ open["server"].stage = "empty"
           => Healed(open["server"].req.symbol))'
      BY ChunkHeals, PTL
    <3>4. QED
      BY <2>1, <2>3, <3>1, <3>2, <3>3
  <2>5. PassHeals'
    BY <1>2, <1>5, <2>1, <2>2, <2>3, <2>4 DEF PassHeals
  <2>6. QED
    BY <1>6, <2>1, <2>3, <2>5
<1>12. CASE Store("server")
  <2>1. /\ UNCHANGED <<pc, todo, wake>> /\ pc["server"] = "work" /\ open["server"] # NoChunk
        /\ open'["server"].req = open["server"].req
    BY <1>12, StoreDoes
  <2>2. open'["server"].stage = "ok"
    <3>1. ~Failed("server")
      BY <1>0 DEF Failed, Disturb
    <3>2. QED
      BY <1>12, <3>1, StoreDoes
  <2>3. MidPass /\ MidPass' /\ PassHeals /\ Began' = Began
    BY <1>1, <2>1 DEF MidPass, Began
  <2>4. /\ \A s \in Symbols : Healed(s) => Healed(s)'
        /\ \A s : s = open["server"].req.symbol => Healed(s)'
    BY <1>0, <1>12, <2>2, <2>3, StoreHeals DEF PassHeals
  <2>5. Healed(open["server"].req.symbol)'
    <3>1. \A s : s = open'["server"].req.symbol => Healed(s)'
      BY <2>1, <2>4
    <3>2. QED
      BY <3>1 DEF Healed
  <2>6. PassHeals'
    BY <1>2, <2>1, <2>2, <2>3, <2>4, <2>5 DEF PassHeals
  <2>7. QED
    BY <1>6, <2>1, <2>3, <2>6
<1>13. CASE Finish("server")
  <2>1. /\ pc["server"] = "work" /\ open["server"] # NoChunk /\ open'["server"] = NoChunk
        /\ open["server"].stage \in {"ok", "empty", "failed"} /\ open["server"].req \in todo["server"]
        /\ UNCHANGED stored /\ Leave("server", open["server"].req)
        /\ todo'["server"] = todo["server"] \ {open["server"].req}
    BY <1>13, FinishDoes
  <2>2. MidPass /\ PassHeals
    BY <1>1, <2>1 DEF MidPass
  <2>3. Healed(open["server"].req.symbol)
    BY <2>1, <2>2 DEF PassHeals
  <2>4. CASE todo["server"] = {open["server"].req} /\ pc' = [pc EXCEPT !["server"] = "sleep"]
    <3>1. AllHealed
      BY <2>2, <2>3, <2>4 DEF PassHeals, AllHealed
    <3>2. AllHealed' /\ ~MidPass'
      BY <1>5, <2>1, <2>4, <3>1 DEF MidPass
    <3>3. QED
      BY <1>6, <3>2
  <2>5. CASE UNCHANGED <<pc, wake, command>>
    <3>1. MidPass' /\ pc'["server"] # "sleep" /\ Began' = Began
      BY <2>1, <2>5 DEF MidPass, Began
    <3>2. \A s \in Symbols : Healed(s)' \/ \E req \in todo'["server"] : req.symbol = s
      <4>1. SUFFICES ASSUME NEW s \in Symbols, ~Healed(s)
                     PROVE  \E req \in todo'["server"] : req.symbol = s
        BY <1>5, <2>1
      <4>2. PICK req \in todo["server"] : req.symbol = s
        BY <2>2, <4>1 DEF PassHeals
      <4>3. req # open["server"].req
        BY <2>3, <4>1, <4>2
      <4>4. QED
        BY <2>1, <4>2, <4>3
    <3>3. PassHeals'
      BY <1>2, <2>1, <2>2, <3>1, <3>2 DEF PassHeals
    <3>4. QED
      BY <1>6, <3>1, <3>3
  <2>6. QED
    BY <2>1, <2>4, <2>5, LeaveDoes
<1>14. QED
  BY <1>7, <1>8, <1>9, <1>10, <1>11, <1>12, <1>13, ServerMoves, Today DEF Clock

(* The turn of an hour begins an evening or goes on with one.               *)
LEMMA QuietClock ==
  ASSUME FillInv, Clocks, Quiet, Clock, QuietEvening'
  PROVE  Quiet'
<1> USE AtWork
<1>0. /\ now' = now + 1 /\ now \in Nat /\ Evening'
      /\ UNCHANGED <<fillAt, gaps, stored, ledger, pc, todo, open, wake>>
      /\ pc["server"] \in {"sleep", "work"} => now < wake
  BY Today DEF Clock, ledgerVars, QuietEvening
<1>1. CASE now' = Due(Day(now')) /\ Day(now') \in TradingDays
  <2>0. PICK due \in Nat, day \in Nat :
          /\ due = now' /\ day = Day(now') /\ due = Due(day) /\ day \in TradingDays
          /\ day * Hours < due /\ due < (day + 1) * Hours
    <3>1. now' \in Nat
      BY <1>0
    <3>2. PICK day \in Nat : day = Day(now')
      BY <3>1, DayBounds
    <3>3. QED
      BY <1>1, <3>1, <3>2, DueFacts
  <2>a. Due(Day(now))' = due
    BY <1>0, <2>0 DEF Due
  <2>1. ~AlreadySynced(Due(Day(now)))'
    <3>1. \A row \in ledger : row.started \in Nat /\ row.started <= now
      BY DEF Clocks, RowsPast, FillInv, TypeOK, Rows, Times
    <3>2. QED
      BY <1>0, <2>0, <2>a, <3>1 DEF AlreadySynced
  <2>2. (Good(open["command"]) => open["command"].started < Due(Day(now)))'
    <3>1. open["command"] # NoChunk =>
            open["command"].started \in Nat /\ open["command"].started <= now
      BY DEF Clocks, RowsPast, FillInv, Processing, WholeChunk, Times
    <3>2. QED
      BY <1>0, <2>0, <2>a, <3>1 DEF Good
  <2>3. pc["server"] = "sleep" => now' = wake'
    <3>1. SUFFICES ASSUME pc["server"] = "sleep" PROVE now' = wake
      BY <1>0
    <3>2. wake \in Nat /\ now < wake /\ (Due(day) > now => wake <= Due(day))
      BY <1>0, <2>0, <3>1 DEF Clocks, SleepWindow
    <3>3. QED
      BY <1>0, <2>0, <3>2
  <2>4. ~MidPass
    <3>1. SUFFICES ASSUME MidPass PROVE FALSE
      OBVIOUS
    <3>2. /\ wake \in Nat /\ Began \in Nat /\ Began <= now /\ Began >= Due(Day(Began))
          /\ now < wake /\ Began = wake - 1
      BY <1>0, <3>1 DEF Clocks, PassWindow, Began, MidPass
    <3>3. Began = now
      BY <1>0, <3>2
    <3>4. Day(now) = day
      <4>1. day * Hours \in Nat /\ (day + 1) * Hours \in Nat
        BY FillConstants
      <4>2. PICK t \in Nat : t = now
        BY <1>0
      <4>3. day * Hours <= t /\ t < (day + 1) * Hours
        BY <1>0, <2>0, <4>1, <4>2
      <4>4. QED
        BY <4>2, <4>3, DayOf
    <3>5. QED
      BY <1>0, <2>0, <3>2, <3>3, <3>4
  <2>5. ~MidPass'
    BY <1>0, <2>4 DEF MidPass
  <2>6. QED
    BY <1>0, <2>1, <2>2, <2>3, <2>5 DEF Quiet
<1>2. CASE Evening /\ Day(now') = Day(now) /\ now' # Due(Day(now'))
  <2>1. disturbed' = disturbed
    BY <1>2 DEF Clock
  <2>2. QuietEvening
    BY <1>0, <1>2, <2>1 DEF QuietEvening
  <2>3. /\ Good(open["command"]) => open["command"].started < Due(Day(now))
        /\ ~MidPass => AllHealed \/ ~AlreadySynced(Due(Day(now)))
        /\ pc["server"] = "sleep" => AllHealed \/ now = wake
        /\ MidPass => PassHeals
    BY <2>2 DEF Quiet
  <2>4. Day(now)' = Day(now) /\ Due(Day(now))' = Due(Day(now))
    BY <1>0, <1>2 DEF Due
  <2>5. (\A s : Healed(s)' = Healed(s)) /\ AllHealed' = AllHealed
    BY <1>0, <2>4, HealedStays
  <2>6. pc["server"] = "sleep" => AllHealed'
    BY <1>0, <2>3, <2>5 DEF Clocks, SleepWindow
  <2>7. AlreadySynced(Due(Day(now)))' = AlreadySynced(Due(Day(now)))
    BY <1>0, <2>4 DEF AlreadySynced
  <2>8. (Good(open["command"]) => open["command"].started < Due(Day(now)))'
    BY <1>0, <2>3, <2>4 DEF Good
  <2>9. MidPass' => PassHeals'
    BY <1>0, <2>3, <2>4, <2>5 DEF MidPass, PassHeals, Began
  <2>10. ~MidPass' => AllHealed' \/ ~AlreadySynced(Due(Day(now)))'
    BY <1>0, <2>3, <2>5, <2>7 DEF MidPass
  <2>11. QED
    BY <1>0, <2>6, <2>8, <2>9, <2>10 DEF Quiet
<1>3. QED
  BY <1>0, <1>1, <1>2, EveningTurns

LEMMA QuietStep == FillInv /\ Clocks /\ Books /\ Quiet /\ [Next]_vars => Quiet'
<1> SUFFICES ASSUME FillInv, Clocks, Books, Quiet, [Next]_vars, QuietEvening' PROVE Quiet'
  BY DEF Quiet
<1>1. CASE UNCHANGED now
  BY <1>1, QuietWithinTheHour
<1>2. CASE Clock
  BY <1>2, QuietClock
<1>3. QED
  BY <1>1, <1>2, TimeMoves

-----------------------------------------------------------------------------
(* Theorems.                                                                *)

(* The inductive invariant: whatever a pass has still to ask for was over   *)
(* when it began, and so it is now (DueAt, tick, Sync).                     *)
THEOREM FillInvariant == Spec => []FillInv
<1>1. Init => FillInv
  BY FillStarts
<1>2. FillInv /\ [Next]_vars => FillInv'
  BY FillSteps
<1>3. QED
  BY <1>1, <1>2, PTL DEF Spec

(* Every variable of the ingest keeps its shape, and a chunk is in flight   *)
(* only in a process at work on it (Chunk in ingest.go).                    *)
THEOREM FillTypes == Spec => []TypeOK
<1>1. FillInv => TypeOK
  BY DEF FillInv
<1>2. QED
  BY <1>1, FillInvariant, PTL

(* Whatever hour is configured, whatever restarts, fails or is cut, a pass  *)
(* asks for no session before its close (DueAt in scheduler.go).             *)
THEOREM PassesWait == Spec => []PassesWaitForTheClose
<1>1. FillInv => PassesWaitForTheClose
  BY DEF FillInv
<1>2. QED
  BY <1>1, FillInvariant, PTL

(* The invariant the rest follows from: the clocks, the bars, the command,  *)
(* the quota and the quiet evening.                                         *)
THEOREM IngestInvariant ==
  Spec => [](FillInv /\ Clocks /\ Books /\ Pending /\ Quota /\ Quiet)
<1> DEFINE Inv == FillInv /\ Clocks /\ Books /\ Pending /\ Quota /\ Quiet
<1>1. Init => Inv
  BY FillStarts, ClocksStart, BooksStart, PendingStart, QuotaStart, QuietStart
<1>2. Inv /\ [Next]_vars => Inv'
  BY FillSteps, ClocksStep, BooksStep, PendingStep, QuotaStep, QuietStep
<1> HIDE DEF Inv
<1>3. Spec => []Inv
  BY <1>1, <1>2, PTL DEF Spec
<1>4. QED
  BY <1>3 DEF Inv

(* What an answer brought is stored before its row is closed, and no bar is *)
(* lost again: of a window the ledger has, every bar there was when it was  *)
(* asked for is there (Chunk in ingest.go, UpsertCandle).                   *)
THEOREM LedgerIsHonest == Spec => []RowsKept
<1>1. Books => RowsKept
  BY DEF Books
<1>2. QED
  BY <1>1, IngestInvariant, PTL

(* A restart, or a crash loop, does not run again the pass that ran: the    *)
(* requests of an evening are one for each symbol and one for each fault    *)
(* (alreadySynced in scheduler.go).                                         *)
THEOREM QuotaSpentOnce == Spec => []QuotaIsSpentOnce
<1>1. FillInv /\ Clocks /\ Quota => QuotaIsSpentOnce
  BY LeftOver, FillAssumption DEF Quota, Counts, QuotaLeft, QuotaIsSpentOnce
<1>2. QED
  BY <1>1, IngestInvariant, PTL

(* A resumed backfill that ended without a failure left out only what an    *)
(* earlier run had asked for before it had begun to trade (covered and      *)
(* Backfill in backfill.go).                                                *)
THEOREM ResumedBackfills == Spec => []ResumedBackfillsMissOnlyUnfinishedSessions
<1>1. Pending => ResumedBackfillsMissOnlyUnfinishedSessions
  <2>1. SUFFICES ASSUME Pending, command.ended, ~command.failed,
                        NEW s \in command.symbols, NEW d \in command.from .. command.to,
                        Had(s, d, command.began), stored[s][d] = "none"
                 PROVE  Excused(s, d)
    BY DEF ResumedBackfillsMissOnlyUnfinishedSessions, Had, Excused
  <2>2. ~Awaited(s, d)
    BY <2>1 DEF Pending, CommandWell, Awaited
  <2>3. QED
    BY <2>1, <2>2 DEF Pending, Pursued
<1>2. QED
  BY <1>1, IngestInvariant, PTL

(* A quiet evening leaves the tail of every symbol settled, whatever the    *)
(* evenings before left behind (tick and pass in scheduler.go, Sync).       *)
THEOREM QuietEvenings == Spec => []QuietEveningsHealTheTail
<1>1. FillInv /\ Clocks /\ Quiet => QuietEveningsHealTheTail
  <2>1. SUFFICES ASSUME FillInv, Clocks, Quiet, QuietEvening, pc["server"] = "sleep", wake > now,
                        NEW s \in Symbols, NEW d \in TailOf(Day(now))
                 PROVE  stored[s][d] = Bar(s, d, now)
    BY DEF QuietEveningsHealTheTail, QuietEvening
  <2>2. wake \in Nat /\ now \in Nat
    BY <2>1, Today DEF Clocks, SleepWindow
  <2>3. AllHealed
    BY <2>1, <2>2 DEF Quiet
  <2>4. stored[s][d] = Settles(s, d)
    BY <2>1, <2>3 DEF AllHealed, Healed
  <2>5. Evening /\ fillAt >= Settled /\ now >= Due(Day(now))
    BY <2>1 DEF QuietEvening, Evening
  <2>6. Bar(s, d, now) = Settles(s, d)
    BY <2>1, <2>2, <2>5, SettledBars
  <2>7. QED
    BY <2>4, <2>6
<1>2. QED
  BY <1>1, IngestInvariant, PTL
=============================================================================
