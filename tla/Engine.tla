------------------------------- MODULE Engine -------------------------------
(***************************************************************************)
(* The bar loop of internal/backtest/engine.go over one symbol: every bar  *)
(* is credited, charged, adjusted, filled, checked against the brackets,   *)
(* pushed and signalled on, and marked, in that order.  What a strategy    *)
(* sees is not modelled: at each close it may ask for anything its spec    *)
(* allows.                                                                 *)
(*                                                                         *)
(* Money and prices are whole cents; a price is a multiple of Tick, a      *)
(* bracket level need not be.  The code computes prices in float64 and     *)
(* rounds to cents and to ticks where this module does.                    *)
(*                                                                         *)
(* "Bug:" introduces a wrong version of the definition after it, kept to   *)
(* show that the properties notice.                                        *)
(***************************************************************************)
EXTENDS Costing, FiniteSetsExt

CONSTANTS
  Length,        \* bars of the run
  Bars,          \* candles it may meet, with the corporate action that falls on each
  Capital,       \* starting cash
  Sides,         \* of the legs the spec has: FALSE for long, TRUE for short
  Sizings,       \* of the spec: what it sizes by
  Stops,         \* what bracketFor may answer for a leg's stop at some close
  Targets,       \* and for its target
  BorrowRate, RateUnit    \* rent per bar: BorrowRate / RateUnit of the value owed

Brackets == [kind : {"none", "pct", "atr"}, value : Nat]

Candles == [open : Nat, high : Nat, low : Nat, close : Nat,
            dividend : Nat,              \* per share
            split : [num : Nat \ {0}, den : Nat \ {0}],
            lendable : BOOLEAN]

NoSplit == [num |-> 1, den |-> 1]

ASSUME EngineAssumption ==
  /\ Length \in Nat \ {0, 1}
  /\ Bars \subseteq Candles
  /\ \A b \in Bars : 0 < b.low /\ b.low <= b.open /\ b.low <= b.close
                     /\ b.open <= b.high /\ b.close <= b.high
  /\ \A b \in Bars : b.dividend = 0 \/ b.split = NoSplit
  /\ Capital \in Nat \ {0}
  /\ Sides \subseteq BOOLEAN
  /\ Sizings \subseteq [type : {"fixed_qty", "pct_equity", "fixed_cash", "risk_pct"}, value : Nat]
  /\ Stops \subseteq Brackets /\ Targets \subseteq Brackets
  /\ Lot \in Nat \ {0} /\ Tick \in Nat \ {0} /\ Brokerage \in Nat
  /\ FeeBPS \in 0 .. 1000 /\ SlippageBPS \in 0 .. 1000
  /\ BorrowRate \in Nat /\ RateUnit \in Nat \ {0}

VARIABLES
  sizing,    \* of the run's spec
  at,        \* bars seen
  bar,       \* the one at hand
  prev,      \* the close before it
  phase,     \* the next method of the loop's body
  pending,   \* what the last close asked for
  pos,       \* the position
  cash,
  closed,    \* sums over the recorded trades
  metrics,   \* the running totals of the report
  equity,    \* the last point of the curve
  splits,    \* history: splits of the symbol so far
  last       \* history: the last order filled

vars == <<sizing, at, bar, prev, phase, pending, pos, cash, closed, metrics, equity, splits, last>>

-----------------------------------------------------------------------------
(* Sizing (sizing.go), at the fill price and out of the cash there is.      *)

SharesFor(cents, price) == IF cents < 1 THEN 0 ELSE cents \div price

Wanted(price, distance) ==
  CASE sizing.type = "fixed_qty"  -> sizing.value
    [] sizing.type = "pct_equity" -> SharesFor(Round(cash * sizing.value, 100), price)
    [] sizing.type = "fixed_cash" -> SharesFor(sizing.value, price)
    [] sizing.type = "risk_pct"   -> IF distance <= 0 THEN 0
                                     ELSE (cash * sizing.value) \div (100 * distance)

Affordable(price) ==
  IF cash <= Brokerage THEN 0
  ELSE ((cash - Brokerage) * 10000) \div (price * (10000 + FeeBPS))

(* Bug: the clamp is trusted, nothing is walked down.                       *)
SizeUnchecked(price, distance) ==
  LET qty == Min({Wanted(price, distance), (cash - Brokerage) \div price})
  IN  Max({0, (qty \div Lot) * Lot})

(* Walking down a lot at a time stops at the most whole lots that fit.      *)
Size(price, distance) ==
  LET qty  == Min({Wanted(price, distance), Affordable(price)})
      lots == {k \in 1 .. qty \div Lot : Cost(k * Lot, price) <= cash}
  IN  IF lots = {} THEN 0 ELSE Lot * Max(lots)

-----------------------------------------------------------------------------
(* Positions and brackets.                                                  *)

Flat ==
  [open |-> FALSE, short |-> FALSE, qty |-> 0, entryCents |-> 0, fees |-> 0,
   div |-> 0, borrow |-> 0, owed |-> 0, split |-> 0, stop |-> 0, target |-> 0,
   \* history: when it was decided and entered, the rent it ran up, and the
   \* splits the quotation of its stop takes into account
   decided |-> 0, entered |-> 0, rent |-> 0, quoted |-> 0]

Nothing == [kind |-> "none"]
Leave   == [kind |-> "exit"]
Enter(short, stop, target) ==
  [kind |-> "enter", short |-> short, stop |-> stop, target |-> target,
   decided |-> at, quoted |-> splits]

Distance(bracket, entry) ==
  CASE bracket.kind = "none" -> 0
    [] bracket.kind = "pct"  -> (entry * bracket.value) \div 100
    [] bracket.kind = "atr"  -> bracket.value

(* 0 is no level; nor is one that falls to or below it.                     *)
LevelAt(bracket, entry, above) ==
  IF bracket.kind = "none" THEN 0
  ELSE IF above THEN entry + Distance(bracket, entry) ELSE entry - Distance(bracket, entry)

Moved(level, split) == IF level > 0 THEN (level * split.den) \div split.num ELSE level

(* What a position has moved through cash so far.                           *)
Stake(p) ==
  IF ~p.open THEN 0
  ELSE (IF p.short THEN p.entryCents ELSE -p.entryCents)
         - p.fees + p.div + p.split - p.borrow

Goto(there) == phase' = there

-----------------------------------------------------------------------------
(* record(): the borrow still owed is rounded and paid, the trade is        *)
(* written, the position is gone.  The cash effect of the closing order     *)
(* itself comes in as proceeds, that of a fractional share as splitCash.    *)
Record(gross, proceeds, fee, splitCash) ==
  LET rest == Round(pos.owed, RateUnit)
      rent == pos.borrow + rest
      paid == pos.split + splitCash
  IN  /\ cash' = cash + proceeds + splitCash - fee - rest
      /\ closed' = [pnl    |-> closed.pnl + gross + pos.div + paid - rent - pos.fees - fee,
                    fees   |-> closed.fees + pos.fees + fee,
                    div    |-> closed.div + pos.div,
                    borrow |-> closed.borrow + rent,
                    split  |-> closed.split + paid]
      /\ metrics' = [metrics EXCEPT !.borrow = @ + rest, !.split = @ + splitCash]
      /\ pos' = Flat

(* exit(): a closing order of this kind and level, met by the bar b.        *)
Exit(kind, level, b, reason) ==
  LET buy      == ClosingBuys(pos.short)
      raw      == Raw(kind, buy, level, b)
      price    == FillPrice(kind, buy, raw)
      notional == Notional(pos.qty, price)
  IN  /\ IF pos.short
         THEN Record(pos.entryCents - notional, -notional, Fees(notional), 0)
         ELSE Record(notional - pos.entryCents, notional, Fees(notional), 0)
      /\ last' = [reason |-> reason, buy |-> buy, kind |-> kind, level |-> level,
                  raw |-> raw, price |-> price, bar |-> at]

-----------------------------------------------------------------------------
(* The loop.                                                                *)

Advance ==
  /\ phase = "advance"
  /\ at < Length
  /\ \E b \in Bars :
       /\ at = 0 => b.dividend = 0 /\ b.split = NoSplit
       /\ bar' = b
       /\ prev' = bar.close
  /\ at' = at + 1
  /\ Goto("credit")
  /\ UNCHANGED <<sizing, pending, pos, cash, closed, metrics, equity, splits, last>>

Credit ==
  /\ phase = "credit"
  /\ LET due  == pos.qty * bar.dividend
         paid == IF pos.short THEN -due ELSE due
     IN  /\ cash' = cash + paid
         /\ pos' = [pos EXCEPT !.div = @ + paid]
         /\ metrics' = [metrics EXCEPT !.div = @ + paid]
  /\ Goto("charge")
  /\ UNCHANGED <<sizing, at, bar, prev, pending, closed, equity, splits, last>>

(* Bug: the part of a cent left over is forgotten.                          *)
ChargeFloors ==
  /\ phase = "charge"
  /\ LET accrued == IF pos.open /\ pos.short THEN Notional(pos.qty, prev) * BorrowRate ELSE 0
         cents   == accrued \div RateUnit
     IN  /\ cash' = cash - cents
         /\ pos' = [pos EXCEPT !.owed = 0, !.rent = @ + accrued, !.borrow = @ + cents]
         /\ metrics' = [metrics EXCEPT !.borrow = @ + cents]
  /\ Goto("adjust")
  /\ UNCHANGED <<sizing, at, bar, prev, pending, closed, equity, splits, last>>

(* Rent on the value owed at the previous close; whole cents are paid and   *)
(* the rest is carried.                                                     *)
Charge ==
  /\ phase = "charge"
  /\ LET accrued == IF pos.open /\ pos.short THEN Notional(pos.qty, prev) * BorrowRate ELSE 0
         cents   == (pos.owed + accrued) \div RateUnit
     IN  /\ cash' = cash - cents
         /\ pos' = [pos EXCEPT !.owed = @ + accrued - cents * RateUnit,
                               !.rent = @ + accrued,
                               !.borrow = @ + cents]
         /\ metrics' = [metrics EXCEPT !.borrow = @ + cents]
  /\ Goto("adjust")
  /\ UNCHANGED <<sizing, at, bar, prev, pending, closed, equity, splits, last>>

(* A grouping that leaves less than a share pays the holder out.            *)
SettleSplit(paid) ==
  /\ Record(IF pos.short THEN pos.entryCents ELSE -pos.entryCents, 0, 0, paid)
  /\ UNCHANGED last

(* Bug: the cost basis is rewritten to what the shares left would have cost.*)
CarrySplitRebased(qty, paid) ==
  /\ cash' = cash + paid
  /\ metrics' = [metrics EXCEPT !.split = @ + paid]
  /\ pos' = [pos EXCEPT !.qty = qty, !.split = @ + paid,
                        !.entryCents = ((@ * qty * bar.split.den) \div bar.split.num) \div pos.qty,
                        !.stop = Moved(@, bar.split), !.target = Moved(@, bar.split),
                        !.quoted = splits + 1]
  /\ UNCHANGED <<closed, last>>

CarrySplit(qty, paid) ==
  /\ cash' = cash + paid
  /\ metrics' = [metrics EXCEPT !.split = @ + paid]
  /\ pos' = [pos EXCEPT !.qty = qty, !.split = @ + paid,
                        !.stop = Moved(@, bar.split), !.target = Moved(@, bar.split),
                        !.quoted = splits + 1]
  /\ UNCHANGED <<closed, last>>

Adjust ==
  /\ phase = "adjust"
  /\ IF bar.split = NoSplit
     THEN UNCHANGED <<cash, metrics, pos, closed, splits, last>>
     ELSE /\ splits' = splits + 1
          /\ IF ~pos.open
             THEN UNCHANGED <<cash, metrics, pos, closed, last>>
             ELSE LET shares == pos.qty * bar.split.num    \* in den-ths of a share
                      qty    == shares \div bar.split.den
                      cents  == Round((shares % bar.split.den) * bar.open, bar.split.den)
                      paid   == IF pos.short THEN -cents ELSE cents
                  IN  IF qty < 1 THEN SettleSplit(paid) ELSE CarrySplit(qty, paid)
  /\ Goto("fill")
  /\ UNCHANGED <<sizing, at, bar, prev, pending, equity>>

(* enter(): nothing happens if the shares cannot be borrowed, the price     *)
(* vanishes or no lot is affordable.                                        *)
Open(want) ==
  LET buy      == ~want.short
      price    == FillPrice("market", buy, bar.open)
      qty      == IF price <= 0 THEN 0 ELSE Size(price, Distance(want.stop, price))
      notional == Notional(qty, price)
  IN  IF (want.short /\ ~bar.lendable) \/ qty < 1
      THEN UNCHANGED <<cash, pos, last>>
      ELSE /\ cash' = (IF want.short THEN cash + notional ELSE cash - notional) - Fees(notional)
           /\ pos' = [Flat EXCEPT !.open = TRUE, !.short = want.short, !.qty = qty,
                                  !.entryCents = notional, !.fees = Fees(notional),
                                  !.stop = LevelAt(want.stop, price, want.short),
                                  !.target = LevelAt(want.target, price, ~want.short),
                                  !.decided = want.decided, !.entered = at,
                                  !.quoted = IF want.stop.kind = "atr" THEN want.quoted ELSE splits]
           /\ last' = [reason |-> "entry", buy |-> buy, kind |-> "market", level |-> 0,
                       raw |-> bar.open, price |-> price, bar |-> at]

(* Bug: an entry that could not be filled is tried again on the next bar.   *)
FillRetries ==
  /\ phase = "fill"
  /\ CASE pending.kind = "enter" /\ ~pos.open -> Open(pending) /\ UNCHANGED <<closed, metrics>>
       [] pending.kind = "exit" /\ pos.open   -> Exit("market", 0, bar, "signal")
       [] OTHER -> UNCHANGED <<cash, pos, closed, metrics, last>>
  /\ pending' = IF pending.kind = "enter" /\ ~pos'.open /\ at < Length - 1 THEN pending ELSE Nothing
  /\ Goto(IF pending'.kind = "enter" THEN "mark" ELSE "brackets")
  /\ UNCHANGED <<sizing, at, bar, prev, equity, splits>>

Fill ==
  /\ phase = "fill"
  /\ pending' = Nothing
  /\ CASE pending.kind = "enter" /\ ~pos.open -> Open(pending) /\ UNCHANGED <<closed, metrics>>
       [] pending.kind = "exit" /\ pos.open   -> Exit("market", 0, bar, "signal")
       [] OTHER -> UNCHANGED <<cash, pos, closed, metrics, last>>
  /\ Goto("brackets")
  /\ UNCHANGED <<sizing, at, bar, prev, equity, splits>>

StopHit   == pos.open /\ pos.stop > 0 /\ Met("stop", ClosingBuys(pos.short), pos.stop, bar)
TargetHit == pos.open /\ pos.target > 0 /\ Met("limit", ClosingBuys(pos.short), pos.target, bar)

(* Bug: an ambiguous bar fills the target.                                  *)
CheckBracketsKindly ==
  /\ phase = "brackets"
  /\ CASE TargetHit -> Exit("limit", pos.target, bar, "target")
       [] StopHit /\ ~TargetHit -> Exit("stop", pos.stop, bar, "stop")
       [] OTHER -> UNCHANGED <<cash, pos, closed, metrics, last>>
  /\ Goto("close")
  /\ UNCHANGED <<sizing, at, bar, prev, pending, equity, splits>>

CheckBrackets ==
  /\ phase = "brackets"
  /\ CASE StopHit -> Exit("stop", pos.stop, bar, "stop")
       [] TargetHit /\ ~StopHit -> Exit("limit", pos.target, bar, "target")
       [] OTHER -> UNCHANGED <<cash, pos, closed, metrics, last>>
  /\ Goto("close")
  /\ UNCHANGED <<sizing, at, bar, prev, pending, equity, splits>>

(* A bar whose only price is the close, which is how the last one is left.  *)
CloseOf(b) == [b EXCEPT !.open = b.close, !.high = b.close, !.low = b.close]

CloseOut ==
  /\ phase = "close" /\ at = Length
  /\ pending' = Nothing
  /\ IF pos.open
     THEN Exit("market", 0, CloseOf(bar), "end_of_run")
     ELSE UNCHANGED <<cash, pos, closed, metrics, last>>
  /\ Goto("mark")
  /\ UNCHANGED <<sizing, at, bar, prev, equity, splits>>

(* The rules at this close.  A leg whose bracket has no value yet asks for  *)
(* nothing.                                                                 *)
Signal ==
  /\ phase = "close" /\ at < Length
  /\ \/ pending' = Nothing
     \/ pos.open /\ pending' = Leave
     \/ /\ ~pos.open
        /\ \E short \in Sides, stop \in Stops, target \in Targets :
             pending' = Enter(short, stop, target)
  /\ Goto("mark")
  /\ UNCHANGED <<sizing, at, bar, prev, pos, cash, closed, metrics, equity, splits, last>>

Mark ==
  /\ phase = "mark"
  /\ equity' = cash + (IF pos.short THEN -1 ELSE 1) * Notional(pos.qty, bar.close)
  /\ Goto(IF at = Length THEN "done" ELSE "advance")
  /\ UNCHANGED <<sizing, at, bar, prev, pending, pos, cash, closed, metrics, splits, last>>

Init ==
  /\ sizing \in Sizings
  /\ at = 0
  /\ bar = [open |-> 0, high |-> 0, low |-> 0, close |-> 0,
            dividend |-> 0, split |-> NoSplit, lendable |-> TRUE]
  /\ prev = 0
  /\ phase = "advance"
  /\ pending = Nothing
  /\ pos = Flat
  /\ cash = Capital
  /\ closed = [pnl |-> 0, fees |-> 0, div |-> 0, borrow |-> 0, split |-> 0]
  /\ metrics = [div |-> 0, borrow |-> 0, split |-> 0]
  /\ equity = Capital
  /\ splits = 0
  /\ last = [reason |-> "none", buy |-> FALSE, kind |-> "market", level |-> 0,
             raw |-> 0, price |-> 0, bar |-> 0]

Next ==
  Advance \/ Credit \/ Charge \/ Adjust \/ Fill \/ CheckBrackets \/ CloseOut \/ Signal \/ Mark

Spec == Init /\ [][Next]_vars

-----------------------------------------------------------------------------
(* Properties.                                                              *)

Positions ==
  [open : BOOLEAN, short : BOOLEAN, qty : Nat, entryCents : Int, fees : Int,
   div : Int, borrow : Nat, owed : Nat, split : Int, stop : Int, target : Int,
   decided : Nat, entered : Nat, rent : Nat, quoted : Nat]

Orders ==
  {Nothing, Leave}
    \cup [kind : {"enter"}, short : BOOLEAN, stop : Brackets, target : Brackets,
          decided : Nat, quoted : Nat]

(* Every variable has the shape the code gives it.                          *)
TypeOK ==
  /\ sizing \in Sizings
  /\ at \in 0 .. Length
  /\ bar \in Candles
  /\ prev \in Nat
  /\ phase \in {"advance", "credit", "charge", "adjust", "fill", "brackets", "close", "mark", "done"}
  /\ pending \in Orders
  /\ pos \in Positions
  /\ cash \in Int
  /\ closed \in [pnl : Int, fees : Int, div : Int, borrow : Int, split : Int]
  /\ metrics \in [div : Int, borrow : Int, split : Int]
  /\ equity \in Int
  /\ splits \in Nat

(* No cent is made or lost: cash is always the capital, what the recorded   *)
(* trades say they made, and what the open position moved.  Neither a       *)
(* grouping's fraction, nor rent in arrears, nor a dividend owed on a short *)
(* is counted twice.                                                        *)
EveryCentIsAccounted == cash = Capital + closed.pnl + Stake(pos)

(* The report's totals are those of its trades and of the open position.    *)
TotalsMatchTheTrades ==
  /\ metrics.div    = closed.div + pos.div
  /\ metrics.borrow = closed.borrow + pos.borrow
  /\ metrics.split  = closed.split + pos.split

(* The last point of the equity curve is what the trades add up to.         *)
CurveEndsWhereTheTradesDo == phase = "done" => equity = Capital + closed.pnl

(* The books balance after every method of the loop: cash against trades,   *)
(* the report against trades, the curve against trades at the end.          *)
BooksBalance ==
  EveryCentIsAccounted /\ TotalsMatchTheTrades /\ CurveEndsWhereTheTradesDo

(* However small a short is, the rent it pays follows the rent it runs up   *)
(* to within a cent, in every bar and over any number of them.              *)
RentIsPaidToTheCent ==
  /\ pos.rent = RateUnit * pos.borrow + pos.owed
  /\ pos.owed < RateUnit

(* Sizing at the fill price leaves no long, of however many lots and        *)
(* whatever costs, that the cash of that moment does not pay for.           *)
LongsArePaidFor ==
  [][~pos.open /\ pos'.open /\ ~pos'.short => cash' >= 0]_vars

(* A position is entered on the bar after the one whose close asked for it. *)
EntriesFollowTheirSignal == pos.open => pos.decided + 1 = pos.entered

(* What an order got was a price of the bar it was filled on; and a target  *)
(* is paid at its level or better, but for the tick it is rounded to against*)
(* the order: less than one, wherever the bar opened and whatever splits    *)
(* moved the level.                                                         *)
FillsHappenInsideTheirBar ==
  /\ last.bar = at /\ at > 0 => bar.low <= last.raw /\ last.raw <= bar.high
  /\ last.kind = "limit" => IF last.buy THEN last.price < last.level + Tick
                                        ELSE last.price > last.level - Tick

(* When a bar reaches both levels, the exit is the one that is worse for    *)
(* the holder.                                                              *)
AmbiguousBarsEndWorse ==
  [][CheckBrackets /\ StopHit /\ TargetHit =>
       IF pos.short THEN last'.raw >= pos.stop /\ last'.raw >= pos.target
                    ELSE last'.raw <= pos.stop /\ last'.raw <= pos.target]_vars

(* BUILD_PLAN on splits: a stop in the money of before one would take "every*)
(* bracketed position out at the open of the split bar, at a price that     *)
(* never happened".                                                         *)
StopsAreInTodaysMoney == pos.open /\ pos.stop > 0 => pos.quoted = splits
=============================================================================
