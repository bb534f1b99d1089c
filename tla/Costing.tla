------------------------------- MODULE Costing -------------------------------
(***************************************************************************)
(* What an order is filled at and what it costs (broker.go).  The engine   *)
(* and the buy-and-hold benchmark price their orders with the same code.   *)
(*                                                                         *)
(* Money and prices are whole cents.  The code computes in float64 and     *)
(* rounds to cents and to ticks where this module does.  "Bug:" marks a    *)
(* wrong version of the definition after it, for the properties to catch.  *)
(***************************************************************************)
EXTENDS Integers

CONSTANTS Lot, Tick, Brokerage, FeeBPS, SlippageBPS

Round(n, d)  == (2 * n + d) \div (2 * d)
RoundUp(n, d) == (n + d - 1) \div d

ClosingBuys(short) == short

(* Bug: a bar that opens through a level fills at the level all the same.   *)
RawAtLevel(kind, buy, level, b) == IF kind = "market" THEN b.open ELSE level

(* Order.Fill: whether an order is met by a bar, and the price it gets.     *)
Met(kind, buy, level, b) ==
  CASE kind = "market" -> TRUE
    [] kind = "limit"  -> IF buy THEN b.low <= level ELSE b.high >= level
    [] kind = "stop"   -> IF buy THEN b.high >= level ELSE b.low <= level

Raw(kind, buy, level, b) ==
  CASE kind = "market" -> b.open
    [] (kind = "limit" /\ buy) \/ (kind = "stop" /\ ~buy) -> IF b.open < level THEN b.open ELSE level
    [] OTHER -> IF b.open > level THEN b.open ELSE level

(* Costing.Fill: slippage against the order, none for a limit, and then the *)
(* tick on the far side.                                                    *)
FillPrice(kind, buy, raw) ==
  LET slippage == IF kind = "limit" THEN 0 ELSE SlippageBPS
  IN  IF buy THEN Tick * RoundUp(raw * (10000 + slippage), 10000 * Tick)
             ELSE Tick * ((raw * (10000 - slippage)) \div (10000 * Tick))

Notional(qty, price) == qty * price
Fees(notional)       == Brokerage + Round(notional * FeeBPS, 10000)
Cost(qty, price)     == Notional(qty, price) + Fees(Notional(qty, price))
=============================================================================
