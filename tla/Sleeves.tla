------------------------------- MODULE Sleeves -------------------------------
(***************************************************************************)
(* A run over several symbols (internal/backtest/run.go, basket.go): the   *)
(* capital is cut into shares, every symbol is run alone on its own, and   *)
(* the report is put together from the results: one curve, one trade log,  *)
(* two benchmarks, the metrics that count.                                 *)
(*                                                                         *)
(* The bar loop is Engine's.  Here it answers with any curve and trades    *)
(* such a loop can leave behind; the benchmarks are computed in full.      *)
(* Stamps are numbers, an instrument's symbol is its rank by ticker.       *)
(*                                                                         *)
(* "Bug:" introduces a wrong version of the definition after it, kept to   *)
(* show that the properties notice.                                        *)
(***************************************************************************)
EXTENDS Costing, SequencesExt

CONSTANTS
  Requests,   \* [capital, instruments, index]: what may be asked for
  Outcomes    \* [pnl, drift] of a trade: what it makes, what it is worth while open

(* Symbols are told apart, candles come in order, prices are positive.      *)
Listing == [ts : Int, open : Nat \ {0}, close : Nat \ {0}, dividend : Nat,
            split : [num : Nat \ {0}, den : Nat \ {0}]]

IsRequest(r) ==
  /\ r.capital \in Int
  /\ r.instruments \in Seq([symbol : Nat, candles : Seq(Listing)])
  /\ \A i, j \in DOMAIN r.instruments :
       r.instruments[i].symbol = r.instruments[j].symbol => i = j
  /\ \A i \in DOMAIN r.instruments : \A j, k \in DOMAIN r.instruments[i].candles :
       j < k => r.instruments[i].candles[j].ts < r.instruments[i].candles[k].ts
  /\ \A t \in DOMAIN r.index : r.index[t] \in Nat \ {0}

ASSUME SleevesAssumption ==
  /\ \A r \in Requests : IsRequest(r)
  /\ Outcomes \subseteq [pnl : Int, drift : Int]

VARIABLES
  request,
  shares,     \* capital of each sleeve
  sleeves,    \* results of the instruments run so far, in the request's order
  stage,      \* "running", "refused" or "done"
  result      \* of the run, once it is done

sleevesVars == <<request, shares, sleeves, stage, result>>

Total(seq) ==
  LET sum[k \in 0 .. Len(seq)] == IF k = 0 THEN 0 ELSE sum[k - 1] + seq[k]
  IN  sum[Len(seq)]

(* A finite set in the order of Before.                                     *)
InOrder(S, Before(_, _)) ==
  [i \in 1 .. Cardinality(S) |-> CHOOSE x \in S : Cardinality({y \in S : Before(y, x)}) = i - 1]

-----------------------------------------------------------------------------
(* The shares.                                                              *)

SplitCapital(total, n) ==
  [i \in 1 .. n |-> total \div n + (IF i <= total % n THEN 1 ELSE 0)]

(* Run(): what keeps a request from being run at all.                       *)
Runnable(r) ==
  /\ r.capital >= 1
  /\ r.instruments # <<>>
  /\ \A i \in DOMAIN r.instruments : Len(r.instruments[i].candles) >= 2
  /\ Last(SplitCapital(r.capital, Len(r.instruments))) >= 1

-----------------------------------------------------------------------------
(* Buy and hold: the share is put into the symbol at its second bar, the    *)
(* first that any strategy can be filled on, and sold after the last.       *)

Carry(leg, candle) ==
  LET shareCount == leg.qty * candle.split.num
      rest       == shareCount % candle.split.den
  IN  [leg EXCEPT !.cash = @ + leg.qty * candle.dividend
                             + Round(rest * candle.open, candle.split.den),
                  !.qty = shareCount \div candle.split.den]

AffordableQty(capital, price) ==
  LET budget == capital - Brokerage
      most   == (budget * 10000) \div (price * (10000 + FeeBPS) * Lot)
      fits   == {k \in 1 .. most : Cost(k * Lot, price) <= capital}
  IN  IF budget <= 0 \/ fits = {} THEN 0 ELSE Lot * Max(fits)

BuyShare(leg, capital, candle) ==
  LET entry == FillPrice("market", TRUE, candle.open)
      qty   == AffordableQty(capital, entry)
  IN  IF qty = 0 THEN leg
      ELSE [leg EXCEPT !.qty = qty, !.cash = @ - Cost(qty, entry), !.bought = TRUE]

HoldBar(leg, at, candle, capital) ==
  LET carried == IF leg.qty > 0 THEN Carry(leg, candle) ELSE leg
      traded  == IF at = 2 /\ carried.qty = 0 THEN BuyShare(carried, capital, candle) ELSE carried
  IN  [traded EXCEPT !.curve = Append(@, traded.cash + Notional(traded.qty, candle.close))]

(* The curve, or nothing if the share does not buy a lot.                   *)
HoldBenchmark(candles, capital) ==
  LET after[i \in 0 .. Len(candles)] ==
        IF i = 0 THEN [cash |-> capital, qty |-> 0, bought |-> FALSE, curve |-> <<>>]
        ELSE HoldBar(after[i - 1], i, candles[i], capital)
      leg   == after[Len(candles)]
      exit  == Notional(leg.qty, FillPrice("market", FALSE, Last(candles).close))
      final == leg.cash + (IF leg.qty = 0 THEN 0 ELSE exit - Fees(exit))
  IN  IF leg.bought THEN [leg.curve EXCEPT ![Len(candles)] = final] ELSE <<>>

(* The index's close at each bar, or the one before it; the run's own bars  *)
(* are the only stamps looked up.                                           *)
AlignCloses(candles, index) ==
  LET matched == {i \in DOMAIN candles : candles[i].ts \in DOMAIN index}
  IN  IF 1 \notin matched \/ Cardinality(matched) < 2 THEN <<>>
      ELSE [i \in DOMAIN candles |-> index[candles[Max({m \in matched : m <= i})].ts]]

IndexBenchmark(candles, capital, index) ==
  LET closes == IF Cardinality(DOMAIN index) < 2 THEN <<>> ELSE AlignCloses(candles, index)
  IN  [i \in DOMAIN closes |-> Round(capital * closes[i], closes[1])]

-----------------------------------------------------------------------------
(* What the engine may leave behind for one symbol.                         *)

(* At most two trades: entered at the second bar at the earliest, the       *)
(* second of them after the first is out.                                   *)
TradeLogs(n) ==
  LET Spans == {s \in (2 .. n) \X (2 .. n) : s[1] <= s[2]}
      One   == {[entry |-> s[1], exit |-> s[2], pnl |-> o.pnl, drift |-> o.drift] :
                  s \in Spans, o \in Outcomes}
  IN  {<<>>} \cup {<<t>> : t \in One}
             \cup {p \in One \X One : p[1].exit < p[2].entry}

OpenAt(log, i) == {k \in DOMAIN log : log[k].entry <= i /\ i < log[k].exit}

SleeveOf(held, capital, index, log) ==
  LET ts(i) == held.candles[i].ts
      Worth(k, i) == IF log[k].exit <= i THEN log[k].pnl
                     ELSE IF log[k].entry <= i THEN log[k].drift ELSE 0
      Value(i) == capital + Total([k \in DOMAIN log |-> Worth(k, i)])
  IN  [equity |-> [i \in DOMAIN held.candles |-> [ts |-> ts(i), cents |-> Value(i)]],
       trades |-> [k \in DOMAIN log |-> [seq |-> k, symbol |-> held.symbol, pnl |-> log[k].pnl,
                                         entry |-> ts(log[k].entry), exit |-> ts(log[k].exit)]],
       held   |-> {ts(i) : i \in {j \in DOMAIN held.candles : OpenAt(log, j) # {}}},
       hold   |-> HoldBenchmark(held.candles, capital),
       index  |-> IndexBenchmark(held.candles, capital, index)]

-----------------------------------------------------------------------------
(* The merge.                                                               *)

StampsOf(points) == [i \in DOMAIN points |-> points[i].ts]

UnionStamps(results) ==
  InOrder(UNION {Range(StampsOf(results[i].equity)) : i \in DOMAIN results}, <)

(* Bug: before its first bar a sleeve is worth nothing.                     *)
AlignSleeveFromNothing(stamps, own, values, start) ==
  [k \in DOMAIN stamps |->
     LET past == {i \in DOMAIN own : own[i] <= stamps[k]}
     IN  IF past = {} THEN 0 ELSE values[Max(past)]]

(* A sleeve is worth its capital before its first bar, and what its last    *)
(* bar left it from then on.                                                *)
AlignSleeve(stamps, own, values, start) ==
  [k \in DOMAIN stamps |->
     LET past == {i \in DOMAIN own : own[i] <= stamps[k]}
     IN  IF past = {} THEN start ELSE values[Max(past)]]

SumAligned(curves, stamps) ==
  [k \in DOMAIN stamps |-> Total([i \in DOMAIN curves |-> curves[i][k]])]

(* The sleeves' own benchmarks summed, or nothing if one of them has none.  *)
SumBenchmark(results, own, stamps) ==
  IF \E i \in DOMAIN results : own[i] = <<>> THEN <<>>
  ELSE SumAligned([i \in DOMAIN results |->
                     AlignSleeve(stamps, StampsOf(results[i].equity), own[i], shares[i])],
                  stamps)

Earlier(t, u) ==
  \/ t.entry < u.entry
  \/ t.entry = u.entry /\ t.exit < u.exit
  \/ t.entry = u.entry /\ t.exit = u.exit /\ t.symbol < u.symbol

(* Bug: every sleeve's own numbers are kept.                                *)
MergeTradesAsNumbered(results) ==
  InOrder(UNION {Range(results[i].trades) : i \in DOMAIN results}, Earlier)

MergeTrades(results) ==
  LET sorted == InOrder(UNION {Range(results[i].trades) : i \in DOMAIN results}, Earlier)
  IN  [k \in DOMAIN sorted |-> [sorted[k] EXCEPT !.seq = k]]

-----------------------------------------------------------------------------
(* The metrics that count (metrics.go, stats.go).                           *)

NoTally == [wins |-> 0, losses |-> 0, scratches |-> 0, streak |-> 0, worstStreak |-> 0,
            grossWin |-> 0, grossLoss |-> 0]

TallyTrade(m, t) ==
  CASE t.pnl > 0 -> [m EXCEPT !.wins = @ + 1, !.grossWin = @ + t.pnl, !.streak = 0]
    [] t.pnl < 0 -> [m EXCEPT !.losses = @ + 1, !.grossLoss = @ - t.pnl, !.streak = @ + 1,
                              !.worstStreak = Max({@, m.streak + 1})]
    [] OTHER     -> [m EXCEPT !.scratches = @ + 1, !.streak = 0]

TallyTrades(trades) ==
  LET tally[k \in 0 .. Len(trades)] == IF k = 0 THEN NoTally ELSE TallyTrade(tally[k - 1], trades[k])
  IN  tally[Len(trades)]

NoDrawdown == [cents |-> 0, of |-> 1, peak |-> 0, trough |-> 0]

(* Bug: the deepest fall is the one of the most cents.                      *)
DeeperInCents(d, e) == d.cents < e.cents

(* Falls are compared in parts of their peak.                               *)
Deeper(d, e) == d.cents * e.of < e.cents * d.of

(* The peak is the last bar that was as high as any before it.              *)
DrawdownBar(acc, i, curve) ==
  LET fall == [cents |-> curve[i] - curve[acc.peak], of |-> curve[acc.peak],
               peak |-> acc.peak, trough |-> i]
  IN  CASE curve[i] >= curve[acc.peak] -> [acc EXCEPT !.peak = i]
        [] curve[i] < curve[acc.peak] /\ curve[acc.peak] > 0 /\ Deeper(fall, acc.worst) ->
             [acc EXCEPT !.worst = fall, !.longest = Max({@, i - acc.peak})]
        [] OTHER -> [acc EXCEPT !.longest = Max({@, i - acc.peak})]

Drawdowns(curve) ==
  LET after[i \in 0 .. Len(curve)] ==
        IF i = 0 THEN [peak |-> 1, worst |-> NoDrawdown, longest |-> 0]
        ELSE DrawdownBar(after[i - 1], i, curve)
      acc   == after[Len(curve)]
      worst == acc.worst
  IN  [worst     |-> worst,
       longest   |-> acc.longest,
       recovered |-> worst # NoDrawdown
                       /\ \E i \in worst.trough + 1 .. Len(curve) : curve[i] >= curve[worst.peak]]

Metrics(results, curve, trades) ==
  [bars        |-> Len(curve),
   trades      |-> Len(trades),
   inMarket    |-> Cardinality(UNION {results[i].held : i \in DOMAIN results}),
   final       |-> Last(curve),
   pnl         |-> Last(curve) - request.capital,
   tally       |-> TallyTrades(trades),
   drawdowns   |-> Drawdowns(curve)]

Aligned(results, stamps) ==
  [i \in DOMAIN results |->
     AlignSleeve(stamps, StampsOf(results[i].equity),
                 [k \in DOMAIN results[i].equity |-> results[i].equity[k].cents], shares[i])]

RunBasket(results) ==
  LET stamps  == UnionStamps(results)
      aligned == Aligned(results, stamps)
      curve   == SumAligned(aligned, stamps)
      trades  == MergeTrades(results)
  IN  [stamps  |-> stamps,
       equity  |-> curve,
       hold    |-> SumBenchmark(results, [i \in DOMAIN results |-> results[i].hold], stamps),
       index   |-> SumBenchmark(results, [i \in DOMAIN results |-> results[i].index], stamps),
       trades  |-> trades,
       sleeves |-> aligned,
       metrics |-> Metrics(results, curve, trades)]

(* One symbol is its own aggregate and has no sleeves.                      *)
RunAlone(only) ==
  LET curve == [k \in DOMAIN only.equity |-> only.equity[k].cents]
  IN  [stamps |-> StampsOf(only.equity), equity |-> curve, hold |-> only.hold,
       index |-> only.index, trades |-> only.trades, sleeves |-> <<>>,
       metrics |-> Metrics(<<only>>, curve, only.trades)]

-----------------------------------------------------------------------------
SleevesInit ==
  /\ request \in Requests
  /\ shares = IF Runnable(request) THEN SplitCapital(request.capital, Len(request.instruments))
                                   ELSE <<>>
  /\ sleeves = <<>>
  /\ stage = IF Runnable(request) THEN "running" ELSE "refused"
  /\ result = <<>>

RunSleeve ==
  /\ stage = "running"
  /\ Len(sleeves) < Len(request.instruments)
  /\ LET i    == Len(sleeves) + 1
         held == request.instruments[i]
     IN  \E log \in TradeLogs(Len(held.candles)) :
           sleeves' = Append(sleeves, SleeveOf(held, shares[i], request.index, log))
  /\ UNCHANGED <<request, shares, stage, result>>

Merge ==
  /\ stage = "running"
  /\ Len(sleeves) = Len(request.instruments)
  /\ stage' = "done"
  /\ result' = IF Len(sleeves) = 1 THEN RunAlone(sleeves[1]) ELSE RunBasket(sleeves)
  /\ UNCHANGED <<request, shares, sleeves>>

SleevesNext == RunSleeve \/ Merge

SleevesSpec == SleevesInit /\ [][SleevesNext]_sleevesVars

-----------------------------------------------------------------------------
(* Properties.                                                              *)

Done == stage = "done"

(* What a sleeve is worth at a moment, told from its trades: its capital,   *)
(* what its trades made by then, what the open one is worth.                *)
WorthAt(i, t) ==
  LET points == sleeves[i].equity
      past   == {k \in DOMAIN points : points[k].ts <= t}
  IN  IF past = {} THEN shares[i] ELSE points[Max(past)].cents

(* The curve of a basket is a portfolio's: at every stamp the sum of what   *)
(* its sleeves are worth, from exactly the capital of the run to that plus  *)
(* everything the trades made, though symbols are listed late or delisted   *)
(* early and the capital does not divide.  A benchmark is there only if     *)
(* every sleeve has its own, and starts from the same capital.              *)
CurvesAddUp ==
  Done =>
    LET n == Len(result.equity)
        Benchmark(curve, Own(_)) ==
          /\ curve = <<>> <=> \E i \in DOMAIN sleeves : Own(sleeves[i]) = <<>>
          /\ curve # <<>> => Len(curve) = n /\ curve[1] = request.capital
    IN  /\ \A k \in 1 .. n :
             result.equity[k] = Total([i \in DOMAIN sleeves |-> WorthAt(i, result.stamps[k])])
        /\ result.equity[1] = request.capital
        /\ result.metrics.pnl = Total([k \in DOMAIN result.trades |-> result.trades[k].pnl])
        /\ Benchmark(result.hold, LAMBDA s : s.hold)
        /\ Benchmark(result.index, LAMBDA s : s.index)

WithoutSeq(t) == [symbol |-> t.symbol, pnl |-> t.pnl, entry |-> t.entry, exit |-> t.exit]

(* The merged log has every trade of every sleeve once, each sleeve's in    *)
(* the order they happened, under numbers of its own that are half of their *)
(* primary key; and what the report counts over it is what is in it.        *)
MergedLogIsTheSleevesLogs ==
  Done =>
    LET n == Len(result.trades)
        m == result.metrics
        Of(symbol) == {k \in 1 .. n : result.trades[k].symbol = symbol}
        Losing(a, b) == \A k \in a .. b : result.trades[k].pnl < 0
    IN  /\ \A k \in 1 .. n : result.trades[k].seq = k
        /\ n = Total([i \in DOMAIN sleeves |-> Len(sleeves[i].trades)])
        /\ \A i \in DOMAIN sleeves :
             LET mine == Of(request.instruments[i].symbol)
             IN  /\ Cardinality(mine) = Len(sleeves[i].trades)
                 /\ \A k \in mine :
                      WithoutSeq(result.trades[k])
                        = WithoutSeq(sleeves[i].trades[Cardinality({j \in mine : j <= k})])
        /\ m.tally.wins + m.tally.losses + m.tally.scratches = n
        /\ m.tally.grossWin - m.tally.grossLoss = m.pnl
        /\ m.tally.worstStreak = Max({0} \cup {p[2] - p[1] + 1 : p \in
                                    {p \in (1 .. n) \X (1 .. n) : Losing(p[1], p[2]) /\ p[1] <= p[2]}})
        /\ m.inMarket <= m.bars

(* The drawdown of the report is the deepest fall, in parts of the highest  *)
(* point before it, that the curve has; it counts as made good only if the  *)
(* curve was that high again; and no fall from a high lasts longer than the *)
(* longest.                                                                 *)
DrawdownsAreTheWorst ==
  Done =>
    LET curve == result.equity
        d     == result.metrics.drawdowns
        High(i) == \A k \in 1 .. i : curve[k] <= curve[i]
        Falls == {p \in (DOMAIN curve) \X (DOMAIN curve) :
                    /\ p[1] < p[2] /\ High(p[1]) /\ curve[p[1]] > 0
                    /\ \A k \in p[1] + 1 .. p[2] : curve[k] < curve[p[1]]}
    IN  /\ d.worst = NoDrawdown <=> Falls = {}
        /\ d.worst # NoDrawdown =>
             /\ <<d.worst.peak, d.worst.trough>> \in Falls
             /\ \A p \in Falls :
                  d.worst.cents * curve[p[1]] <= (curve[p[2]] - curve[p[1]]) * d.worst.of
             /\ d.recovered <=> \E k \in DOMAIN curve : k > d.worst.trough
                                                       /\ curve[k] >= curve[d.worst.peak]
        /\ d.longest = Max({0} \cup {p[2] - p[1] : p \in Falls})

=============================================================================
