----------------------------- MODULE RunProofs -----------------------------
(***************************************************************************)
(* Theorems about a run: Engine's bar loop, for every market, spec and     *)
(* cost, then what Sleeves puts together from several symbols, for every   *)
(* request and whatever the loop leaves behind for each.                   *)
(*                                                                         *)
(* The drawdowns are computed in one pass that remembers a peak and the    *)
(* worst since; Told says what is known of the whole curve after each bar, *)
(* and DrawdownStep that a bar keeps it.  SleevesInv only says what a      *)
(* report is made of; what follows from that is shown of its parts: the    *)
(* sums (TotalIs), what is put in order (ListedInOrder), the curves        *)
(* (BasketCurveIs), the trades in one log (KeptAll, MineIs), what is       *)
(* counted over it (Tallied), the benchmarks (HeldTo).                     *)
(***************************************************************************)
EXTENDS Engine, Sleeves, FiniteSetTheorems, WellFoundedInduction, TLAPS

-----------------------------------------------------------------------------
(* Arithmetic.                                                              *)

LEMMA DivMod ==
  ASSUME NEW n \in Nat, NEW d \in Nat \ {0}
  PROVE  /\ n \div d \in Nat
         /\ n - (n \div d) * d \in Nat
         /\ n - (n \div d) * d < d
  OBVIOUS

LEMMA LargestNatural ==
  ASSUME NEW n \in Int, NEW S, S \subseteq 1 .. n, S # {}
  PROVE  Max(S) \in S
<1> DEFINE T == {m \in Nat : n - m \in S}
<1>1. T \subseteq Nat /\ T # {}
  <2>1. PICK k \in S : TRUE
    OBVIOUS
  <2>2. n - k \in Nat /\ n - (n - k) = k
    BY <2>1
  <2>3. QED
    BY <2>1, <2>2
<1>2. PICK x \in T : \A y \in T : ~(<<y, x>> \in OpToRel(<, Nat))
  <2> HIDE DEF T
  <2>1. QED
    BY <1>1, NatLessThanWellFounded, WFMin
<1>3. \A y \in T : x <= y
  <2> SUFFICES ASSUME NEW y \in T, y < x PROVE FALSE
    OBVIOUS
  <2>1. <<y, x>> \in Nat \X Nat /\ <<y, x>>[1] < <<y, x>>[2]
    BY <1>1
  <2>2. <<y, x>> \in OpToRel(<, Nat)
    BY <2>1 DEF OpToRel
  <2>3. QED
    BY <1>2, <2>2
<1>4. \A k \in S : n - x >= k
  <2> TAKE k \in S
  <2>1. n - k \in T
    OBVIOUS
  <2>2. x <= n - k
    <3> HIDE DEF T
    <3>1. QED
      BY <1>3, <2>1
  <2>3. x \in Nat /\ k \in Int
    OBVIOUS
  <2>4. QED
    BY <2>2, <2>3
<1>5. n - x \in S
  OBVIOUS
<1>6. QED
  BY <1>4, <1>5 DEF Max

LEMMA TwoIntegers ==
  ASSUME NEW a \in Int, NEW b \in Int
  PROVE  Min({a, b}) \in Int
<1>1. CASE a <= b
  BY <1>1 DEF Min
<1>2. CASE b <= a
  BY <1>2 DEF Min
<1>3. QED
  BY <1>1, <1>2

-----------------------------------------------------------------------------
(* What the operators return.                                               *)

LEMMA CostTypes ==
  /\ \A qty \in Int, price \in Int : Notional(qty, price) \in Int
  /\ \A notional \in Int : Fees(notional) \in Int
<1>1. \A qty \in Int, price \in Int : Notional(qty, price) \in Int
  BY DEF Notional
<1>2. \A notional \in Int : Fees(notional) \in Int
  BY EngineAssumption DEF Fees, Round
<1>3. QED
  BY <1>1, <1>2

LEMMA RawType ==
  ASSUME NEW kind, NEW buy, NEW level \in Int, NEW b \in Candles
  PROVE  Raw(kind, buy, level, b) \in Int
<1>1. b.open \in Int
  BY DEF Candles
<1>2. QED
  BY <1>1 DEF Raw

LEMMA PriceType ==
  ASSUME NEW kind, NEW buy, NEW raw \in Int
  PROVE  FillPrice(kind, buy, raw) \in Int
<1> DEFINE slippage == IF kind = "limit" THEN 0 ELSE SlippageBPS
<1>1. slippage \in Int /\ Tick \in Nat \ {0}
  BY EngineAssumption
<1>2. raw * (10000 + slippage) \in Int /\ raw * (10000 - slippage) \in Int
  BY <1>1
<1>3. 10000 * Tick \in Nat \ {0}
  BY <1>1
<1>4. ASSUME NEW n \in Int PROVE Tick * (n \div (10000 * Tick)) \in Int
  BY <1>1, <1>3
<1>5. QED
  BY <1>1, <1>2, <1>3, <1>4 DEF FillPrice, RoundUp

LEMMA SizeType ==
  ASSUME sizing \in Sizings, cash \in Int, NEW price \in Nat \ {0}, NEW distance \in Int
  PROVE  Size(price, distance) \in Nat
<1>1. Affordable(price) \in Int
  BY EngineAssumption DEF Affordable
<1>2. Wanted(price, distance) \in Int
  BY EngineAssumption DEF Wanted, SharesFor, Round
<1> DEFINE qty  == Min({Wanted(price, distance), Affordable(price)})
           lots == {k \in 1 .. qty \div Lot : Cost(k * Lot, price) <= cash}
<1>3. qty \in Int
  BY <1>1, <1>2, TwoIntegers
<1>4. qty \div Lot \in Int
  BY <1>3, EngineAssumption
<1>5. lots \subseteq 1 .. qty \div Lot
  OBVIOUS
<1>6. ASSUME lots # {} PROVE Max(lots) \in Nat
  <2>1. Max(lots) \in lots
    <3> HIDE DEF lots, qty
    <3>1. QED
      BY <1>4, <1>5, <1>6, LargestNatural
  <2>2. \A k \in lots : k \in Nat
    BY <1>4
  <2>3. QED
    <3> HIDE DEF lots
    <3>1. QED
      BY <2>1, <2>2
<1>7. Size(price, distance) = IF lots = {} THEN 0 ELSE Lot * Max(lots)
  BY DEF Size
<1>8. QED
  <2> HIDE DEF lots
  <2>1. QED
    BY <1>6, <1>7, EngineAssumption

LEMMA LevelTypes ==
  ASSUME NEW b \in Brackets, NEW entry \in Int
  PROVE  /\ Distance(b, entry) \in Int
         /\ \A above : LevelAt(b, entry, above) \in Int
<1>1. Distance(b, entry) \in Int
  BY DEF Brackets, Distance
<1>2. QED
  BY <1>1 DEF LevelAt

-----------------------------------------------------------------------------
(* The invariant: nothing is left in a position that is closed, and an      *)
(* entry waits for exactly one bar.                                         *)

MoneyTypes ==
  /\ pos \in Positions
  /\ cash \in Int
  /\ closed \in [pnl : Int, fees : Int, div : Int, borrow : Int, split : Int]
  /\ metrics \in [div : Int, borrow : Int, split : Int]

NothingLeftBehind ==
  ~pos.open =>
    /\ ~pos.short
    /\ pos.qty = 0 /\ pos.entryCents = 0 /\ pos.fees = 0 /\ pos.div = 0
    /\ pos.borrow = 0 /\ pos.owed = 0 /\ pos.split = 0 /\ pos.rent = 0

Accounts ==
  /\ EveryCentIsAccounted
  /\ TotalsMatchTheTrades
  /\ RentIsPaidToTheCent
  /\ NothingLeftBehind
  /\ EntriesFollowTheirSignal

EntriesWaitOneBar ==
  pending.kind = "enter" =>
    \/ phase \in {"mark", "advance"} /\ pending.decided = at
    \/ phase \in {"credit", "charge", "adjust", "fill"} /\ pending.decided + 1 = at

FlatBeforeTheLastMark ==
  /\ phase = "mark" /\ at = Length => ~pos.open /\ pending.kind # "enter"
  /\ phase = "done" => equity = Capital + closed.pnl

EngineInv == TypeOK /\ Accounts /\ EntriesWaitOneBar /\ FlatBeforeTheLastMark

LEMMA FlatFacts ==
  /\ Flat \in Positions
  /\ ~Flat.open /\ ~Flat.short /\ Flat.qty = 0 /\ Flat.entryCents = 0 /\ Flat.fees = 0
  /\ Flat.div = 0 /\ Flat.borrow = 0 /\ Flat.owed = 0 /\ Flat.split = 0 /\ Flat.rent = 0
  BY DEF Flat, Positions

(* Closing a position moves what it earned from the stake to the trades.    *)
LEMMA RecordStep ==
  ASSUME MoneyTypes, Accounts, pos.open,
         NEW gross \in Int, NEW proceeds \in Int, NEW fee \in Int, NEW splitCash \in Int,
         gross = proceeds + (IF pos.short THEN pos.entryCents ELSE -pos.entryCents),
         Record(gross, proceeds, fee, splitCash)
  PROVE  MoneyTypes' /\ Accounts' /\ ~pos'.open
<1> DEFINE rest == Round(pos.owed, RateUnit)
<1>1. rest \in Int
  BY EngineAssumption DEF Round, MoneyTypes, Positions
<1>2. /\ cash' = cash + proceeds + splitCash - fee - rest
      /\ closed'.pnl = closed.pnl + gross + pos.div + (pos.split + splitCash)
                          - (pos.borrow + rest) - pos.fees - fee
      /\ closed'.div = closed.div + pos.div
      /\ closed'.borrow = closed.borrow + (pos.borrow + rest)
      /\ closed'.split = closed.split + (pos.split + splitCash)
      /\ closed'.fees = closed.fees + pos.fees + fee
      /\ closed' = [pnl |-> closed'.pnl, fees |-> closed'.fees, div |-> closed'.div,
                    borrow |-> closed'.borrow, split |-> closed'.split]
      /\ pos' = Flat
  BY DEF Record
<1>3. /\ metrics' \in [div : Int, borrow : Int, split : Int]
      /\ metrics'.div = metrics.div
      /\ metrics'.borrow = metrics.borrow + rest
      /\ metrics'.split = metrics.split + splitCash
  <2>1. metrics' = [metrics EXCEPT !.borrow = @ + rest, !.split = @ + splitCash]
    BY DEF Record
  <2> HIDE DEF rest
  <2>2. metrics \in [div : Int, borrow : Int, split : Int]
    BY DEF MoneyTypes
  <2>3. metrics.borrow + rest \in Int /\ metrics.split + splitCash \in Int
    BY <1>1, <2>2
  <2>4. QED
    BY <2>1, <2>2, <2>3
<1> HIDE DEF rest
<1>4. MoneyTypes'
  BY <1>1, <1>2, <1>3, FlatFacts DEF MoneyTypes, Positions
<1>5. cash = Capital + closed.pnl + (IF pos.short THEN pos.entryCents ELSE -pos.entryCents)
               - pos.fees + pos.div + pos.split - pos.borrow
  BY EngineAssumption DEF Accounts, EveryCentIsAccounted, Stake, MoneyTypes, Positions
<1>6. EveryCentIsAccounted'
  <2>1. cash' = Capital + closed'.pnl
    BY <1>1, <1>2, <1>5, EngineAssumption DEF MoneyTypes, Positions
  <2>2. (Stake(pos))' = 0
    BY <1>2, FlatFacts DEF Stake
  <2>3. QED
    BY <1>4, <2>1, <2>2, EngineAssumption DEF EveryCentIsAccounted, MoneyTypes
<1>7. TotalsMatchTheTrades'
  BY <1>1, <1>2, <1>3, FlatFacts DEF TotalsMatchTheTrades, Accounts, MoneyTypes, Positions
<1>8. (RentIsPaidToTheCent /\ NothingLeftBehind /\ EntriesFollowTheirSignal)' /\ ~pos'.open
  BY <1>2, FlatFacts, EngineAssumption
     DEF RentIsPaidToTheCent, NothingLeftBehind, EntriesFollowTheirSignal
<1>9. QED
  BY <1>4, <1>6, <1>7, <1>8 DEF Accounts

LEMMA ExitStep ==
  ASSUME MoneyTypes, Accounts, pos.open,
         NEW kind, NEW level \in Int, NEW b \in Candles, NEW reason,
         Exit(kind, level, b, reason)
  PROVE  MoneyTypes' /\ Accounts' /\ ~pos'.open
<1> DEFINE buy == ClosingBuys(pos.short)
           notional == Notional(pos.qty, FillPrice(kind, buy, Raw(kind, buy, level, b)))
<1>1. FillPrice(kind, buy, Raw(kind, buy, level, b)) \in Int
  <2>1. Raw(kind, buy, level, b) \in Int
    BY RawType
  <2>2. QED
    BY <2>1, PriceType
<1>2. pos.qty \in Int /\ pos.entryCents \in Int
  BY DEF MoneyTypes, Positions
<1>3. notional \in Int
  BY <1>1, <1>2, CostTypes
<1>4. Fees(notional) \in Int
  BY <1>3, CostTypes
<1>5. CASE pos.short
  <2>1. Record(pos.entryCents - notional, -notional, Fees(notional), 0)
    BY <1>5 DEF Exit
  <2> HIDE DEF notional
  <2>2. QED
    BY <1>2, <1>3, <1>4, <1>5, <2>1, RecordStep
<1>6. CASE ~pos.short
  <2>1. Record(notional - pos.entryCents, notional, Fees(notional), 0)
    BY <1>6 DEF Exit
  <2> HIDE DEF notional
  <2>2. QED
    BY <1>2, <1>3, <1>4, <1>6, <2>1, RecordStep
<1>7. QED
  BY <1>5, <1>6

-----------------------------------------------------------------------------
(* One lemma per step that moves money; each says what the accounts say.    *)

LEMMA CreditStep ==
  ASSUME MoneyTypes, Accounts, bar \in Candles, Credit
  PROVE  MoneyTypes' /\ Accounts' /\ pos'.open = pos.open
<1> DEFINE due  == pos.qty * bar.dividend
           paid == IF pos.short THEN -due ELSE due
<1>1. pos.qty \in Nat /\ bar.dividend \in Nat
  BY DEF MoneyTypes, Positions, Candles
<1>2. due \in Nat /\ (pos.qty = 0 => due = 0)
  BY <1>1
<1>3. paid \in Int /\ (due = 0 => paid = 0)
  <2> HIDE DEF due
  <2>1. QED
    BY <1>2
<1>4. /\ cash' = cash + paid
      /\ pos' = [pos EXCEPT !.div = @ + paid]
      /\ metrics' = [metrics EXCEPT !.div = @ + paid]
      /\ closed' = closed
  BY DEF Credit
<1>5. pos.qty = 0 => paid = 0
  <2> HIDE DEF paid, due
  <2>1. QED
    BY <1>2, <1>3
<1> HIDE DEF paid, due
<1>6. MoneyTypes'
  BY <1>3, <1>4 DEF MoneyTypes, Positions
<1>7. EveryCentIsAccounted'
  BY <1>3, <1>4, <1>5, EngineAssumption
     DEF MoneyTypes, Positions, Accounts, EveryCentIsAccounted, Stake, NothingLeftBehind
<1>8. TotalsMatchTheTrades'
  BY <1>3, <1>4 DEF MoneyTypes, Positions, Accounts, TotalsMatchTheTrades
<1>9. (RentIsPaidToTheCent /\ EntriesFollowTheirSignal)' /\ pos'.open = pos.open
  BY <1>4 DEF MoneyTypes, Positions, Accounts, RentIsPaidToTheCent, EntriesFollowTheirSignal
<1>10. NothingLeftBehind'
  BY <1>3, <1>4, <1>5 DEF MoneyTypes, Positions, Accounts, NothingLeftBehind
<1>11. QED
  BY <1>6, <1>7, <1>8, <1>9, <1>10 DEF Accounts

LEMMA ChargeStep ==
  ASSUME MoneyTypes, Accounts, prev \in Nat, Charge
  PROVE  MoneyTypes' /\ Accounts' /\ pos'.open = pos.open
<1> DEFINE accrued == IF pos.open /\ pos.short THEN Notional(pos.qty, prev) * BorrowRate ELSE 0
           cents   == (pos.owed + accrued) \div RateUnit
<1>1. pos.owed \in Nat /\ pos.rent \in Nat /\ pos.borrow \in Nat
  BY DEF MoneyTypes, Positions
<1>2. accrued \in Nat /\ (~pos.open => accrued = 0)
  BY EngineAssumption DEF MoneyTypes, Positions, Notional
<1>3. RateUnit \in Nat \ {0}
  BY EngineAssumption
<1> HIDE DEF accrued
<1>4. pos.owed + accrued \in Nat
  BY <1>1, <1>2
<1>5. /\ cents \in Nat
      /\ pos.owed + accrued - cents * RateUnit \in Nat
      /\ pos.owed + accrued - cents * RateUnit < RateUnit
  <2>1. PICK n \in Nat : n = pos.owed + accrued
    BY <1>4
  <2>2. cents = n \div RateUnit
    BY <2>1
  <2> HIDE DEF cents
  <2>3. cents \in Nat /\ n - cents * RateUnit \in Nat /\ n - cents * RateUnit < RateUnit
    BY <1>3, <2>2, DivMod
  <2>4. cents * RateUnit \in Int
    BY <1>3, <2>3
  <2>5. pos.owed + accrued - cents * RateUnit = n - cents * RateUnit
    BY <1>1, <1>2, <2>1, <2>4
  <2>6. QED
    BY <2>3, <2>5
<1>6. ~pos.open => cents = 0
  <2>1. 0 \div RateUnit = 0
    BY <1>3
  <2>2. QED
    BY <1>2, <2>1 DEF Accounts, NothingLeftBehind
<1>7. /\ cash' = cash - cents
      /\ pos' = [pos EXCEPT !.owed = @ + accrued - cents * RateUnit,
                            !.rent = @ + accrued, !.borrow = @ + cents]
      /\ metrics' = [metrics EXCEPT !.borrow = @ + cents]
      /\ closed' = closed
  BY DEF Charge, accrued
<1> DEFINE left == pos.owed + accrued - cents * RateUnit
<1> HIDE DEF cents
<1>8. cents * RateUnit \in Int
  BY <1>3, <1>5
<1>9. /\ pos'.owed = left /\ pos'.rent = pos.rent + accrued /\ pos'.borrow = pos.borrow + cents
      /\ pos'.open = pos.open /\ pos'.short = pos.short /\ pos'.qty = pos.qty
      /\ pos'.entryCents = pos.entryCents /\ pos'.fees = pos.fees /\ pos'.div = pos.div
      /\ pos'.split = pos.split /\ pos'.decided = pos.decided /\ pos'.entered = pos.entered
  BY <1>7 DEF MoneyTypes, Positions
<1>10. MoneyTypes'
  <2>1. left \in Nat /\ pos.rent + accrued \in Nat /\ pos.borrow + cents \in Nat
    BY <1>1, <1>2, <1>5
  <2> HIDE DEF left
  <2>2. pos' = [pos EXCEPT !.owed = left, !.rent = pos.rent + accrued, !.borrow = pos.borrow + cents]
    BY <1>7 DEF left
  <2>3. pos' \in Positions
    BY <2>1, <2>2 DEF MoneyTypes, Positions
  <2>4. QED
    BY <1>5, <1>7, <2>3 DEF MoneyTypes
<1>11. EveryCentIsAccounted'
  BY <1>5, <1>6, <1>7, <1>9, EngineAssumption
     DEF MoneyTypes, Positions, Accounts, EveryCentIsAccounted, Stake
<1>12. TotalsMatchTheTrades'
  BY <1>5, <1>7, <1>9 DEF MoneyTypes, Positions, Accounts, TotalsMatchTheTrades
<1>13. RentIsPaidToTheCent'
  <2>1. RateUnit * (pos.borrow + cents) = RateUnit * pos.borrow + cents * RateUnit
    BY <1>1, <1>3, <1>5
  <2>2. RateUnit * pos.borrow \in Int
    BY <1>1, <1>3
  <2>3. pos.rent = RateUnit * pos.borrow + pos.owed
    BY DEF Accounts, RentIsPaidToTheCent
  <2>4. pos.rent + accrued = RateUnit * (pos.borrow + cents) + left
    BY <1>1, <1>2, <1>8, <2>1, <2>2, <2>3
  <2>5. QED
    BY <1>5, <1>9, <2>4 DEF RentIsPaidToTheCent
<1>14. EntriesFollowTheirSignal'
  BY <1>9 DEF Accounts, EntriesFollowTheirSignal
<1>15. NothingLeftBehind'
  <2>1. ~pos.open => cents * RateUnit = 0
    BY <1>3, <1>6
  <2>2. ~pos.open => left = 0 /\ pos.rent + accrued = 0 /\ pos.borrow + cents = 0
    BY <1>1, <1>2, <1>6, <2>1 DEF Accounts, NothingLeftBehind
  <2> HIDE DEF left
  <2>3. QED
    BY <1>9, <2>2 DEF Accounts, NothingLeftBehind
<1>16. QED
  BY <1>9, <1>10, <1>11, <1>12, <1>13, <1>14, <1>15 DEF Accounts

(* A split moves no money but what is paid for the fraction of a share it   *)
(* leaves.                                                                  *)
LEMMA AdjustStep ==
  ASSUME MoneyTypes, Accounts, bar \in Candles, splits \in Nat, Adjust
  PROVE  MoneyTypes' /\ Accounts' /\ splits' \in Nat
<1>1. CASE UNCHANGED <<cash, metrics, pos, closed>>
  <2>1. MoneyTypes' /\ Accounts'
    BY <1>1 DEF MoneyTypes, Accounts, EveryCentIsAccounted, TotalsMatchTheTrades, Stake,
                RentIsPaidToTheCent, NothingLeftBehind, EntriesFollowTheirSignal
  <2>2. QED
    BY <2>1 DEF Adjust
<1> DEFINE held == pos.qty * bar.split.num
           qty    == held \div bar.split.den
           cents  == Round((held % bar.split.den) * bar.open, bar.split.den)
           paid   == IF pos.short THEN -cents ELSE cents
<1>2. /\ pos.qty \in Nat /\ bar.open \in Nat
      /\ bar.split.num \in Nat \ {0} /\ bar.split.den \in Nat \ {0}
  BY DEF MoneyTypes, Positions, Candles
<1>3. held \in Nat
  BY <1>2
<1>4. qty \in Nat /\ held % bar.split.den \in Nat
  <2> HIDE DEF held
  <2>1. QED
    BY <1>2, <1>3
<1>5. cents \in Int
  <2> DEFINE fraction == held % bar.split.den
  <2>1. fraction * bar.open \in Nat
    <3> HIDE DEF held
    <3> HIDE DEF fraction
    <3>1. fraction \in Nat
      BY <1>4 DEF fraction
    <3>2. QED
      BY <1>2, <3>1
  <2> DEFINE worth == fraction * bar.open
  <2>2. worth \in Nat
    BY <2>1
  <2> HIDE DEF worth
  <2>3. Round(worth, bar.split.den) \in Int
    BY <1>2, <2>2 DEF Round
  <2>4. QED
    BY <2>3 DEF worth
<1> HIDE DEF held, cents
<1>6. paid \in Int
  BY <1>5
<1> HIDE DEF qty, paid
<1>7. ASSUME pos.open, SettleSplit(paid)
      PROVE  MoneyTypes' /\ Accounts'
  <2> DEFINE gross == IF pos.short THEN pos.entryCents ELSE -pos.entryCents
  <2>1. gross \in Int /\ gross = 0 + (IF pos.short THEN pos.entryCents ELSE -pos.entryCents)
    BY DEF MoneyTypes, Positions
  <2>2. Record(gross, 0, 0, paid)
    BY <1>7 DEF SettleSplit
  <2> HIDE DEF gross
  <2>3. QED
    BY <1>6, <1>7, <2>1, <2>2, RecordStep
<1>8. ASSUME pos.open, CarrySplit(qty, paid)
      PROVE  MoneyTypes' /\ Accounts'
  <2>1. /\ cash' = cash + paid
        /\ metrics' = [metrics EXCEPT !.split = @ + paid]
        /\ closed' = closed
    BY <1>8 DEF CarrySplit
  <2>2. Moved(pos.stop, bar.split) \in Int /\ Moved(pos.target, bar.split) \in Int
    BY <1>2 DEF Moved, MoneyTypes, Positions
  <2> DEFINE stop == Moved(pos.stop, bar.split)
             target == Moved(pos.target, bar.split)
  <2>3. pos' = [pos EXCEPT !.qty = qty, !.split = @ + paid, !.stop = stop, !.target = target,
                           !.quoted = splits + 1]
    BY <1>8 DEF CarrySplit, MoneyTypes, Positions
  <2>4. stop \in Int /\ target \in Int
    BY <2>2
  <2> HIDE DEF stop, target
  <2>5. /\ pos'.split = pos.split + paid
        /\ pos'.open /\ pos'.short = pos.short
        /\ pos'.entryCents = pos.entryCents /\ pos'.fees = pos.fees /\ pos'.div = pos.div
        /\ pos'.borrow = pos.borrow /\ pos'.owed = pos.owed /\ pos'.rent = pos.rent
        /\ pos'.decided = pos.decided /\ pos'.entered = pos.entered
    BY <1>8, <2>3 DEF MoneyTypes, Positions
  <2>10. pos' \in Positions
    <3>1. pos.split + paid \in Int /\ splits + 1 \in Nat
      BY <1>6 DEF MoneyTypes, Positions
    <3>2. pos \in Positions
      BY DEF MoneyTypes
    <3>3. QED
      BY <1>4, <2>3, <2>4, <3>1, <3>2 DEF Positions
  <2>6. MoneyTypes'
    BY <1>6, <2>1, <2>10 DEF MoneyTypes
  <2>7. EveryCentIsAccounted'
    BY <1>6, <1>8, <2>1, <2>5, EngineAssumption
       DEF MoneyTypes, Positions, Accounts, EveryCentIsAccounted, Stake
  <2>8. TotalsMatchTheTrades'
    BY <1>6, <2>1, <2>5 DEF MoneyTypes, Positions, Accounts, TotalsMatchTheTrades
  <2>9. RentIsPaidToTheCent'
    BY <2>5 DEF Accounts, RentIsPaidToTheCent
  <2>11. (EntriesFollowTheirSignal /\ NothingLeftBehind)'
    BY <1>8, <2>5 DEF Accounts, EntriesFollowTheirSignal, NothingLeftBehind
  <2>12. QED
    BY <2>6, <2>7, <2>8, <2>9, <2>11 DEF Accounts
<1>9. splits' \in Nat
  BY DEF Adjust
<1>10. \/ UNCHANGED <<cash, metrics, pos, closed>>
       \/ pos.open /\ SettleSplit(paid)
       \/ pos.open /\ CarrySplit(qty, paid)
  BY DEF Adjust, held, qty, cents, paid
<1>11. QED
  BY <1>1, <1>7, <1>8, <1>9, <1>10

(* An entry the account pays for, with nothing of an earlier position in it.*)
LEMMA OpenStep ==
  ASSUME TypeOK, MoneyTypes, Accounts, ~pos.open, NEW want,
         want.short \in BOOLEAN, want.stop \in Brackets, want.target \in Brackets,
         want.decided \in Nat, want.quoted \in Nat, want.decided + 1 = at,
         Open(want), UNCHANGED <<closed, metrics>>
  PROVE  MoneyTypes' /\ Accounts'
<1> DEFINE buy      == ~want.short
           price    == FillPrice("market", buy, bar.open)
           qty      == IF price <= 0 THEN 0 ELSE Size(price, Distance(want.stop, price))
           notional == Notional(qty, price)
           fee      == Fees(notional)
           stop     == LevelAt(want.stop, price, want.short)
           target   == LevelAt(want.target, price, ~want.short)
           quoted   == IF want.stop.kind = "atr" THEN want.quoted ELSE splits
<1>1. CASE UNCHANGED <<cash, pos>>
  BY <1>1 DEF MoneyTypes, Accounts, EveryCentIsAccounted, TotalsMatchTheTrades, Stake,
              RentIsPaidToTheCent, NothingLeftBehind, EntriesFollowTheirSignal
<1>2. bar.open \in Int /\ sizing \in Sizings /\ cash \in Int /\ at \in Nat /\ splits \in Nat
  BY EngineAssumption DEF TypeOK, Candles
<1>3. price \in Int
  <2> HIDE DEF buy
  <2>1. QED
    BY <1>2, PriceType DEF price
<1> HIDE DEF price
<1>4. Distance(want.stop, price) \in Int /\ stop \in Int /\ target \in Int
  BY <1>3, LevelTypes
<1>5. qty \in Nat
  <2>1. CASE price <= 0
    BY <2>1
  <2>2. CASE price \in Nat \ {0}
    <3> DEFINE distance == Distance(want.stop, price)
    <3>1. distance \in Int
      BY <1>4
    <3> HIDE DEF distance
    <3>2. Size(price, distance) \in Nat
      BY <1>2, <2>2, <3>1, SizeType
    <3>3. QED
      BY <1>3, <2>2, <3>2 DEF distance
  <2>3. QED
    BY <1>3, <2>1, <2>2
<1> HIDE DEF qty
<1>6. notional \in Int /\ fee \in Int
  <2>1. notional \in Int
    BY <1>3, <1>5, CostTypes
  <2> HIDE DEF notional
  <2>2. fee \in Int
    BY <2>1, CostTypes
  <2>3. QED
    BY <2>1, <2>2
<1>7. quoted \in Nat
  BY <1>2
<1>8. \/ UNCHANGED <<cash, pos>>
      \/ /\ cash' = (IF want.short THEN cash + notional ELSE cash - notional) - fee
         /\ pos' = [Flat EXCEPT !.open = TRUE, !.short = want.short, !.qty = qty,
                                !.entryCents = notional, !.fees = fee,
                                !.stop = stop, !.target = target,
                                !.decided = want.decided, !.entered = at, !.quoted = quoted]
  BY DEF Open, price, qty
<1> HIDE DEF notional, fee, stop, target, quoted
<1>9. CASE /\ cash' = (IF want.short THEN cash + notional ELSE cash - notional) - fee
           /\ pos' = [Flat EXCEPT !.open = TRUE, !.short = want.short, !.qty = qty,
                                  !.entryCents = notional, !.fees = fee,
                                  !.stop = stop, !.target = target,
                                  !.decided = want.decided, !.entered = at, !.quoted = quoted]
  <2>1. /\ pos'.open /\ pos'.short = want.short /\ pos'.entryCents = notional
        /\ pos'.fees = fee /\ pos'.div = 0 /\ pos'.borrow = 0 /\ pos'.owed = 0
        /\ pos'.split = 0 /\ pos'.rent = 0
        /\ pos'.decided = want.decided /\ pos'.entered = at
    BY <1>9 DEF Flat
  <2>2. pos' \in Positions
    <3>1. Flat \in Positions
      BY FlatFacts
    <3>2. QED
      BY <1>2, <1>4, <1>5, <1>6, <1>7, <1>9, <3>1 DEF Positions
  <2>3. cash = Capital + closed.pnl /\ closed.pnl \in Int
    BY EngineAssumption DEF Accounts, EveryCentIsAccounted, Stake, MoneyTypes
  <2>4. cash' \in Int
    BY <1>2, <1>6, <1>9
  <2>5. MoneyTypes'
    BY <2>2, <2>4 DEF MoneyTypes
  <2>6. EveryCentIsAccounted'
    BY <1>6, <1>9, <2>1, <2>3, EngineAssumption DEF EveryCentIsAccounted, Stake
  <2>7. TotalsMatchTheTrades'
    BY <2>1 DEF Accounts, MoneyTypes, Positions, TotalsMatchTheTrades, NothingLeftBehind
  <2>8. (RentIsPaidToTheCent /\ NothingLeftBehind /\ EntriesFollowTheirSignal)'
    BY <2>1, EngineAssumption
       DEF RentIsPaidToTheCent, NothingLeftBehind, EntriesFollowTheirSignal
  <2>9. QED
    BY <2>5, <2>6, <2>7, <2>8 DEF Accounts
<1>10. QED
  BY <1>1, <1>8, <1>9

(* The accounts do not care about what the other variables say.             *)
LEMMA NoMoneyStep ==
  ASSUME MoneyTypes, Accounts, UNCHANGED <<cash, pos, closed, metrics>>
  PROVE  MoneyTypes' /\ Accounts'
  BY DEF MoneyTypes, Accounts, EveryCentIsAccounted, TotalsMatchTheTrades, Stake,
         RentIsPaidToTheCent, NothingLeftBehind, EntriesFollowTheirSignal

LEMMA FillStep ==
  ASSUME TypeOK, Accounts, EntriesWaitOneBar, Fill
  PROVE  MoneyTypes' /\ Accounts'
<1>1. MoneyTypes /\ bar \in Candles
  BY DEF TypeOK, MoneyTypes
<1>2. CASE pending.kind = "enter" /\ ~pos.open
  <2>1. Open(pending) /\ UNCHANGED <<closed, metrics>>
    BY <1>2 DEF Fill
  <2>2. pending \in [kind : {"enter"}, short : BOOLEAN, stop : Brackets, target : Brackets,
                     decided : Nat, quoted : Nat]
    BY <1>2 DEF TypeOK, Orders, Nothing, Leave
  <2>3. pending.decided + 1 = at
    BY <1>2 DEF EntriesWaitOneBar, Fill
  <2>4. QED
    BY <1>1, <1>2, <2>1, <2>2, <2>3, OpenStep
<1>3. CASE pending.kind = "exit" /\ pos.open
  <2>1. Exit("market", 0, bar, "signal")
    BY <1>3 DEF Fill
  <2>2. QED
    BY <1>1, <1>3, <2>1, ExitStep
<1>4. CASE UNCHANGED <<cash, pos, closed, metrics>>
  BY <1>1, <1>4, NoMoneyStep
<1>5. QED
  BY <1>2, <1>3, <1>4 DEF Fill

LEMMA CheckBracketsStep ==
  ASSUME TypeOK, Accounts, CheckBrackets
  PROVE  MoneyTypes' /\ Accounts'
<1>1. MoneyTypes /\ bar \in Candles /\ pos.stop \in Int /\ pos.target \in Int
  BY DEF TypeOK, MoneyTypes, Positions
<1>2. CASE pos.open /\ Exit("stop", pos.stop, bar, "stop")
  BY <1>1, <1>2, ExitStep
<1>3. CASE pos.open /\ Exit("limit", pos.target, bar, "target")
  BY <1>1, <1>3, ExitStep
<1>4. CASE UNCHANGED <<cash, pos, closed, metrics>>
  BY <1>1, <1>4, NoMoneyStep
<1>5. QED
  BY <1>2, <1>3, <1>4 DEF CheckBrackets, StopHit, TargetHit

LEMMA CloseOutStep ==
  ASSUME TypeOK, Accounts, CloseOut
  PROVE  MoneyTypes' /\ Accounts' /\ ~pos'.open
<1>1. MoneyTypes
  BY DEF TypeOK, MoneyTypes
<1>2. CloseOf(bar) \in Candles
  BY DEF TypeOK, CloseOf, Candles
<1>3. CASE pos.open
  <2>1. Exit("market", 0, CloseOf(bar), "end_of_run")
    BY <1>3 DEF CloseOut
  <2>2. QED
    BY <1>1, <1>2, <1>3, <2>1, ExitStep
<1>4. CASE ~pos.open
  <2>1. UNCHANGED <<cash, pos, closed, metrics>>
    BY <1>4 DEF CloseOut
  <2>2. QED
    BY <1>1, <1>4, <2>1, NoMoneyStep
<1>5. QED
  BY <1>3, <1>4

-----------------------------------------------------------------------------
(* The invariant.                                                           *)

LEMMA StartsWell == Init => EngineInv
<1> SUFFICES ASSUME Init PROVE EngineInv
  OBVIOUS
<1>1. pos = Flat /\ Flat \in Positions
  BY FlatFacts DEF Init
<1>2. TypeOK
  BY <1>1, EngineAssumption DEF Init, TypeOK, Candles, NoSplit, Orders
<1>3. Accounts
  BY <1>1, FlatFacts, EngineAssumption
     DEF Init, Accounts, EveryCentIsAccounted, TotalsMatchTheTrades, Stake,
         RentIsPaidToTheCent, NothingLeftBehind, EntriesFollowTheirSignal
<1>4. EntriesWaitOneBar /\ FlatBeforeTheLastMark
  BY EngineAssumption DEF Init, EntriesWaitOneBar, FlatBeforeTheLastMark, Nothing
<1>5. QED
  BY <1>2, <1>3, <1>4 DEF EngineInv

LEMMA StepsKeepIt == EngineInv /\ [Next]_vars => EngineInv'
<1> SUFFICES ASSUME EngineInv, [Next]_vars PROVE EngineInv'
  OBVIOUS
<1>1. TypeOK /\ Accounts /\ EntriesWaitOneBar /\ FlatBeforeTheLastMark
  BY DEF EngineInv
<1>2. MoneyTypes /\ bar \in Candles /\ prev \in Nat /\ splits \in Nat /\ at \in Nat /\ Length \in Nat
  BY <1>1, EngineAssumption DEF TypeOK, MoneyTypes
<1>3. (~pos.open => pos.qty = 0) /\ pos.qty \in Nat /\ bar.close \in Nat
  BY <1>1, <1>2 DEF Accounts, NothingLeftBehind, MoneyTypes, Positions, Candles
<1>4. CASE Advance
  <2>1. MoneyTypes' /\ Accounts'
    BY <1>1, <1>2, <1>4, NoMoneyStep DEF Advance
  <2>2. TypeOK'
    <3>1. at' \in 0 .. Length /\ bar' \in Candles /\ prev' \in Nat
      BY <1>1, <1>2, <1>3, <1>4, EngineAssumption DEF Advance
    <3>2. QED
      BY <1>1, <1>4, <3>1 DEF TypeOK, Advance, Goto
  <2>3. (EntriesWaitOneBar /\ FlatBeforeTheLastMark)'
    BY <1>1, <1>2, <1>4 DEF Advance, Goto, EntriesWaitOneBar, FlatBeforeTheLastMark
  <2>4. QED
    BY <2>1, <2>2, <2>3 DEF EngineInv
<1>5. CASE Credit
  <2>1. MoneyTypes' /\ Accounts'
    BY <1>1, <1>2, <1>5, CreditStep
  <2>2. TypeOK'
    BY <1>1, <1>5, <2>1 DEF TypeOK, MoneyTypes, Credit, Goto
  <2>3. (EntriesWaitOneBar /\ FlatBeforeTheLastMark)'
    BY <1>1, <1>5 DEF Credit, Goto, EntriesWaitOneBar, FlatBeforeTheLastMark
  <2>4. QED
    BY <2>1, <2>2, <2>3 DEF EngineInv
<1>6. CASE Charge
  <2>1. MoneyTypes' /\ Accounts'
    BY <1>1, <1>2, <1>6, ChargeStep
  <2>2. TypeOK'
    BY <1>1, <1>6, <2>1 DEF TypeOK, MoneyTypes, Charge, Goto
  <2>3. (EntriesWaitOneBar /\ FlatBeforeTheLastMark)'
    BY <1>1, <1>6 DEF Charge, Goto, EntriesWaitOneBar, FlatBeforeTheLastMark
  <2>4. QED
    BY <2>1, <2>2, <2>3 DEF EngineInv
<1>7. CASE Adjust
  <2>1. MoneyTypes' /\ Accounts' /\ splits' \in Nat
    BY <1>1, <1>2, <1>7, AdjustStep
  <2>2. TypeOK'
    BY <1>1, <1>7, <2>1 DEF TypeOK, MoneyTypes, Adjust, Goto
  <2>3. (EntriesWaitOneBar /\ FlatBeforeTheLastMark)'
    BY <1>1, <1>7 DEF Adjust, Goto, EntriesWaitOneBar, FlatBeforeTheLastMark
  <2>4. QED
    BY <2>1, <2>2, <2>3 DEF EngineInv
<1>8. CASE Fill
  <2>1. MoneyTypes' /\ Accounts'
    BY <1>1, <1>8, FillStep
  <2>2. TypeOK'
    BY <1>1, <1>8, <2>1 DEF TypeOK, MoneyTypes, Fill, Goto, Orders
  <2>3. (EntriesWaitOneBar /\ FlatBeforeTheLastMark)'
    BY <1>1, <1>8 DEF Fill, Goto, EntriesWaitOneBar, FlatBeforeTheLastMark, Nothing
  <2>4. QED
    BY <2>1, <2>2, <2>3 DEF EngineInv
<1>9. CASE CheckBrackets
  <2>1. MoneyTypes' /\ Accounts'
    BY <1>1, <1>9, CheckBracketsStep
  <2>2. TypeOK'
    BY <1>1, <1>9, <2>1 DEF TypeOK, MoneyTypes, CheckBrackets, Goto
  <2>3. (EntriesWaitOneBar /\ FlatBeforeTheLastMark)'
    BY <1>1, <1>9 DEF CheckBrackets, Goto, EntriesWaitOneBar, FlatBeforeTheLastMark
  <2>4. QED
    BY <2>1, <2>2, <2>3 DEF EngineInv
<1>10. CASE CloseOut
  <2>1. MoneyTypes' /\ Accounts' /\ ~pos'.open
    BY <1>1, <1>10, CloseOutStep
  <2>2. TypeOK'
    BY <1>1, <1>10, <2>1 DEF TypeOK, MoneyTypes, CloseOut, Goto, Orders
  <2>3. (EntriesWaitOneBar /\ FlatBeforeTheLastMark)'
    BY <1>10, <2>1 DEF CloseOut, Goto, EntriesWaitOneBar, FlatBeforeTheLastMark, Nothing
  <2>4. QED
    BY <2>1, <2>2, <2>3 DEF EngineInv
<1>11. CASE Signal
  <2>1. MoneyTypes' /\ Accounts'
    BY <1>1, <1>2, <1>11, NoMoneyStep DEF Signal
  <2>2. pending' \in Orders
    BY <1>2, <1>11, EngineAssumption DEF Signal, Orders, Enter
  <2>3. TypeOK'
    BY <1>1, <1>11, <2>2 DEF TypeOK, Signal, Goto
  <2>4. (EntriesWaitOneBar /\ FlatBeforeTheLastMark)'
    BY <1>2, <1>11 DEF Signal, Goto, EntriesWaitOneBar, FlatBeforeTheLastMark,
                       Nothing, Leave, Enter
  <2>5. QED
    BY <2>1, <2>3, <2>4 DEF EngineInv
<1>12. CASE Mark
  <2>1. MoneyTypes' /\ Accounts'
    BY <1>1, <1>2, <1>12, NoMoneyStep DEF Mark
  <2>2. equity' \in Int
    BY <1>2, <1>3, <1>12 DEF Mark, Notional, MoneyTypes
  <2>3. TypeOK'
    BY <1>1, <1>12, <2>2 DEF TypeOK, Mark, Goto
  <2>4. EntriesWaitOneBar'
    BY <1>1, <1>12 DEF Mark, Goto, EntriesWaitOneBar, FlatBeforeTheLastMark
  <2>5. FlatBeforeTheLastMark'
    <3>1. phase' = "done" => at = Length /\ ~pos.open
      BY <1>1, <1>12 DEF Mark, Goto, FlatBeforeTheLastMark
    <3>2. ~pos.open => equity' = cash
      BY <1>2, <1>3, <1>12 DEF Mark, Notional, MoneyTypes, Accounts
    <3>3. ~pos.open => cash = Capital + closed.pnl
      BY <1>1, <1>2, EngineAssumption
         DEF Accounts, EveryCentIsAccounted, Stake, MoneyTypes
    <3>4. phase' # "mark" /\ closed' = closed
      BY <1>12 DEF Mark, Goto
    <3>5. QED
      BY <3>1, <3>2, <3>3, <3>4 DEF FlatBeforeTheLastMark
  <2>6. QED
    BY <2>1, <2>3, <2>4, <2>5 DEF EngineInv
<1>13. CASE UNCHANGED vars
  BY <1>1, <1>13
     DEF vars, EngineInv, TypeOK, Accounts, EveryCentIsAccounted, TotalsMatchTheTrades, Stake,
         RentIsPaidToTheCent, NothingLeftBehind, EntriesFollowTheirSignal,
         EntriesWaitOneBar, FlatBeforeTheLastMark
<1>14. QED
  BY <1>4, <1>5, <1>6, <1>7, <1>8, <1>9, <1>10, <1>11, <1>12, <1>13 DEF Next

LEMMA EngineInvariant == Spec => []EngineInv
  BY StartsWell, StepsKeepIt, PTL DEF Spec

(* Types, for every market, spec and cost.                                  *)
THEOREM EngineTypes == Spec => []TypeOK
<1>1. EngineInv => TypeOK
  BY DEF EngineInv
<1>2. QED
  BY <1>1, EngineInvariant, PTL

(* Whatever the candles, corporate actions, orders and costs, cash is the   *)
(* capital, what the trades of the report made and what the open position   *)
(* moved: credit, charge, adjust, fill, exit and record neither lose a cent *)
(* nor count one twice.                                                     *)
THEOREM CentsAreAccounted == Spec => []EveryCentIsAccounted
<1>1. EngineInv => EveryCentIsAccounted
  BY DEF EngineInv, Accounts
<1>2. QED
  BY <1>1, EngineInvariant, PTL

(* The dividends, rent and split cash of the report are those of its trades.*)
THEOREM TotalsAgree == Spec => []TotalsMatchTheTrades
<1>1. EngineInv => TotalsMatchTheTrades
  BY DEF EngineInv, Accounts
<1>2. QED
  BY <1>1, EngineInvariant, PTL

(* Rent in whole cents is never more than a cent behind the rent run up,    *)
(* over any number of bars, nor ahead of it.                                *)
THEOREM RentIsPaid == Spec => []RentIsPaidToTheCent
<1>1. EngineInv => RentIsPaidToTheCent
  BY DEF EngineInv, Accounts
<1>2. QED
  BY <1>1, EngineInvariant, PTL

(* No position is entered on the bar whose close decided it, or later than  *)
(* the next one.                                                            *)
THEOREM EntriesFollow == Spec => []EntriesFollowTheirSignal
<1>1. EngineInv => EntriesFollowTheirSignal
  BY DEF EngineInv, Accounts
<1>2. QED
  BY <1>1, EngineInvariant, PTL

(* The equity curve of a finished run ends at the capital plus its trades.  *)
THEOREM CurveEnds == Spec => []CurveEndsWhereTheTradesDo
<1>1. EngineInv => CurveEndsWhereTheTradesDo
  BY DEF EngineInv, FlatBeforeTheLastMark, CurveEndsWhereTheTradesDo
<1>2. QED
  BY <1>1, EngineInvariant, PTL

(* The three together: however long the run, however its orders, corporate  *)
(* actions and costs interleave, the books balance.                         *)
THEOREM BooksBalanceAlways == Spec => []BooksBalance
  BY CentsAreAccounted, TotalsAgree, CurveEnds, PTL DEF BooksBalance

-----------------------------------------------------------------------------
(* Prices: where an order is filled, and on which side of the open position *)
(* its brackets are.                                                        *)

(* a is the multiple of the tick at or below m ten-thousandths of a cent.   *)
IsTicks(a, m, tick, d) == a = tick * (m \div d)

LEMMA TickQuotient ==
  ASSUME NEW m \in Int, NEW tick \in Nat \ {0}, NEW d, d = 10000 * tick,
         NEW a, IsTicks(a, m, tick, d)
  PROVE  a \in Int /\ 10000 * a <= m /\ m < 10000 * a + d
<1>1. d \in Nat \ {0}
  OBVIOUS
<1>2. PICK q \in Int : q = m \div d /\ q * d <= m /\ m < q * d + d
  <2>1. m \div d \in Int /\ (m \div d) * d <= m /\ m < (m \div d) * d + d
    BY <1>1
  <2>2. QED
    BY <2>1
<1>3. a = tick * q /\ a \in Int
  BY <1>2 DEF IsTicks
<1>4. q * d = 10000 * a
  BY <1>3
<1>5. QED
  BY <1>2, <1>3, <1>4

(* A limit is rounded to the tick by less than one.                         *)
LEMMA LimitPrices ==
  ASSUME NEW raw \in Int
  PROVE  /\ FillPrice("limit", TRUE, raw) < raw + Tick
         /\ FillPrice("limit", FALSE, raw) > raw - Tick
<1>1. PICK tick \in Nat \ {0} : tick = Tick
  BY EngineAssumption
<1>2. PICK d \in Nat \ {0} : d = 10000 * tick
  BY <1>1
<1>3. PICK n \in Int : n = raw * 10000
  OBVIOUS
<1>4. PICK m \in Int : m = n + d - 1
  OBVIOUS
<1>5. PICK a : a = FillPrice("limit", TRUE, raw)
  OBVIOUS
<1>6. PICK b : b = FillPrice("limit", FALSE, raw)
  OBVIOUS
<1>7. IsTicks(a, m, tick, d)
  BY <1>1, <1>2, <1>3, <1>4, <1>5 DEF FillPrice, RoundUp, IsTicks
<1>8. IsTicks(b, n, tick, d)
  BY <1>1, <1>2, <1>3, <1>6 DEF FillPrice, IsTicks
<1>9. a \in Int /\ 10000 * a <= m
  BY <1>2, <1>7, TickQuotient
<1>10. b \in Int /\ n < 10000 * b + d
  BY <1>2, <1>8, TickQuotient
<1>11. a < raw + tick
  BY ONLY raw \in Int, tick \in Nat, <1>2, <1>3, <1>4, <1>9
<1>12. b > raw - tick
  BY ONLY raw \in Int, tick \in Nat, <1>2, <1>3, <1>10
<1>13. QED
  BY <1>1, <1>5, <1>6, <1>11, <1>12

(* A candle whose four prices are in order.                                 *)
Sound(b) == /\ b.low \in Int /\ b.high \in Int /\ b.open \in Int
            /\ b.low <= b.open /\ b.open <= b.high

(* What an order that is met gets before slippage is a price of the bar; a  *)
(* limit gets its level or better, a stop its level or worse.               *)
LEMMA RawIsInside ==
  ASSUME NEW kind \in {"market", "limit", "stop"}, NEW buy \in BOOLEAN, NEW level \in Int,
         NEW b, Sound(b), Met(kind, buy, level, b),
         NEW raw, raw = Raw(kind, buy, level, b)
  PROVE  /\ raw \in Int /\ b.low <= raw /\ raw <= b.high
         /\ kind = "limit" => IF buy THEN raw <= level ELSE raw >= level
         /\ kind = "stop" => IF buy THEN raw >= level ELSE raw <= level
<1>1. CASE kind = "market"
  BY <1>1 DEF Raw, Sound
<1>2. CASE kind = "limit" /\ buy
  <2>1. raw = IF b.open < level THEN b.open ELSE level
    BY <1>2 DEF Raw
  <2>2. b.low <= level
    BY <1>2 DEF Met
  <2>3. raw \in Int /\ b.low <= raw /\ raw <= b.high /\ raw <= level
    BY <2>1, <2>2 DEF Sound
  <2>4. QED
    BY <1>2, <2>3
<1>3. CASE kind = "limit" /\ ~buy
  BY <1>3 DEF Raw, Met, Sound
<1>4. CASE kind = "stop" /\ buy
  BY <1>4 DEF Raw, Met, Sound
<1>5. CASE kind = "stop" /\ ~buy
  BY <1>5 DEF Raw, Met, Sound
<1>6. QED
  BY <1>1, <1>2, <1>3, <1>4, <1>5

-----------------------------------------------------------------------------
(* The invariant of prices.                                                 *)

(* The stop of an open position is on the side where it loses.              *)
LevelsInOrder ==
  pos.open /\ pos.stop > 0 /\ pos.target > 0 =>
    IF pos.short THEN pos.target <= pos.stop ELSE pos.stop <= pos.target

BarsAreSeen ==
  /\ at > 0 => bar \in Bars
  /\ phase # "advance" => at > 0
  /\ last.bar \in Nat /\ last.bar <= at

FillInv == BarsAreSeen /\ LevelsInOrder /\ FillsHappenInsideTheirBar

LEMMA BarsAreSound ==
  ASSUME NEW b \in Bars
  PROVE  Sound(b) /\ Sound(CloseOf(b)) /\ b.open > 0 /\ CloseOf(b).low = b.close
         /\ CloseOf(b).high = b.close /\ b.low <= b.close /\ b.close <= b.high
<1>1. b \in Candles /\ b.low <= b.open /\ b.low <= b.close /\ b.open <= b.high /\ b.close <= b.high
      /\ 0 < b.low
  BY EngineAssumption
<1>2. b.low \in Nat /\ b.high \in Nat /\ b.open \in Nat /\ b.close \in Nat
  BY <1>1 DEF Candles
<1>3. /\ CloseOf(b).open = b.close /\ CloseOf(b).high = b.close /\ CloseOf(b).low = b.close
  BY <1>1 DEF CloseOf, Candles
<1>4. QED
  BY <1>1, <1>2, <1>3 DEF Sound

(* An exit leaves no position, and a fill inside the bar.                   *)
LEMMA ExitFills ==
  ASSUME EngineInv, BarsAreSeen, at > 0,
         NEW kind \in {"market", "limit", "stop"}, NEW level \in Int, NEW reason,
         NEW b \in {bar, CloseOf(bar)}, Met(kind, ClosingBuys(pos.short), level, b),
         Exit(kind, level, b, reason), UNCHANGED <<at, bar>>
  PROVE  /\ pos' = Flat
         /\ last'.bar = at /\ FillsHappenInsideTheirBar'
         /\ kind = "stop" => IF pos.short THEN last'.raw >= level ELSE last'.raw <= level
<1>1. bar \in Bars /\ pos.short \in BOOLEAN /\ at \in Nat
  BY EngineAssumption DEF BarsAreSeen, EngineInv, TypeOK, Positions
<1>2. PICK buy \in BOOLEAN : buy = ClosingBuys(pos.short)
  BY <1>1 DEF ClosingBuys
<1>3. Sound(b) /\ bar.low <= b.low /\ b.high <= bar.high /\ bar.low \in Int /\ bar.high \in Int
      /\ b.low \in Int /\ b.high \in Int
  <2>1. Sound(bar) /\ Sound(CloseOf(bar))
        /\ CloseOf(bar).low = bar.close /\ CloseOf(bar).high = bar.close
        /\ bar.low <= bar.close /\ bar.close <= bar.high
    BY <1>1, BarsAreSound
  <2>2. CASE b = bar
    BY <2>1, <2>2 DEF Sound
  <2>3. CASE b = CloseOf(bar)
    BY <2>1, <2>3 DEF Sound
  <2>4. QED
    BY <2>2, <2>3
<1>4. PICK raw : raw = Raw(kind, buy, level, b)
  OBVIOUS
<1>5. /\ raw \in Int /\ b.low <= raw /\ raw <= b.high
      /\ kind = "limit" => IF buy THEN raw <= level ELSE raw >= level
      /\ kind = "stop" => IF buy THEN raw >= level ELSE raw <= level
  <2>1. PICK c : c = b
    OBVIOUS
  <2>2. Sound(c) /\ Met(kind, buy, level, c) /\ raw = Raw(kind, buy, level, c)
    BY <1>2, <1>3, <1>4, <2>1
  <2>3. /\ raw \in Int /\ c.low <= raw /\ raw <= c.high
        /\ kind = "limit" => IF buy THEN raw <= level ELSE raw >= level
        /\ kind = "stop" => IF buy THEN raw >= level ELSE raw <= level
    BY <2>2, RawIsInside
  <2>4. QED
    BY <2>1, <2>3
<1>6. PICK price : price = FillPrice(kind, buy, raw)
  OBVIOUS
<1>7. last' = [reason |-> reason, buy |-> buy, kind |-> kind, level |-> level,
               raw |-> raw, price |-> price, bar |-> at]
  BY <1>2, <1>4, <1>6 DEF Exit
<1>8. /\ last'.bar = at /\ last'.raw = raw /\ last'.kind = kind /\ last'.buy = buy
      /\ last'.level = level /\ last'.price = price
  BY <1>7
<1>9. kind = "limit" => IF buy THEN price < level + Tick ELSE price > level - Tick
  <2> SUFFICES ASSUME kind = "limit"
               PROVE  IF buy THEN price < level + Tick ELSE price > level - Tick
    OBVIOUS
  <2>1. FillPrice("limit", TRUE, raw) < raw + Tick /\ FillPrice("limit", FALSE, raw) > raw - Tick
    BY <1>5, LimitPrices
  <2>2. price \in Int /\ Tick \in Int
    BY <1>5, <1>6, PriceType, EngineAssumption
  <2>3. CASE buy
    <3>1. price < raw + Tick /\ raw <= level
      BY <1>5, <1>6, <2>1, <2>3
    <3>2. QED
      BY <1>5, <2>2, <2>3, <3>1
  <2>4. CASE ~buy
    <3>1. price > raw - Tick /\ raw >= level
      BY <1>5, <1>6, <2>1, <2>4
    <3>2. QED
      BY <1>5, <2>2, <2>4, <3>1
  <2>5. QED
    BY <2>3, <2>4
<1>10. bar.low <= raw /\ raw <= bar.high
  BY <1>3, <1>5
<1>11. FillsHappenInsideTheirBar'
  BY <1>8, <1>9, <1>10 DEF FillsHappenInsideTheirBar
<1>12. pos' = Flat
  BY DEF Exit, Record
<1>13. QED
  BY <1>2, <1>5, <1>8, <1>11, <1>12 DEF ClosingBuys

(* An entry is filled at the open, and its stop and target are on either    *)
(* side of the price.                                                       *)
LEMMA LevelsStart ==
  ASSUME NEW stop \in Brackets, NEW target \in Brackets, NEW price \in Int, price > 0,
         NEW short \in BOOLEAN
  PROVE  IF short
         THEN LevelAt(target, price, ~short) <= price
              /\ (LevelAt(stop, price, short) > 0 => price <= LevelAt(stop, price, short))
         ELSE LevelAt(stop, price, short) <= price
              /\ (LevelAt(target, price, ~short) > 0 => price <= LevelAt(target, price, ~short))
<1>1. ASSUME NEW bracket \in Brackets
      PROVE  Distance(bracket, price) \in Int /\ Distance(bracket, price) >= 0
  <2>1. bracket.value \in Nat /\ bracket.kind \in {"none", "pct", "atr"}
    BY DEF Brackets
  <2>2. PICK n \in Nat : n = price * bracket.value
    BY <2>1
  <2>3. n \div 100 \in Nat
    BY <2>2
  <2>4. QED
    BY <2>1, <2>2, <2>3 DEF Distance
<1>2. \A bracket \in Brackets :
        /\ LevelAt(bracket, price, FALSE) <= price
        /\ LevelAt(bracket, price, TRUE) > 0 => price <= LevelAt(bracket, price, TRUE)
  BY <1>1 DEF LevelAt
<1>3. QED
  BY <1>2

LEMMA OpenFills ==
  ASSUME EngineInv, FillInv, at > 0, ~pos.open, NEW want,
         want.short \in BOOLEAN, want.stop \in Brackets, want.target \in Brackets,
         Open(want), UNCHANGED <<at, bar>>
  PROVE  LevelsInOrder' /\ FillsHappenInsideTheirBar' /\ last'.bar \in Nat /\ last'.bar <= at
<1>1. PICK price : price = FillPrice("market", ~want.short, bar.open)
  OBVIOUS
<1>2. bar \in Bars /\ at \in Nat /\ bar.open \in Int /\ Sound(bar)
  BY EngineAssumption, BarsAreSound DEF FillInv, BarsAreSeen, EngineInv, TypeOK, Sound
<1>3. price \in Int
  BY <1>1, <1>2, PriceType
<1>4. CASE UNCHANGED <<cash, pos, last>>
  BY <1>2, <1>4 DEF FillInv, BarsAreSeen, LevelsInOrder, FillsHappenInsideTheirBar
<1>5. CASE ~ UNCHANGED <<cash, pos, last>>
  <2>1. PICK qty : qty = IF price <= 0 THEN 0 ELSE Size(price, Distance(want.stop, price))
    OBVIOUS
  <2>2. /\ ~ (qty < 1)
        /\ pos'.open /\ pos'.short = want.short
        /\ pos'.stop = LevelAt(want.stop, price, want.short)
        /\ pos'.target = LevelAt(want.target, price, ~want.short)
        /\ last' = [reason |-> "entry", buy |-> ~want.short, kind |-> "market", level |-> 0,
                    raw |-> bar.open, price |-> price, bar |-> at]
    BY <1>1, <1>5, <2>1, ZenonT(40) DEF Open, Flat
  <2>3. price > 0
    BY <1>3, <2>1, <2>2
  <2>4. PICK stop, target, short :
          stop = want.stop /\ target = want.target /\ short = want.short
    OBVIOUS
  <2>5. IF short
        THEN LevelAt(target, price, ~short) <= price
             /\ (LevelAt(stop, price, short) > 0 => price <= LevelAt(stop, price, short))
        ELSE LevelAt(stop, price, short) <= price
             /\ (LevelAt(target, price, ~short) > 0 => price <= LevelAt(target, price, ~short))
    BY <1>3, <2>3, <2>4, LevelsStart
  <2>6. LevelAt(target, price, ~short) \in Int /\ LevelAt(stop, price, short) \in Int
    BY <1>3, <2>4, LevelTypes
  <2>7. LevelsInOrder'
    BY <1>3, <2>2, <2>4, <2>5, <2>6 DEF LevelsInOrder
  <2>8. FillsHappenInsideTheirBar'
    BY <1>2, <2>2 DEF FillsHappenInsideTheirBar, Sound
  <2>9. QED
    BY <1>2, <2>2, <2>7, <2>8
<1>6. QED
  BY <1>4, <1>5

(* A split moves both levels the same way.                                  *)
LEMMA MovedKeepsOrder ==
  ASSUME NEW low \in Int, NEW high \in Int, NEW split,
         split.num \in Nat \ {0}, split.den \in Nat \ {0},
         low > 0 /\ high > 0 => low <= high,
         Moved(low, split) > 0, Moved(high, split) > 0
  PROVE  Moved(low, split) <= Moved(high, split)
<1>1. PICK num \in Nat \ {0}, den \in Nat \ {0} : num = split.num /\ den = split.den
  OBVIOUS
<1>2. low > 0 /\ high > 0 /\ low <= high
  BY DEF Moved
<1>3. PICK a \in Nat, b \in Nat : a = low * den /\ b = high * den
  BY <1>2
<1>4. a <= b
  <2>1. PICK k \in Nat : high = low + k
    <3>1. high - low \in Nat /\ high = low + (high - low)
      BY <1>2
    <3>2. QED
      BY <3>1
  <2>2. b = a + k * den /\ k * den \in Nat
    BY <1>3, <2>1
  <2>3. QED
    BY <2>2
<1>5. PICK p \in Nat, q \in Nat : p = a \div num /\ q = b \div num
  OBVIOUS
<1>6. p <= q
  <2>1. PICK x \in Nat : x = p * num /\ x <= a
    <3>1. (a \div num) * num \in Nat /\ (a \div num) * num <= a
      OBVIOUS
    <3>2. QED
      BY <1>5, <3>1
  <2>2. PICK y \in Nat : y = q * num /\ b < y + num
    <3>1. (b \div num) * num \in Nat /\ b < (b \div num) * num + num
      OBVIOUS
    <3>2. QED
      BY <1>5, <3>1
  <2>3. x < y + num
    BY ONLY x \in Nat, y \in Nat, a \in Nat, b \in Nat, num \in Nat, <1>4, <2>1, <2>2
  <2>4. ~ (q < p)
    <3> SUFFICES ASSUME q < p PROVE FALSE
      OBVIOUS
    <3>1. PICK k \in Nat : p = q + 1 + k
      <4>1. p - q - 1 \in Nat /\ p = q + 1 + (p - q - 1)
        OBVIOUS
      <4>2. QED
        BY <4>1
    <3>2. x = y + num + k * num /\ k * num \in Nat
      BY <2>1, <2>2, <3>1
    <3>3. QED
      BY <2>3, <3>2
  <2>5. QED
    BY <2>4
<1>7. Moved(low, split) = p /\ Moved(high, split) = q
  BY <1>1, <1>2, <1>3, <1>5 DEF Moved
<1>8. QED
  BY <1>6, <1>7

LEMMA AdjustFills ==
  ASSUME EngineInv, FillInv, Adjust
  PROVE  LevelsInOrder' /\ FillsHappenInsideTheirBar' /\ BarsAreSeen' /\ (pos'.open => pos.open)
<1>1. UNCHANGED <<at, bar, last>> /\ phase' = "fill" /\ phase = "adjust"
  BY DEF Adjust, SettleSplit, CarrySplit, Goto
<1>2. FillsHappenInsideTheirBar' /\ BarsAreSeen'
  BY <1>1 DEF FillInv, FillsHappenInsideTheirBar, BarsAreSeen
<1>3. CASE pos' = pos
  BY <1>2, <1>3 DEF FillInv, LevelsInOrder
<1>4. CASE pos' = Flat
  BY <1>2, <1>4, FlatFacts DEF LevelsInOrder
<1>5. ASSUME pos.open, NEW qty, NEW paid, CarrySplit(qty, paid)
      PROVE  LevelsInOrder'
  <2>1. pos \in Positions
    BY DEF EngineInv, TypeOK
  <2>2. /\ pos'.open = pos.open /\ pos'.short = pos.short
        /\ pos'.stop = Moved(pos.stop, bar.split) /\ pos'.target = Moved(pos.target, bar.split)
    BY <1>5, <2>1 DEF CarrySplit, Positions
  <2>3. PICK stop, target, split :
          /\ stop \in Int /\ target \in Int
          /\ stop = pos.stop /\ target = pos.target /\ split = bar.split
    BY <2>1 DEF Positions
  <2>9. stop \in Int /\ target \in Int
    BY <2>3
  <2>4. split.num \in Nat \ {0} /\ split.den \in Nat \ {0}
    BY <2>3 DEF EngineInv, TypeOK, Candles
  <2>5. stop > 0 /\ target > 0 => IF pos.short THEN target <= stop ELSE stop <= target
    BY <1>5, <2>3 DEF FillInv, LevelsInOrder
  <2>6. CASE pos.short
    <3>1. Moved(stop, split) > 0 /\ Moved(target, split) > 0
            => Moved(target, split) <= Moved(stop, split)
      BY <2>4, <2>5, <2>6, <2>9, MovedKeepsOrder
    <3>2. QED
      BY <2>2, <2>3, <2>6, <3>1 DEF LevelsInOrder
  <2>7. CASE ~pos.short
    <3>1. Moved(stop, split) > 0 /\ Moved(target, split) > 0
            => Moved(stop, split) <= Moved(target, split)
      BY <2>4, <2>5, <2>7, <2>9, MovedKeepsOrder
    <3>2. QED
      BY <2>2, <2>3, <2>7, <3>1 DEF LevelsInOrder
  <2>8. QED
    BY <2>6, <2>7
<1>6. \/ pos' = pos
      \/ pos.open /\ pos' = Flat
      \/ pos.open /\ \E qty, paid : CarrySplit(qty, paid)
  BY DEF Adjust, SettleSplit, Record
<1>7. pos'.open => pos.open
  BY <1>6, FlatFacts
<1>8. QED
  BY <1>2, <1>3, <1>4, <1>5, <1>6, <1>7

LEMMA FillStarts == Init => FillInv
<1> SUFFICES ASSUME Init PROVE FillInv
  OBVIOUS
<1>1. BarsAreSeen
  BY DEF Init, BarsAreSeen
<1>2. LevelsInOrder
  BY FlatFacts DEF Init, LevelsInOrder
<1>3. FillsHappenInsideTheirBar
  BY DEF Init, FillsHappenInsideTheirBar
<1>4. QED
  BY <1>1, <1>2, <1>3 DEF FillInv

LEMMA FillKeeps == EngineInv /\ FillInv /\ [Next]_vars => FillInv'
<1> SUFFICES ASSUME EngineInv, FillInv, [Next]_vars PROVE FillInv'
  OBVIOUS
<1>1. /\ at \in Nat /\ pos \in Positions /\ (phase # "advance" => at > 0)
      /\ last.bar \in Nat /\ last.bar <= at /\ BarsAreSeen
  BY EngineAssumption DEF EngineInv, TypeOK, FillInv, BarsAreSeen
<1>2. ASSUME UNCHANGED <<at, bar, last>>, phase # "advance" \/ phase' = "advance",
             pos'.open = pos.open, pos'.short = pos.short,
             pos'.stop = pos.stop, pos'.target = pos.target
      PROVE  FillInv'
  BY <1>2 DEF FillInv, BarsAreSeen, LevelsInOrder, FillsHappenInsideTheirBar
<1>3. CASE Advance
  <2>1. PICK b \in Bars : bar' = b
    BY <1>3 DEF Advance
  <2>2. at' = at + 1 /\ last' = last /\ pos' = pos
    BY <1>3 DEF Advance
  <2>3. BarsAreSeen'
    BY <1>1, <2>1, <2>2 DEF BarsAreSeen
  <2>4. FillsHappenInsideTheirBar'
    BY <1>1, <2>2 DEF FillInv, FillsHappenInsideTheirBar
  <2>5. LevelsInOrder'
    BY <2>2 DEF FillInv, LevelsInOrder
  <2>6. QED
    BY <2>3, <2>4, <2>5 DEF FillInv
<1>4. CASE Credit
  <2>1. /\ pos'.open = pos.open /\ pos'.short = pos.short
        /\ pos'.stop = pos.stop /\ pos'.target = pos.target
    BY <1>1, <1>4 DEF Credit, Positions
  <2>2. QED
    BY <1>2, <1>4, <2>1 DEF Credit
<1>5. CASE Charge
  <2>1. /\ pos'.open = pos.open /\ pos'.short = pos.short
        /\ pos'.stop = pos.stop /\ pos'.target = pos.target
    BY <1>1, <1>5 DEF Charge, Positions
  <2>2. QED
    BY <1>2, <1>5, <2>1 DEF Charge
<1>6. CASE Adjust
  BY <1>6, AdjustFills DEF FillInv
<1>7. ASSUME UNCHANGED <<at, bar>>, at > 0, LevelsInOrder', FillsHappenInsideTheirBar',
             last'.bar \in Nat, last'.bar <= at
      PROVE  FillInv'
  BY <1>1, <1>7 DEF FillInv, BarsAreSeen
<1>8. ASSUME at > 0, NEW kind \in {"market", "limit", "stop"}, NEW level \in Int, NEW reason,
             NEW b \in {bar, CloseOf(bar)}, Met(kind, ClosingBuys(pos.short), level, b),
             Exit(kind, level, b, reason), UNCHANGED <<at, bar>>
      PROVE  FillInv'
  <2>1. pos' = Flat /\ last'.bar = at /\ FillsHappenInsideTheirBar'
    BY <1>1, <1>8, ExitFills
  <2>2. LevelsInOrder'
    BY <2>1, FlatFacts DEF LevelsInOrder
  <2>3. QED
    BY <1>1, <1>7, <1>8, <2>1, <2>2
<1>9. \A buy, level, b : Met("market", buy, level, b)
  BY DEF Met
<1>10. CASE Fill
  <2>1. at > 0 /\ UNCHANGED <<at, bar>>
    BY <1>1, <1>10 DEF Fill
  <2>2. CASE pending.kind = "enter" /\ ~pos.open
    <3>1. Open(pending)
      BY <1>10, <2>2 DEF Fill
    <3>2. pending \in [kind : {"enter"}, short : BOOLEAN, stop : Brackets, target : Brackets,
                       decided : Nat, quoted : Nat]
      BY <2>2 DEF EngineInv, TypeOK, Orders, Nothing, Leave
    <3>3. /\ LevelsInOrder' /\ FillsHappenInsideTheirBar'
          /\ last'.bar \in Nat /\ last'.bar <= at
      BY <2>1, <2>2, <3>1, <3>2, OpenFills
    <3>4. QED
      BY <1>7, <2>1, <3>3
  <2>3. CASE pending.kind = "exit" /\ pos.open
    <3>1. Exit("market", 0, bar, "signal")
      BY <1>10, <2>3 DEF Fill
    <3>2. QED
      BY <1>8, <1>9, <2>1, <3>1
  <2>4. CASE UNCHANGED <<cash, pos, closed, metrics, last>>
    BY <1>2, <1>10, <2>1, <2>4 DEF Fill
  <2>5. QED
    BY <1>10, <2>2, <2>3, <2>4 DEF Fill
<1>11. CASE CheckBrackets
  <2>1. at > 0 /\ UNCHANGED <<at, bar>> /\ pos.stop \in Int /\ pos.target \in Int
    BY <1>1, <1>11 DEF CheckBrackets, Positions
  <2>2. CASE StopHit /\ Exit("stop", pos.stop, bar, "stop")
    BY <1>8, <2>1, <2>2 DEF StopHit
  <2>3. CASE TargetHit /\ Exit("limit", pos.target, bar, "target")
    BY <1>8, <2>1, <2>3 DEF TargetHit
  <2>4. CASE UNCHANGED <<cash, pos, closed, metrics, last>>
    BY <1>2, <1>11, <2>1, <2>4 DEF CheckBrackets
  <2>5. QED
    BY <1>11, <2>2, <2>3, <2>4 DEF CheckBrackets
<1>12. CASE CloseOut
  <2>1. at > 0 /\ UNCHANGED <<at, bar>>
    BY <1>1, <1>12 DEF CloseOut
  <2>2. CASE pos.open
    <3>1. Exit("market", 0, CloseOf(bar), "end_of_run")
      BY <1>12, <2>2 DEF CloseOut
    <3>2. QED
      BY <1>8, <1>9, <2>1, <3>1
  <2>3. CASE ~pos.open
    BY <1>2, <1>12, <2>1, <2>3 DEF CloseOut
  <2>4. QED
    BY <2>2, <2>3
<1>13. CASE Signal
  BY <1>2, <1>13 DEF Signal
<1>14. CASE Mark
  BY <1>2, <1>14 DEF Mark
<1>15. CASE UNCHANGED vars
  <2>1. UNCHANGED <<at, bar, last, pos, phase>>
    BY <1>15 DEF vars
  <2>2. QED
    BY <1>1, <1>2, <2>1
<1>16. QED
  BY <1>3, <1>4, <1>5, <1>6, <1>10, <1>11, <1>12, <1>13, <1>14, <1>15 DEF Next

LEMMA FillInvariant == Spec => []FillInv
<1>1. Init /\ [][Next]_vars /\ []EngineInv => []FillInv
  BY FillStarts, FillKeeps, PTL
<1>2. QED
  BY <1>1, EngineInvariant, PTL DEF Spec

(* Whatever a bar does and whatever a split did to the levels, an order gets*)
(* a price of the bar it is filled on, and a target its level or better but *)
(* for less than a tick (Order.Fill and Costing.Fill in broker.go).         *)
THEOREM FillsAreInside == Spec => []FillsHappenInsideTheirBar
<1>1. FillInv => FillsHappenInsideTheirBar
  BY DEF FillInv
<1>2. QED
  BY <1>1, FillInvariant, PTL

(* A bar that reaches both brackets takes the one that is worse for the     *)
(* holder: the stop, which the splits of a trade never move past its target *)
(* (checkBrackets in engine.go).                                            *)
THEOREM AmbiguityEndsWorse == Spec => AmbiguousBarsEndWorse
<1>1. ASSUME EngineInv, FillInv, CheckBrackets, StopHit, TargetHit
      PROVE  IF pos.short THEN last'.raw >= pos.stop /\ last'.raw >= pos.target
                          ELSE last'.raw <= pos.stop /\ last'.raw <= pos.target
  <2>1. Exit("stop", pos.stop, bar, "stop") /\ UNCHANGED <<at, bar>> /\ phase = "brackets"
    BY <1>1 DEF CheckBrackets
  <2>2. at > 0 /\ BarsAreSeen /\ pos \in Positions /\ pos.stop \in Int /\ pos.target \in Int
    BY <1>1, <2>1 DEF FillInv, BarsAreSeen, EngineInv, TypeOK, Positions
  <2>3. Met("stop", ClosingBuys(pos.short), pos.stop, bar)
    BY <1>1 DEF StopHit
  <2>4. IF pos.short THEN last'.raw >= pos.stop ELSE last'.raw <= pos.stop
    BY <1>1, <2>1, <2>2, <2>3, ExitFills
  <2>5. last'.raw \in Int
    <3>1. bar \in Candles
      BY <1>1 DEF EngineInv, TypeOK
    <3>2. PICK b, stop : b = bar /\ stop = pos.stop
      OBVIOUS
    <3>3. PICK buy : buy = ClosingBuys(pos.short)
      OBVIOUS
    <3>4. Raw("stop", buy, stop, b) \in Int
      BY <2>2, <3>1, <3>2, RawType
    <3>5. last'.raw = Raw("stop", ClosingBuys(pos.short), pos.stop, bar)
      BY <2>1 DEF Exit
    <3>6. QED
      BY <3>2, <3>3, <3>4, <3>5
  <2>6. IF pos.short THEN pos.target <= pos.stop ELSE pos.stop <= pos.target
    BY <1>1 DEF StopHit, TargetHit, FillInv, LevelsInOrder
  <2>7. QED
    BY <2>2, <2>4, <2>5, <2>6
<1>2. EngineInv /\ FillInv /\ [Next]_vars =>
        [CheckBrackets /\ StopHit /\ TargetHit =>
           IF pos.short THEN last'.raw >= pos.stop /\ last'.raw >= pos.target
                        ELSE last'.raw <= pos.stop /\ last'.raw <= pos.target]_vars
  BY <1>1
<1>3. QED
  BY <1>2, EngineInvariant, FillInvariant, PTL DEF Spec, AmbiguousBarsEndWorse

-----------------------------------------------------------------------------
(* Sizing.                                                                  *)

(* What is bought costs no more than the cash there is.                     *)
LEMMA SizeIsPaidFor ==
  ASSUME sizing \in Sizings, cash \in Int, NEW price \in Nat \ {0}, NEW distance \in Int,
         Size(price, distance) >= 1
  PROVE  Cost(Size(price, distance), price) <= cash
<1>1. Affordable(price) \in Int
  BY EngineAssumption DEF Affordable
<1>2. Wanted(price, distance) \in Int
  BY EngineAssumption DEF Wanted, SharesFor, Round
<1>3. PICK qty \in Int : qty = Min({Wanted(price, distance), Affordable(price)})
  BY <1>1, <1>2, TwoIntegers
<1>4. PICK most \in Int : most = qty \div Lot
  BY EngineAssumption
<1>5. PICK lots : lots = {k \in 1 .. most : Cost(k * Lot, price) <= cash}
  OBVIOUS
<1>6. Size(price, distance) = IF lots = {} THEN 0 ELSE Lot * Max(lots)
  BY <1>3, <1>4, <1>5 DEF Size
<1>7. lots # {} /\ Size(price, distance) = Lot * Max(lots)
  BY <1>6
<1>8. Max(lots) \in lots
  <2>1. lots \subseteq 1 .. most
    BY <1>5
  <2>2. QED
    BY <1>7, <2>1, LargestNatural
<1>9. PICK k \in Nat : k = Max(lots) /\ Cost(k * Lot, price) <= cash
  <2>1. PICK k : k = Max(lots)
    OBVIOUS
  <2>2. k \in {n \in 1 .. most : Cost(n * Lot, price) <= cash}
    BY <1>5, <1>8, <2>1
  <2>3. k \in 1 .. most /\ Cost(k * Lot, price) <= cash
    BY <2>2, Zenon
  <2>4. k \in Nat
    BY <1>4, <2>3
  <2>5. QED
    BY <2>1, <2>3, <2>4
<1>10. k * Lot = Lot * k
  BY EngineAssumption
<1>11. QED
  BY <1>7, <1>9, <1>10

(* Whatever a long is sized by, in whatever lots and at whatever costs, the *)
(* cash of the moment of its fill pays for it (sizing.go).                  *)
THEOREM LongsArePaid == Spec => LongsArePaidFor
<1>1. ASSUME EngineInv, FillInv, [Next]_vars, ~pos.open, pos'.open, ~pos'.short
      PROVE  cash' >= 0
  <2>1. /\ pos \in Positions /\ sizing \in Sizings /\ cash \in Int /\ bar \in Candles
    BY <1>1 DEF EngineInv, TypeOK
  <2>2. CASE Fill /\ pending.kind = "enter"
    <3>1. Open(pending)
      BY <1>1, <2>2 DEF Fill
    <3>2. pending \in [kind : {"enter"}, short : BOOLEAN, stop : Brackets, target : Brackets,
                       decided : Nat, quoted : Nat]
      BY <1>1, <2>2 DEF EngineInv, TypeOK, Orders, Nothing, Leave
    <3>3. PICK price, distance :
            /\ price = FillPrice("market", ~pending.short, bar.open)
            /\ distance = Distance(pending.stop, price)
      OBVIOUS
    <3>4. PICK qty : qty = IF price <= 0 THEN 0 ELSE Size(price, distance)
      OBVIOUS
    <3>5. price \in Int /\ distance \in Int
      <4>1. bar.open \in Int
        BY <2>1 DEF Candles
      <4>2. price \in Int
        BY <3>3, <4>1, PriceType
      <4>3. PICK stop \in Brackets : stop = pending.stop
        BY <3>2
      <4>4. QED
        BY <3>3, <4>2, <4>3, LevelTypes
    <3>6. /\ ~ (qty < 1) /\ pos'.short = pending.short
          /\ cash' = (IF pending.short THEN cash + Notional(qty, price)
                                       ELSE cash - Notional(qty, price)) - Fees(Notional(qty, price))
      BY <1>1, <3>1, <3>3, <3>4, ZenonT(40) DEF Open, Flat
    <3>7. price \in Nat \ {0} /\ qty = Size(price, distance)
      BY <3>4, <3>5, <3>6
    <3>8. qty \in Nat
      BY <2>1, <3>5, <3>7, SizeType
    <3>9. Cost(qty, price) <= cash
      <4>1. Size(price, distance) >= 1
        BY <3>6, <3>7, <3>8
      <4>2. Cost(Size(price, distance), price) <= cash
        BY <2>1, <3>5, <3>7, <4>1, SizeIsPaidFor
      <4>3. QED
        BY <3>7, <4>2
    <3>10. PICK notional, fee : notional = Notional(qty, price) /\ fee = Fees(notional)
      OBVIOUS
    <3>11. notional \in Int /\ fee \in Int
      BY <3>7, <3>8, <3>10, CostTypes
    <3>12. notional + fee <= cash /\ cash' = cash - notional - fee
      BY <1>1, <3>6, <3>9, <3>10 DEF Cost
    <3>13. QED
      BY <2>1, <3>11, <3>12
  <2>3. CASE Fill /\ pending.kind # "enter"
    <3>1. pos' = pos
      BY <1>1, <2>3 DEF Fill
    <3>2. QED
      BY <1>1, <3>1
  <2>4. CASE Adjust
    BY <1>1, <2>4, AdjustFills
  <2>5. CASE Credit \/ Charge
    <3>1. pos'.open = pos.open
      BY <2>1, <2>5 DEF Credit, Charge, Positions
    <3>2. QED
      BY <1>1, <3>1
  <2>6. CASE CheckBrackets \/ CloseOut
    <3>1. pos' = pos
      BY <1>1, <2>6 DEF CheckBrackets, CloseOut, StopHit, TargetHit
    <3>2. QED
      BY <1>1, <3>1
  <2>7. CASE Advance \/ Signal \/ Mark \/ UNCHANGED vars
    <3>1. pos' = pos
      BY <2>7 DEF Advance, Signal, Mark, vars
    <3>2. QED
      BY <1>1, <3>1
  <2>8. QED
    BY <1>1, <2>2, <2>3, <2>4, <2>5, <2>6, <2>7 DEF Next
<1>2. EngineInv /\ FillInv /\ [Next]_vars =>
        [~pos.open /\ pos'.open /\ ~pos'.short => cash' >= 0]_vars
  BY <1>1
<1>3. QED
  BY <1>2, EngineInvariant, FillInvariant, PTL DEF Spec, LongsArePaidFor

-----------------------------------------------------------------------------
(* Numbers, and functions that are defined from one position to the next.   *)

LEMMA LeastNatural ==
  ASSUME NEW S \in SUBSET Nat, S # {}
  PROVE  \E m \in S : \A n \in S : m <= n
<1> DEFINE R == OpToRel(<, Nat)
<1>1. IsWellFoundedOn(R, Nat)
  BY NatLessThanWellFounded
<1>2. \A a, b \in Nat : <<a, b>> \in R <=> a < b
  BY DEF OpToRel
<1> HIDE DEF R
<1>3. PICK m \in S : \A n \in S : ~ (<<n, m>> \in R)
  BY <1>1, WFMin
<1>4. ASSUME NEW n \in S PROVE m <= n
  <2>1. m \in Nat /\ n \in Nat
    OBVIOUS
  <2>2. ~ (n < m)
    BY <1>2, <1>3, <2>1
  <2>3. QED
    BY <2>1, <2>2
<1>5. QED
  BY <1>4

LEMMA MaxIs ==
  ASSUME NEW S \in SUBSET Int, NEW x \in S, \A y \in S : y <= x
  PROVE  Max(S) = x
<1>1. PICK m : m = Max(S)
  OBVIOUS
<1>2. m \in S /\ \A y \in S : y <= m
  BY <1>1 DEF Max
<1>3. m \in Int /\ x \in Int /\ m <= x /\ x <= m
  BY <1>2
<1>4. QED
  BY <1>1, <1>3

(* A set of positions that has the first and with each the next has all.    *)
LEMMA AlongPositions ==
  ASSUME NEW n \in Nat, NEW S, 0 \in S, \A k \in 0 .. n - 1 : k \in S => k + 1 \in S
  PROVE  0 .. n \subseteq S
<1> DEFINE Bad == {k \in 0 .. n : k \notin S}
<1> SUFFICES ASSUME Bad # {} PROVE FALSE
  OBVIOUS
<1>1. PICK k \in Bad : \A j \in Bad : k <= j
  <2>1. Bad \in SUBSET Nat
    OBVIOUS
  <2>2. QED
    BY <2>1, LeastNatural
<1>2. k \in 0 .. n /\ k \notin S /\ k # 0
  OBVIOUS
<1>3. k - 1 \in 0 .. n - 1 /\ k - 1 \notin Bad
  BY <1>1, <1>2
<1>4. (k - 1) + 1 \in S
  BY <1>3
<1>5. QED
  BY <1>2, <1>4

(* after follows step from base.                                            *)
Goes(after, n, base, step) ==
  after = [k \in 0 .. n |-> IF k = 0 THEN base ELSE step[k][after[k - 1]]]

LEMMA GoesSomewhere ==
  ASSUME NEW n \in Nat, NEW V, NEW base \in V, NEW step \in [1 .. n -> [V -> V]]
  PROVE  \E after \in [0 .. n -> V] : Goes(after, n, base, step)
<1> DEFINE Path(f, m) == \A k \in 0 .. m : f[k] = IF k = 0 THEN base ELSE step[k][f[k - 1]]
           S == {m \in 0 .. n : \E f \in [0 .. m -> V] : Path(f, m)}
<1>1. 0 \in S
  <2>1. PICK f : f = [k \in 0 .. 0 |-> base]
    OBVIOUS
  <2>2. f \in [0 .. 0 -> V] /\ Path(f, 0)
    BY <2>1
  <2>3. QED
    BY <2>2
<1>2. ASSUME NEW m \in 0 .. n - 1, m \in S PROVE m + 1 \in S
  <2>1. PICK f \in [0 .. m -> V] : Path(f, m)
    BY <1>2
  <2>2. PICK v \in V : v = step[m + 1][f[m]]
    OBVIOUS
  <2>3. PICK g : g = [k \in 0 .. m + 1 |-> IF k = m + 1 THEN v ELSE f[k]]
    OBVIOUS
  <2>4. g \in [0 .. m + 1 -> V]
    BY <2>3
  <2>5. ASSUME NEW k \in 0 .. m + 1 PROVE g[k] = IF k = 0 THEN base ELSE step[k][g[k - 1]]
    <3>1. CASE k = m + 1
      <4>1. g[k] = v /\ g[k - 1] = f[m] /\ k # 0
        BY <2>3, <3>1
      <4>2. QED
        BY <2>2, <3>1, <4>1
    <3>2. CASE k # m + 1
      <4>1. k \in 0 .. m /\ g[k] = f[k] /\ (k # 0 => g[k - 1] = f[k - 1])
        BY <2>3, <3>2
      <4>2. QED
        BY <2>1, <4>1
    <3>3. QED
      BY <3>1, <3>2
  <2>6. QED
    BY <2>4, <2>5
<1> HIDE DEF S
<1>3. 0 .. n \subseteq S
  BY <1>1, <1>2, AlongPositions
<1>4. n \in S
  BY <1>3
<1>5. PICK f \in [0 .. n -> V] : Path(f, n)
  BY <1>4 DEF S
<1>6. f = [k \in 0 .. n |-> IF k = 0 THEN base ELSE step[k][f[k - 1]]]
  BY <1>5
<1>7. QED
  BY <1>6 DEF Goes

-----------------------------------------------------------------------------
(* Sums.                                                                    *)
Sums(seq, sum) ==
  sum = [k \in 0 .. Len(seq) |-> IF k = 0 THEN 0 ELSE sum[k - 1] + seq[k]]

LEMMA SumsExist ==
  ASSUME NEW seq \in Seq(Int)
  PROVE  \E sum \in [0 .. Len(seq) -> Int] : Sums(seq, sum) /\ Total(seq) = sum[Len(seq)]
<1> DEFINE n == Len(seq)
           step == [k \in 1 .. n |-> [v \in Int |-> v + seq[k]]]
           chosen == CHOOSE f : Sums(seq, f)
<1>1. n \in Nat /\ \A k \in 1 .. n : seq[k] \in Int
  OBVIOUS
<1>2. step \in [1 .. n -> [Int -> Int]]
  BY <1>1
<1>3. PICK f \in [0 .. n -> Int] : Goes(f, n, 0, step)
  <2>1. PICK m \in Nat : m = n
    BY <1>1
  <2>2. PICK g \in [1 .. m -> [Int -> Int]] : g = step
    BY <1>2, <2>1
  <2>3. 0 \in Int
    OBVIOUS
  <2> HIDE DEF step, n
  <2>4. \E f \in [0 .. m -> Int] : Goes(f, m, 0, g)
    BY <2>3, GoesSomewhere
  <2>5. QED
    BY <2>1, <2>2, <2>4
<1>4. Sums(seq, f)
  <2>1. ASSUME NEW k \in 0 .. n
        PROVE  f[k] = IF k = 0 THEN 0 ELSE f[k - 1] + seq[k]
    <3>1. f[k] = IF k = 0 THEN 0 ELSE step[k][f[k - 1]]
      BY <1>3 DEF Goes
    <3>2. k # 0 => k \in 1 .. n /\ f[k - 1] \in Int
      <4>1. n \in Nat
        OBVIOUS
      <4> HIDE DEF n
      <4>2. k # 0 => k \in 1 .. n /\ k - 1 \in 0 .. n
        BY <4>1
      <4>3. QED
        BY <4>2, <1>3
    <3>3. k # 0 => step[k][f[k - 1]] = f[k - 1] + seq[k]
      BY <3>2
    <3>4. QED
      BY <3>1, <3>3
  <2>2. f = [k \in 0 .. n |-> f[k]]
    BY <1>3
  <2>3. QED
    BY <2>1, <2>2 DEF Sums
<1>5. Sums(seq, chosen)
  BY <1>4
<1>6. Total(seq) = chosen[n]
  BY DEF Total, Sums
<1> HIDE DEF chosen
<1>7. chosen \in [0 .. n -> Int]
  <2> DEFINE S == {k \in 0 .. n : chosen[k] \in Int}
  <2>1. 0 \in S
    BY <1>1, <1>5 DEF Sums
  <2>2. \A k \in 0 .. n - 1 : k \in S => k + 1 \in S
    BY <1>1, <1>5 DEF Sums
  <2>3. 0 .. n \subseteq S
    <3> HIDE DEF S, n
    <3>1. QED
      BY <1>1, <2>1, <2>2, AlongPositions
  <2>4. chosen = [k \in 0 .. n |-> chosen[k]]
    BY <1>5 DEF Sums
  <2>5. QED
    BY <2>3, <2>4
<1>8. QED
  BY <1>5, <1>6, <1>7

(* What a sum is at each position, once it is known what it starts from and *)
(* what every position adds.                                                *)
LEMMA TotalIs ==
  ASSUME NEW seq \in Seq(Int), NEW f, f[0] = 0,
         \A k \in 1 .. Len(seq) : f[k] = f[k - 1] + seq[k]
  PROVE  Total(seq) = f[Len(seq)]
<1>1. PICK sum \in [0 .. Len(seq) -> Int] : Sums(seq, sum) /\ Total(seq) = sum[Len(seq)]
  BY SumsExist
<1> DEFINE n == Len(seq)
           S == {k \in 0 .. n : sum[k] = f[k]}
<1>2. n \in Nat
  OBVIOUS
<1>3. 0 \in S
  BY <1>1, <1>2 DEF Sums
<1>4. ASSUME NEW k \in 0 .. n - 1, k \in S PROVE k + 1 \in S
  <2>1. k + 1 \in 1 .. n /\ (k + 1) - 1 = k /\ k + 1 # 0 /\ k + 1 \in 0 .. n
    BY <1>2
  <2>2. sum[k + 1] = sum[k] + seq[k + 1]
    BY <1>1, <2>1 DEF Sums
  <2>3. f[k + 1] = f[k] + seq[k + 1]
    BY <2>1
  <2>4. QED
    BY <1>4, <2>1, <2>2, <2>3
<1>5. 0 .. n \subseteq S
  <2> HIDE DEF S, n
  <2>1. QED
    BY <1>2, <1>3, <1>4, AlongPositions
<1>6. QED
  BY <1>1, <1>2, <1>5

LEMMA TotalIsNumber ==
  ASSUME NEW seq \in Seq(Int)
  PROVE  Total(seq) \in Int
<1>1. PICK sum \in [0 .. Len(seq) -> Int] : Total(seq) = sum[Len(seq)]
  BY SumsExist
<1>2. QED
  BY <1>1

-----------------------------------------------------------------------------
(* Drawdowns: what is known after each bar of a curve.                      *)

IsFall(c, a, b) ==
  /\ a < b /\ c[a] > 0
  /\ \A k \in 1 .. a : c[k] <= c[a]
  /\ \A k \in a + 1 .. b : c[k] < c[a]

(* The highest point, and that no other is as high after it.                *)
IsPeak(c, i, p) ==
  /\ p \in 1 .. i /\ c[p] > 0
  /\ \A k \in 1 .. i : c[k] <= c[p]
  /\ \A k \in p + 1 .. i : c[k] < c[p]

Deepest(c, i, w) ==
  IF w = NoDrawdown THEN \A a, b \in 1 .. i : ~ IsFall(c, a, b)
  ELSE \E p, t \in 1 .. i :
         /\ w = [cents |-> c[t] - c[p], of |-> c[p], peak |-> p, trough |-> t]
         /\ IsFall(c, p, t)
         /\ \A a, b \in 1 .. i : IsFall(c, a, b) => (c[t] - c[p]) * c[a] <= (c[b] - c[a]) * c[p]

Longest(c, i, l) ==
  /\ l \in Nat
  /\ \A a, b \in 1 .. i : IsFall(c, a, b) => b - a <= l
  /\ l # 0 => \E a, b \in 1 .. i : IsFall(c, a, b) /\ b - a = l

Told(c, i, acc) ==
  /\ acc = [peak |-> acc.peak, worst |-> acc.worst, longest |-> acc.longest]
  /\ IsPeak(c, i, acc.peak)
  /\ Deepest(c, i, acc.worst)
  /\ Longest(c, i, acc.longest)

(* A fall that ends now is one from the peak.                               *)
LEMMA FallsFromThePeak ==
  ASSUME NEW n \in Nat, NEW c \in [1 .. n -> Int], NEW i \in 2 .. n, NEW p, IsPeak(c, i - 1, p),
         NEW a \in 1 .. i, IsFall(c, a, i)
  PROVE  a = p /\ c[i] < c[p]
<1>1. p \in 1 .. i - 1 /\ a \in 1 .. i - 1 /\ p \in Int /\ a \in Int /\ i \in Int
  BY DEF IsFall, IsPeak
<1>2. c[p] \in Int /\ c[a] \in Int /\ c[i] \in Int
  BY <1>1
<1>3. c[i] < c[a]
  BY <1>1 DEF IsFall
<1>4. ~ (p < a)
  <2> SUFFICES ASSUME p < a PROVE FALSE
    OBVIOUS
  <2>1. c[p] <= c[a]
    BY <1>1 DEF IsFall
  <2>2. c[a] < c[p]
    BY <1>1 DEF IsPeak
  <2>3. QED
    BY <1>2, <2>1, <2>2
<1>5. ~ (a < p)
  <2> SUFFICES ASSUME a < p PROVE FALSE
    OBVIOUS
  <2>1. c[p] < c[a]
    BY <1>1 DEF IsFall
  <2>2. c[a] <= c[p]
    BY <1>1 DEF IsPeak
  <2>3. QED
    BY <1>2, <2>1, <2>2
<1>6. a = p
  BY <1>1, <1>4, <1>5
<1>7. QED
  BY <1>3, <1>6

(* A fraction that is deeper than one is deeper than all that one is not    *)
(* less deep than.                                                          *)
LEMMA StillDeeper ==
  ASSUME NEW f \in Int, NEW of \in Nat \ {0}, NEW w \in Int, NEW wof \in Nat \ {0},
         NEW d \in Int, NEW dof \in Nat \ {0},
         f * wof < w * of, w * dof <= d * wof
  PROVE  f * dof <= d * of
<1>1. (f * wof) * dof <= (w * of) * dof
  BY SMT
<1>2. (w * dof) * of <= (d * wof) * of
  BY SMT
<1>3. (w * of) * dof = (w * dof) * of /\ (f * wof) * dof = (f * dof) * wof
      /\ (d * wof) * of = (d * of) * wof
  BY SMT
<1>4. PICK x, y : x = f * dof /\ y = d * of
  OBVIOUS
<1>5. x \in Int /\ y \in Int /\ x * wof <= y * wof
  BY <1>1, <1>2, <1>3, <1>4
<1>6. x <= y
  BY <1>5
<1>7. QED
  BY <1>4, <1>6

LEMMA NewPeak ==
  ASSUME NEW n \in Nat, NEW c \in [1 .. n -> Int], NEW i \in 2 .. n, NEW p, IsPeak(c, i - 1, p),
         c[i] >= c[p]
  PROVE  /\ IsPeak(c, i, i)
         /\ \A w : Deepest(c, i - 1, w) => Deepest(c, i, w)
         /\ \A l : Longest(c, i - 1, l) => Longest(c, i, l)
<1>1. p \in 1 .. i - 1 /\ c[p] \in Int /\ c[i] \in Int /\ c[p] > 0
  BY DEF IsPeak
<1>2. IsPeak(c, i, i)
  <2>1. \A k \in 1 .. i : c[k] <= c[i]
    <3> TAKE k \in 1 .. i
    <3>1. CASE k = i
      BY <1>1, <3>1
    <3>2. CASE k # i
      <4>1. k \in 1 .. i - 1 /\ c[k] \in Int
        BY <3>2
      <4>2. c[k] <= c[p]
        BY <4>1 DEF IsPeak
      <4>3. QED
        BY <1>1, <4>1, <4>2
    <3>3. QED
      BY <3>1, <3>2
  <2>2. i \in 1 .. i /\ c[i] > 0
    BY <1>1
  <2>3. \A k \in i + 1 .. i : FALSE
    OBVIOUS
  <2>4. QED
    BY <2>1, <2>2, <2>3 DEF IsPeak
<1>3. \A a \in 1 .. i : ~ IsFall(c, a, i)
  BY <1>1, FallsFromThePeak
<1>4. \A a, b \in 1 .. i : IsFall(c, a, b) => a \in 1 .. i - 1 /\ b \in 1 .. i - 1
  BY <1>3 DEF IsFall
<1>5. \A a \in 1 .. i - 1 : a \in 1 .. i
  OBVIOUS
<1>6. \A w : Deepest(c, i - 1, w) => Deepest(c, i, w)
  BY <1>4, <1>5 DEF Deepest
<1>7. \A l : Longest(c, i - 1, l) => Longest(c, i, l)
  BY <1>4, <1>5 DEF Longest
<1>8. QED
  BY <1>2, <1>6, <1>7

LEMMA NewFall ==
  ASSUME NEW n \in Nat, NEW c \in [1 .. n -> Int], NEW i \in 2 .. n, NEW p, IsPeak(c, i - 1, p),
         c[i] < c[p],
         NEW fall, fall = [cents |-> c[i] - c[p], of |-> c[p], peak |-> p, trough |-> i]
  PROVE  /\ IsPeak(c, i, p)
         /\ \A l : Longest(c, i - 1, l) => Longest(c, i, Max({l, i - p}))
         /\ \A w : Deepest(c, i - 1, w) => Deepest(c, i, IF Deeper(fall, w) THEN fall ELSE w)
<1>1. p \in 1 .. i - 1 /\ p \in 1 .. i /\ p < i /\ c[p] \in Nat \ {0} /\ c[i] \in Int
  BY DEF IsPeak
<1>2. IsPeak(c, i, p)
  <2>1. \A k \in 1 .. i : k \in 1 .. i - 1 \/ k = i
    OBVIOUS
  <2>2. \A k \in p + 1 .. i : k \in p + 1 .. i - 1 \/ k = i
    BY <1>1
  <2>3. (\A k \in 1 .. i - 1 : c[k] <= c[p]) /\ (\A k \in p + 1 .. i - 1 : c[k] < c[p])
    BY DEF IsPeak
  <2>4. (\A k \in 1 .. i : c[k] <= c[p]) /\ (\A k \in p + 1 .. i : c[k] < c[p])
    BY <1>1, <2>1, <2>2, <2>3
  <2>5. QED
    BY <1>1, <2>4 DEF IsPeak
<1>3. IsFall(c, p, i)
  <2>1. \A k \in 1 .. p : k \in 1 .. i
    BY <1>1
  <2>2. (\A k \in 1 .. i : c[k] <= c[p]) /\ (\A k \in p + 1 .. i : c[k] < c[p]) /\ c[p] > 0
    BY <1>2 DEF IsPeak
  <2>3. \A k \in 1 .. p : c[k] <= c[p]
    BY <2>1, <2>2
  <2>4. QED
    BY <1>1, <2>2, <2>3 DEF IsFall
<1>4. \A a, b \in 1 .. i : IsFall(c, a, b) =>
         (a \in 1 .. i - 1 /\ b \in 1 .. i - 1) \/ (a = p /\ b = i)
  <2> TAKE a, b \in 1 .. i
  <2>1. CASE b = i
    BY <2>1, FallsFromThePeak
  <2>2. CASE b # i
    BY <2>2 DEF IsFall
  <2>3. QED
    BY <2>1, <2>2
<1>5. \A a \in 1 .. i - 1 : a \in 1 .. i
  OBVIOUS
<1>6. ASSUME NEW l, Longest(c, i - 1, l) PROVE Longest(c, i, Max({l, i - p}))
  <2>1. l \in Nat /\ i - p \in Nat \ {0} /\ i \in 1 .. i
    BY <1>1, <1>6 DEF Longest
  <2>2. CASE l <= i - p
    <3>1. Max({l, i - p}) = i - p
      <4>1. {l, i - p} \in SUBSET Int /\ i - p \in {l, i - p} /\ \A y \in {l, i - p} : y <= i - p
        BY <2>1, <2>2
      <4>2. QED
        BY <4>1, MaxIs
    <3>2. \A a, b \in 1 .. i : IsFall(c, a, b) => b - a <= i - p
      <4> TAKE a, b \in 1 .. i
      <4>1. CASE a \in 1 .. i - 1 /\ b \in 1 .. i - 1
        <5>1. IsFall(c, a, b) => b - a <= l
          BY <1>6, <4>1 DEF Longest
        <5>2. QED
          BY <2>1, <2>2, <5>1
      <4>2. QED
        BY <1>1, <1>4, <4>1
    <3>3. QED
      BY <1>1, <1>3, <2>1, <3>1, <3>2 DEF Longest
  <2>3. CASE ~ (l <= i - p)
    <3>1. Max({l, i - p}) = l
      <4>1. {l, i - p} \in SUBSET Int /\ l \in {l, i - p} /\ \A y \in {l, i - p} : y <= l
        BY <2>1, <2>3
      <4>2. QED
        BY <4>1, MaxIs
    <3>2. \A a, b \in 1 .. i : IsFall(c, a, b) => b - a <= l
      <4> TAKE a, b \in 1 .. i
      <4>1. CASE a \in 1 .. i - 1 /\ b \in 1 .. i - 1
        BY <1>6, <4>1 DEF Longest
      <4>2. CASE a = p /\ b = i
        BY <2>1, <2>3, <4>2
      <4>3. QED
        BY <1>4, <4>1, <4>2
    <3>3. l # 0 => \E a, b \in 1 .. i : IsFall(c, a, b) /\ b - a = l
      BY <1>5, <1>6 DEF Longest
    <3>4. QED
      BY <2>1, <3>1, <3>2, <3>3 DEF Longest
  <2>4. QED
    BY <2>2, <2>3
<1>7. ASSUME NEW w, Deepest(c, i - 1, w)
      PROVE  Deepest(c, i, IF Deeper(fall, w) THEN fall ELSE w)
  <2>1. fall.cents = c[i] - c[p] /\ fall.of = c[p] /\ fall # NoDrawdown
    BY <1>1 DEF NoDrawdown
  <2>2. CASE w = NoDrawdown
    <3>1. Deeper(fall, w)
      <4>1. (c[i] - c[p]) * 1 < 0 * c[p]
        BY <1>1
      <4>2. QED
        BY <2>1, <2>2, <4>1 DEF Deeper, NoDrawdown
    <3>2. \A a, b \in 1 .. i : IsFall(c, a, b) => a = p /\ b = i
      BY <1>4, <1>7, <2>2 DEF Deepest
    <3>3. \A a, b \in 1 .. i : IsFall(c, a, b) => (c[i] - c[p]) * c[a] <= (c[b] - c[a]) * c[p]
      BY <1>1, <3>2
    <3>4. p \in 1 .. i /\ i \in 1 .. i
      BY <1>1
    <3>5. Deepest(c, i, fall)
      BY <1>3, <2>1, <3>3, <3>4 DEF Deepest
    <3>6. QED
      BY <3>1, <3>5
  <2>3. CASE w # NoDrawdown
    <3>1. PICK q, t \in 1 .. i - 1 :
             /\ w = [cents |-> c[t] - c[q], of |-> c[q], peak |-> q, trough |-> t]
             /\ IsFall(c, q, t)
             /\ \A a, b \in 1 .. i - 1 : IsFall(c, a, b) => (c[t] - c[q]) * c[a] <= (c[b] - c[a]) * c[q]
      BY <1>7, <2>3 DEF Deepest
    <3>2. c[q] \in Nat \ {0} /\ c[t] \in Int /\ w.cents = c[t] - c[q] /\ w.of = c[q]
      BY <3>1 DEF IsFall
    <3>3. CASE Deeper(fall, w)
      <4>1. (c[i] - c[p]) * c[q] < (c[t] - c[q]) * c[p]
        BY <2>1, <3>2, <3>3 DEF Deeper
      <4>2. \A a, b \in 1 .. i : IsFall(c, a, b) => (c[i] - c[p]) * c[a] <= (c[b] - c[a]) * c[p]
        <5> SUFFICES ASSUME NEW a \in 1 .. i, NEW b \in 1 .. i, IsFall(c, a, b)
                     PROVE  (c[i] - c[p]) * c[a] <= (c[b] - c[a]) * c[p]
          OBVIOUS
        <5>1. c[a] \in Nat \ {0} /\ c[b] \in Int
          BY DEF IsFall
        <5>2. CASE a = p /\ b = i
          BY <1>1, <5>2
        <5>3. CASE a \in 1 .. i - 1 /\ b \in 1 .. i - 1
          <6>1. (c[t] - c[q]) * c[a] <= (c[b] - c[a]) * c[q]
            BY <3>1, <5>3
          <6>2. PICK f \in Int : f = c[i] - c[p]
            BY <1>1
          <6>3. PICK v \in Int : v = c[t] - c[q]
            BY <3>2
          <6>4. PICK d \in Int : d = c[b] - c[a]
            BY <5>1
          <6>5. f * c[q] < v * c[p] /\ v * c[a] <= d * c[q]
            BY <4>1, <6>1, <6>2, <6>3, <6>4
          <6>6. f * c[a] <= d * c[p]
            BY <1>1, <3>2, <5>1, <6>5, StillDeeper
          <6>7. QED
            BY <6>2, <6>4, <6>6
        <5>4. QED
          BY <1>4, <5>2, <5>3
      <4>3. i \in 1 .. i /\ (IF Deeper(fall, w) THEN fall ELSE w) = fall
        BY <3>3
      <4>4. Deepest(c, i, fall)
        BY <1>1, <1>3, <2>1, <4>2, <4>3 DEF Deepest
      <4>5. QED
        BY <4>3, <4>4
    <3>4. CASE ~ Deeper(fall, w)
      <4>1. ~ ((c[i] - c[p]) * c[q] < (c[t] - c[q]) * c[p])
        BY <2>1, <3>2, <3>4 DEF Deeper
      <4>2. (c[t] - c[q]) * c[p] <= (c[i] - c[p]) * c[q]
        <5>1. c[i] \in Int /\ c[p] \in Int /\ c[q] \in Int /\ c[t] \in Int
          BY <1>1, <3>2
        <5>2. PICK x \in Int : x = (c[i] - c[p]) * c[q]
          BY <5>1
        <5>3. PICK y \in Int : y = (c[t] - c[q]) * c[p]
          BY <5>1
        <5>4. QED
          BY <4>1, <5>2, <5>3
      <4>3. \A a, b \in 1 .. i : IsFall(c, a, b) => (c[t] - c[q]) * c[a] <= (c[b] - c[a]) * c[q]
        BY <1>4, <3>1, <4>2
      <4>4. q \in 1 .. i /\ t \in 1 .. i
        OBVIOUS
      <4>5. QED
        BY <2>3, <3>1, <3>4, <4>3, <4>4 DEF Deepest
    <3>5. QED
      BY <3>3, <3>4
  <2>4. QED
    BY <2>2, <2>3
<1>8. QED
  BY <1>2, <1>6, <1>7

LEMMA DrawdownStep ==
  ASSUME NEW n \in Nat, NEW c \in [1 .. n -> Int], NEW i \in 2 .. n, NEW acc, Told(c, i - 1, acc)
  PROVE  Told(c, i, DrawdownBar(acc, i, c))
<1>1. PICK p : p = acc.peak
  OBVIOUS
<1>2. PICK w : w = acc.worst
  OBVIOUS
<1>3. PICK l : l = acc.longest
  OBVIOUS
<1>4. PICK fall : fall = [cents |-> c[i] - c[p], of |-> c[p], peak |-> p, trough |-> i]
  OBVIOUS
<1>5. /\ acc = [peak |-> p, worst |-> w, longest |-> l]
      /\ IsPeak(c, i - 1, p) /\ Deepest(c, i - 1, w) /\ Longest(c, i - 1, l)
  BY <1>1, <1>2, <1>3 DEF Told
<1>6. c[p] \in Int /\ c[p] > 0 /\ c[i] \in Int
  BY <1>5 DEF IsPeak
<1>7. CASE c[i] >= c[p]
  <2>1. IsPeak(c, i, i) /\ Deepest(c, i, w) /\ Longest(c, i, l)
    BY <1>5, <1>7, NewPeak
  <2>2. DrawdownBar(acc, i, c) = [peak |-> i, worst |-> w, longest |-> l]
    BY <1>5, <1>6, <1>7 DEF DrawdownBar
  <2>3. QED
    BY <2>1, <2>2 DEF Told
<1>8. CASE c[i] < c[p]
  <2>1. /\ IsPeak(c, i, p)
        /\ Longest(c, i, Max({l, i - p}))
        /\ Deepest(c, i, IF Deeper(fall, w) THEN fall ELSE w)
    BY <1>4, <1>5, <1>8, NewFall
  <2>2. DrawdownBar(acc, i, c) = [peak |-> p, worst |-> IF Deeper(fall, w) THEN fall ELSE w,
                                  longest |-> Max({l, i - p})]
    <3>1. ~ (c[i] >= c[p])
      BY <1>6, <1>8
    <3>2. acc.peak = p /\ acc.worst = w /\ acc.longest = l
      BY <1>5
    <3>3. CASE Deeper(fall, w)
      <4>1. DrawdownBar(acc, i, c) = [acc EXCEPT !.worst = fall, !.longest = Max({l, i - p})]
        BY <1>4, <1>6, <1>8, <3>1, <3>2, <3>3 DEF DrawdownBar
      <4>2. QED
        BY <1>5, <3>3, <4>1
    <3>4. CASE ~ Deeper(fall, w)
      <4>1. DrawdownBar(acc, i, c) = [acc EXCEPT !.longest = Max({l, i - p})]
        BY <1>4, <1>6, <1>8, <3>1, <3>2, <3>4 DEF DrawdownBar
      <4>2. QED
        BY <1>5, <3>4, <4>1
    <3>5. QED
      BY <3>3, <3>4
  <2>3. QED
    BY <2>1, <2>2 DEF Told
<1>9. QED
  BY <1>6, <1>7, <1>8

LEMMA DrawdownStart ==
  ASSUME NEW n \in Nat \ {0}, NEW c \in [1 .. n -> Int], c[1] > 0
  PROVE  Told(c, 1, DrawdownBar([peak |-> 1, worst |-> NoDrawdown, longest |-> 0], 1, c))
<1>1. c[1] \in Int /\ c[1] >= c[1]
  OBVIOUS
<1>2. PICK w : w = NoDrawdown
  OBVIOUS
<1>3. DrawdownBar([peak |-> 1, worst |-> w, longest |-> 0], 1, c) = [peak |-> 1, worst |-> w, longest |-> 0]
  BY <1>1 DEF DrawdownBar
<1>4. \A a, b \in 1 .. 1 : ~ IsFall(c, a, b)
  BY DEF IsFall
<1>5. IsPeak(c, 1, 1) /\ Deepest(c, 1, w) /\ Longest(c, 1, 0)
  BY <1>1, <1>2, <1>4 DEF IsPeak, Deepest, Longest
<1>6. QED
  BY <1>2, <1>3, <1>5 DEF Told

(* Any function on a curve's bars has a place for what is known after each. *)
Falls(c, after) ==
  after = [i \in 0 .. Len(c) |->
             IF i = 0 THEN [peak |-> 1, worst |-> NoDrawdown, longest |-> 0]
             ELSE DrawdownBar(after[i - 1], i, c)]

Tallies(n) == [peak : 1 .. n, worst : [cents : Int, of : Int, peak : 0 .. n, trough : 0 .. n], longest : Int]

LEMMA TalliesStay ==
  ASSUME NEW n \in Nat, NEW c \in [1 .. n -> Int], NEW i \in 1 .. n, NEW acc \in Tallies(n)
  PROVE  DrawdownBar(acc, i, c) \in Tallies(n)
<1>1. PICK p \in 1 .. n : p = acc.peak
  BY DEF Tallies
<1>2. PICK w \in [cents : Int, of : Int, peak : 0 .. n, trough : 0 .. n] : w = acc.worst
  BY DEF Tallies
<1>3. PICK l \in Int : l = acc.longest
  BY DEF Tallies
<1>4. acc = [peak |-> p, worst |-> w, longest |-> l]
  BY <1>1, <1>2, <1>3 DEF Tallies
<1>5. PICK fall : fall = [cents |-> c[i] - c[p], of |-> c[p], peak |-> p, trough |-> i]
  OBVIOUS
<1>6. fall \in [cents : Int, of : Int, peak : 0 .. n, trough : 0 .. n]
  BY <1>5
<1>7. PICK m \in Int : m = Max({l, i - p})
  <2>1. CASE l <= i - p
    <3>1. {l, i - p} \in SUBSET Int /\ i - p \in {l, i - p} /\ \A y \in {l, i - p} : y <= i - p
      BY <2>1
    <3>2. Max({l, i - p}) = i - p
      BY <3>1, MaxIs
    <3>3. QED
      BY <3>2
  <2>2. CASE ~ (l <= i - p)
    <3>1. {l, i - p} \in SUBSET Int /\ l \in {l, i - p} /\ \A y \in {l, i - p} : y <= l
      BY <2>2
    <3>2. Max({l, i - p}) = l
      BY <3>1, MaxIs
    <3>3. QED
      BY <3>2
  <2>3. QED
    BY <2>1, <2>2
<1>8. PICK r : r = DrawdownBar(acc, i, c)
  OBVIOUS
<1>9. \/ r = [acc EXCEPT !.peak = i]
      \/ r = [acc EXCEPT !.worst = fall, !.longest = m]
      \/ r = [acc EXCEPT !.longest = m]
  <2>1. acc.peak = p /\ acc.worst = w /\ acc.longest = l
    BY <1>1, <1>2, <1>3
  <2>2. QED
    BY <1>5, <1>7, <1>8, <2>1 DEF DrawdownBar
<1>10. r \in Tallies(n)
  BY <1>4, <1>6, <1>9 DEF Tallies
<1>11. QED
  BY <1>8, <1>10

LEMMA FallsAreTold ==
  ASSUME NEW n \in Nat \ {0}, NEW c \in [1 .. n -> Int], c[1] > 0
  PROVE  \E acc : /\ Told(c, n, acc)
                  /\ Drawdowns(c) =
                       [worst |-> acc.worst, longest |-> acc.longest,
                        recovered |-> acc.worst # NoDrawdown
                                      /\ \E i \in acc.worst.trough + 1 .. n : c[i] >= c[acc.worst.peak]]
<1> DEFINE V == Tallies(n)
           base == [peak |-> 1, worst |-> NoDrawdown, longest |-> 0]
           step == [i \in 1 .. n |-> [acc \in V |-> DrawdownBar(acc, i, c)]]
           after == CHOOSE f : Falls(c, f)
<1>0. Len(c) = n
  OBVIOUS
<1>1. PICK f \in [0 .. n -> V] : Goes(f, n, base, step)
  <2>1. base \in V
    BY DEF NoDrawdown, Tallies
  <2>2. step \in [1 .. n -> [V -> V]]
    BY TalliesStay
  <2>3. PICK W, b, g : W = V /\ b = base /\ g = step
    OBVIOUS
  <2> HIDE DEF V, base, step
  <2>4. b \in W /\ g \in [1 .. n -> [W -> W]]
    BY <2>1, <2>2, <2>3
  <2>5. \E f \in [0 .. n -> W] : Goes(f, n, b, g)
    BY <2>4, GoesSomewhere
  <2>6. QED
    BY <2>3, <2>5
<1>2. Falls(c, f)
  <2>1. ASSUME NEW i \in 0 .. n
        PROVE  f[i] = IF i = 0 THEN base ELSE DrawdownBar(f[i - 1], i, c)
    <3>1. f[i] = IF i = 0 THEN base ELSE step[i][f[i - 1]]
      <4> HIDE DEF V, base, step
      <4>1. QED
        BY <1>1 DEF Goes
    <3>2. i # 0 => i \in 1 .. n /\ f[i - 1] \in V
      <4> HIDE DEF V
      <4>1. i # 0 => i \in 1 .. n /\ i - 1 \in 0 .. n
        OBVIOUS
      <4>2. QED
        BY <1>1, <4>1
    <3>3. i # 0 => step[i][f[i - 1]] = DrawdownBar(f[i - 1], i, c)
      <4> HIDE DEF V
      <4>1. QED
        BY <3>2
    <3> HIDE DEF step
    <3>4. QED
      BY <3>1, <3>3
  <2>2. f = [i \in 0 .. n |-> f[i]]
    <3> HIDE DEF V
    <3>1. QED
      BY <1>1
  <2> HIDE DEF V
  <2>3. QED
    BY <1>0, <2>1, <2>2 DEF Falls
<1>3. Falls(c, after)
  BY <1>2
<1>4. Drawdowns(c) =
        [worst |-> after[n].worst, longest |-> after[n].longest,
         recovered |-> after[n].worst # NoDrawdown
                       /\ \E i \in after[n].worst.trough + 1 .. n : c[i] >= c[after[n].worst.peak]]
  BY <1>0 DEF Drawdowns, Falls
<1> HIDE DEF after
<1>5. Told(c, n, after[n])
  <2> DEFINE S == {k \in 0 .. n : k = 0 \/ Told(c, k, after[k])}
  <2>1. 0 \in S
    OBVIOUS
  <2>2. ASSUME NEW k \in 0 .. n - 1, k \in S PROVE k + 1 \in S
    <3>1. PICK i \in 1 .. n : i = k + 1
      OBVIOUS
    <3>2. after[i] = DrawdownBar(after[i - 1], i, c)
      BY <1>0, <1>3 DEF Falls
    <3>3. CASE k = 0
      <4>1. i = 1 /\ after[i - 1] = base
        BY <1>0, <1>3, <3>1, <3>3 DEF Falls
      <4>2. QED
        BY <3>1, <3>2, <4>1, DrawdownStart
    <3>4. CASE k # 0
      <4>1. i \in 2 .. n /\ Told(c, i - 1, after[i - 1])
        BY <2>2, <3>1, <3>4
      <4>2. PICK a : a = after[i - 1]
        OBVIOUS
      <4>3. Told(c, i, DrawdownBar(a, i, c))
        BY <4>1, <4>2, DrawdownStep
      <4>4. QED
        BY <3>1, <3>2, <4>2, <4>3
    <3>5. QED
      BY <3>3, <3>4
  <2> HIDE DEF S
  <2>3. 0 .. n \subseteq S
    BY <2>1, <2>2, AlongPositions
  <2>4. QED
    BY <2>3 DEF S
<1>6. QED
  BY <1>4, <1>5

-----------------------------------------------------------------------------
(* A finite set put in order, one element after the other.                  *)

IsOrder(R, S) ==
  /\ \A x \in S : <<x, x>> \notin R
  /\ \A x, y, z \in S : <<x, y>> \in R /\ <<y, z>> \in R => <<x, z>> \in R
  /\ \A x, y \in S : x = y \/ <<x, y>> \in R \/ <<y, x>> \in R

LEMMA IsSequence ==
  ASSUME NEW n \in Nat, NEW T, NEW seq \in [1 .. n -> T]
  PROVE  seq \in Seq(T) /\ Len(seq) = n
  OBVIOUS

Place(x, S, R) == Cardinality({y \in S : <<y, x>> \in R})

LEMMA Places ==
  ASSUME NEW S, IsFiniteSet(S), NEW R, IsOrder(R, S)
  PROVE  /\ Cardinality(S) \in Nat
         /\ \A x \in S : Place(x, S, R) \in 0 .. (Cardinality(S) - 1)
         /\ \A x, y \in S : <<x, y>> \in R => Place(x, S, R) < Place(y, S, R)
         /\ \A k \in 0 .. (Cardinality(S) - 1) : \E x \in S : Place(x, S, R) = k
<1> DEFINE lower(x) == {z \in S : <<z, x>> \in R}
           below(x) == Cardinality(lower(x))
           size == Cardinality(S)
<1>0. \A x : Place(x, S, R) = below(x)
  BY DEF Place
<1>1. size \in Nat
  BY FS_CardinalityType
<1>2. ASSUME NEW x \in S
      PROVE  IsFiniteSet(lower(x)) /\ below(x) \in Nat /\ below(x) \in 0 .. (size - 1)
  <2>1. \A y \in lower(x) : y \in S \ {x}
    BY DEF IsOrder
  <2>2. IsFiniteSet(S \ {x}) /\ Cardinality(S \ {x}) = size - 1
    BY FS_RemoveElement
  <2>3. IsFiniteSet(lower(x)) /\ below(x) <= size - 1
    <3>1. PICK T : T = S \ {x}
      OBVIOUS
    <3>2. PICK L \in SUBSET T : L = lower(x)
      BY <2>1, <3>1
    <3>3. IsFiniteSet(L) /\ Cardinality(L) <= Cardinality(T)
      BY <2>2, <3>1, FS_Subset
    <3>4. QED
      BY <2>2, <3>1, <3>2, <3>3
  <2>4. QED
    BY <1>1, <2>3, FS_CardinalityType
<1>3. ASSUME NEW x \in S, NEW y \in S, <<x, y>> \in R PROVE below(x) < below(y)
  <2>1. \A z \in lower(x) : z \in lower(y) \ {x}
    BY <1>3 DEF IsOrder
  <2>2. x \in lower(y)
    BY <1>3
  <2>3. /\ IsFiniteSet(lower(y) \ {x})
        /\ Cardinality(lower(y) \ {x}) = below(y) - 1
    BY <1>2, <2>2, FS_RemoveElement
  <2>4. below(x) <= Cardinality(lower(y) \ {x})
    BY <2>1, <2>3, FS_Subset
  <2>5. below(x) \in Nat /\ below(y) \in Nat
    BY <1>2
  <2>6. QED
    BY <2>3, <2>4, <2>5
<1> HIDE DEF below
<1>4. ASSUME NEW x \in S, NEW y \in S, x # y PROVE below(x) # below(y)
  <2>1. <<x, y>> \in R \/ <<y, x>> \in R
    BY <1>4 DEF IsOrder
  <2>2. below(x) \in Nat /\ below(y) \in Nat
    BY <1>2
  <2>3. QED
    BY <1>3, <2>1, <2>2
<1>5. ASSUME NEW k \in 0 .. (size - 1), \A x \in S : below(x) # k PROVE FALSE
  <2> DEFINE number == [x \in S |-> below(x)]
             others == (0 .. (size - 1)) \ {k}
  <2>1. number \in [S -> others]
    BY <1>2, <1>5
  <2>2. IsFiniteSet(others) /\ Cardinality(others) = size - 1
    <3>1. IsFiniteSet(0 .. (size - 1)) /\ Cardinality(0 .. (size - 1)) = size
      <4>1. PICK m \in Int : m = size - 1
        BY <1>1
      <4>2. IsFiniteSet(0 .. m) /\ Cardinality(0 .. m) = IF 0 > m THEN 0 ELSE m - 0 + 1
        BY FS_Interval
      <4>3. QED
        BY <1>1, <4>1, <4>2
    <3>2. QED
      BY <3>1, FS_RemoveElement
  <2>3. \A x, y \in S : x # y => number[x] # number[y]
    BY <1>4
  <2> HIDE DEF number, others
  <2>4. Cardinality(others) < Cardinality(S)
    BY <1>1, <2>2
  <2>5. \E x, y \in S : x # y /\ number[x] = number[y]
    BY <2>1, <2>2, <2>4, FS_PigeonHole
  <2>6. QED
    BY <2>3, <2>5
<1>6. QED
  <2>1. \A x \in S : below(x) \in 0 .. (size - 1)
    BY <1>2
  <2>2. \A k \in 0 .. (size - 1) : \E x \in S : below(x) = k
    BY <1>5
  <2> HIDE DEF size
  <2>3. \A x, y \in S : <<x, y>> \in R => below(x) < below(y)
    BY <1>3
  <2>4. QED
    BY <1>0, <1>1, <2>1, <2>2, <2>3 DEF size

(* s has every element of S once, in the order of R.                        *)
Lists(s, S, R) ==
  /\ s \in Seq(S) /\ Len(s) = Cardinality(S)
  /\ \A i, j \in 1 .. Len(s) : i < j => <<s[i], s[j]>> \in R
  /\ \A x \in S : \E i \in 1 .. Len(s) : s[i] = x

(* Every position has the element that belongs there, if there is one.      *)
Placed(s, S, R) ==
  /\ s = [i \in 1 .. Cardinality(S) |-> s[i]]
  /\ \A i \in 1 .. Cardinality(S) : \A x \in S :
       Place(x, S, R) = i - 1 => s[i] \in S /\ Place(s[i], S, R) = i - 1

LEMMA ListedInOrder ==
  ASSUME NEW S, IsFiniteSet(S), NEW R, IsOrder(R, S),
         NEW s, Placed(s, S, R)
  PROVE  Lists(s, S, R)
<1> DEFINE below(x) == Place(x, S, R)
           size == Cardinality(S)
<1>1. /\ size \in Nat
      /\ \A x \in S : below(x) \in 0 .. (size - 1)
      /\ \A x, y \in S : <<x, y>> \in R => below(x) < below(y)
      /\ \A k \in 0 .. (size - 1) : \E x \in S : below(x) = k
  BY Places
<1>2. /\ s = [i \in 1 .. size |-> s[i]]
      /\ \A i \in 1 .. size : \A x \in S : below(x) = i - 1 => s[i] \in S /\ below(s[i]) = i - 1
  BY DEF Placed
<1> HIDE DEF below, size
<1>3. ASSUME NEW i \in 1 .. size PROVE s[i] \in S /\ below(s[i]) = i - 1
  <2>1. i - 1 \in 0 .. (size - 1)
    BY <1>1
  <2>2. \E x \in S : below(x) = i - 1
    BY <1>1, <2>1
  <2>3. QED
    BY <1>2, <2>2
<1>4. s \in Seq(S) /\ Len(s) = size
  <2>1. s \in [1 .. size -> S]
    BY <1>2, <1>3
  <2>2. PICK n \in Nat : n = size
    BY <1>1
  <2>3. s \in [1 .. n -> S]
    BY <2>1, <2>2
  <2>4. s \in Seq(S) /\ Len(s) = n
    BY <2>3, IsSequence
  <2>5. QED
    BY <2>2, <2>4
<1>5. ASSUME NEW i \in 1 .. size, NEW j \in 1 .. size, i < j PROVE <<s[i], s[j]>> \in R
  <2>1. PICK x \in S : x = s[i] /\ below(x) = i - 1
    BY <1>3
  <2>2. PICK y \in S : y = s[j] /\ below(y) = j - 1
    BY <1>3
  <2>3. x # y
    BY <1>1, <1>5, <2>1, <2>2
  <2>4. <<y, x>> \notin R
    <3> SUFFICES ASSUME <<y, x>> \in R PROVE FALSE
      OBVIOUS
    <3>1. below(y) < below(x)
      BY <1>1
    <3>2. QED
      BY <1>1, <1>5, <2>1, <2>2, <3>1
  <2>5. QED
    BY <2>1, <2>2, <2>3, <2>4 DEF IsOrder
<1>6. ASSUME NEW x \in S PROVE \E i \in 1 .. size : s[i] = x
  <2>1. PICK k : k = below(x) /\ k \in 0 .. (size - 1)
    BY <1>1
  <2>2. PICK i \in 1 .. size : i = k + 1 /\ k = i - 1
    BY <1>1, <2>1
  <2>3. PICK y \in S : y = s[i] /\ below(y) = k
    BY <1>3, <2>2
  <2>4. <<x, y>> \notin R /\ <<y, x>> \notin R
    <3>1. k \in Int /\ ~ (k < k)
      BY <1>1, <2>1
    <3>2. QED
      BY <1>1, <2>1, <2>3, <3>1
  <2>5. x = y
    BY <2>4 DEF IsOrder
  <2>6. QED
    BY <2>2, <2>3, <2>5
<1>7. QED
  BY <1>3, <1>4, <1>5, <1>6 DEF Lists, size

LEMMA ImageIsFinite ==
  ASSUME NEW m \in Nat, NEW f, NEW S, S = {f[i] : i \in 1 .. m}
  PROVE  IsFiniteSet(S)
<1>1. PICK g : g = [i \in 1 .. m |-> f[i]]
  OBVIOUS
<1>2. g \in Surjection(1 .. m, S)
  BY <1>1 DEF Surjection
<1>3. IsFiniteSet(1 .. m)
  BY FS_Interval
<1>4. QED
  BY <1>2, <1>3, FS_Surjection

(* The capital is cut without losing a cent.                                *)
LEMMA SharesAddUp ==
  ASSUME NEW total \in Int, NEW n \in Nat \ {0}, NEW cut, cut = SplitCapital(total, n)
  PROVE  cut \in Seq(Int) /\ Len(cut) = n /\ Total(cut) = total
<1>1. PICK q \in Int : q = total \div n
  OBVIOUS
<1>2. PICK r \in Int : r = total % n /\ 0 <= r /\ r < n
  OBVIOUS
<1>3. total = n * q + r
  BY <1>1, <1>2
<1>4. cut = [i \in 1 .. n |-> q + (IF i <= r THEN 1 ELSE 0)]
  BY <1>1, <1>2 DEF SplitCapital
<1>5. cut \in Seq(Int) /\ Len(cut) = n
  BY <1>4
<1>6. PICK f : f = [k \in 0 .. n |-> k * q + (IF k <= r THEN k ELSE r)]
  OBVIOUS
<1>7. f[0] = 0
  BY <1>2, <1>6
<1>8. ASSUME NEW k \in 1 .. n PROVE f[k] = f[k - 1] + cut[k]
  <2>1. k \in 0 .. n /\ k - 1 \in 0 .. n
    OBVIOUS
  <2>2. k * q = (k - 1) * q + q
    OBVIOUS
  <2>3. (IF k <= r THEN k ELSE r) = (IF k - 1 <= r THEN k - 1 ELSE r) + (IF k <= r THEN 1 ELSE 0)
    BY <1>2
  <2>4. PICK x, y \in Int : x = k * q /\ y = (k - 1) * q
    OBVIOUS
  <2>5. f[k] = x + (IF k <= r THEN k ELSE r) /\ f[k - 1] = y + (IF k - 1 <= r THEN k - 1 ELSE r)
    BY <1>6, <2>1, <2>4
  <2>6. cut[k] = q + (IF k <= r THEN 1 ELSE 0)
    BY <1>4
  <2>7. QED
    BY <1>2, <2>2, <2>3, <2>4, <2>5, <2>6
<1>9. Total(cut) = f[n]
  BY <1>5, <1>7, <1>8, TotalIs
<1>10. f[n] = n * q + r
  BY <1>2, <1>6
<1>11. QED
  BY <1>3, <1>5, <1>9, <1>10

-----------------------------------------------------------------------------
(* What one sleeve leaves behind.                                           *)

AnyTrade(n) == [entry : 2 .. n, exit : 2 .. n, pnl : Int, drift : Int]

IsLog(log, n) ==
  /\ log \in Seq(AnyTrade(n)) /\ Len(log) \in 0 .. 2
  /\ \A k \in 1 .. Len(log) : log[k].entry <= log[k].exit
  /\ \A j, k \in 1 .. Len(log) : j < k => log[j].exit < log[k].entry

LEMMA LogIs ==
  ASSUME NEW n \in Nat, NEW log \in TradeLogs(n)
  PROVE  IsLog(log, n)
<1> DEFINE Spans == {s \in (2 .. n) \X (2 .. n) : s[1] <= s[2]}
           One == {[entry |-> s[1], exit |-> s[2], pnl |-> o.pnl, drift |-> o.drift] :
                     s \in Spans, o \in Outcomes}
<1>1. ASSUME NEW t \in One PROVE t \in AnyTrade(n) /\ t.entry <= t.exit
  <2>1. PICK s \in Spans, o \in Outcomes :
           t = [entry |-> s[1], exit |-> s[2], pnl |-> o.pnl, drift |-> o.drift]
    OBVIOUS
  <2>2. o.pnl \in Int /\ o.drift \in Int
    BY SleevesAssumption
  <2>3. s[1] \in 2 .. n /\ s[2] \in 2 .. n /\ s[1] <= s[2]
    OBVIOUS
  <2>4. QED
    BY <2>1, <2>2, <2>3 DEF AnyTrade
<1>2. \/ log = <<>>
      \/ \E t \in One : log = <<t>>
      \/ \E t, u \in One : log = <<t, u>> /\ t.exit < u.entry
  BY DEF TradeLogs
<1> HIDE DEF One
<1>3. CASE log = <<>>
  BY <1>3 DEF IsLog
<1>4. CASE \E t \in One : log = <<t>>
  BY <1>1, <1>4 DEF IsLog
<1>5. CASE \E t, u \in One : log = <<t, u>> /\ t.exit < u.entry
  <2>1. PICK t \in One, u \in One : log = <<t, u>> /\ t.exit < u.entry
    BY <1>5
  <2>2. t \in AnyTrade(n) /\ u \in AnyTrade(n) /\ t.entry <= t.exit /\ u.entry <= u.exit
    BY <1>1
  <2>3. log \in Seq(AnyTrade(n)) /\ Len(log) = 2 /\ log[1] = t /\ log[2] = u
    BY <2>1, <2>2
  <2>4. \A j, k \in 1 .. 2 : j < k => j = 1 /\ k = 2
    OBVIOUS
  <2>5. QED
    BY <2>1, <2>2, <2>3, <2>4 DEF IsLog
<1>6. QED
  BY <1>2, <1>3, <1>4, <1>5

Point == [ts : Int, cents : Int]

IsSleeve(s, held, cap) ==
  /\ s.equity \in Seq(Point) /\ Len(s.equity) = Len(held.candles)
  /\ \A i \in 1 .. Len(s.equity) : s.equity[i].ts = held.candles[i].ts
  /\ s.equity[1].cents = cap

WorthOf(log, i) ==
  [k \in DOMAIN log |-> IF log[k].exit <= i THEN log[k].pnl
                        ELSE IF log[k].entry <= i THEN log[k].drift ELSE 0]

LEMMA WorthIs ==
  ASSUME NEW n \in Nat, NEW log, IsLog(log, n), NEW i \in 1 .. n
  PROVE  /\ WorthOf(log, i) \in Seq(Int) /\ Len(WorthOf(log, i)) = Len(log)
         /\ i = 1 => Total(WorthOf(log, i)) = 0
<1>1. PICK m \in Nat : m = Len(log)
  BY DEF IsLog
<1>2. \A k \in 1 .. m : log[k] \in AnyTrade(n)
  BY <1>1 DEF IsLog
<1>3. \A k \in 1 .. m : /\ log[k].entry \in 2 .. n /\ log[k].exit \in 2 .. n
                         /\ log[k].pnl \in Int /\ log[k].drift \in Int
  BY <1>2 DEF AnyTrade
<1>4. DOMAIN log = 1 .. m
  BY <1>1 DEF IsLog
<1>5. PICK w : w = WorthOf(log, i)
  OBVIOUS
<1>6. w = [k \in 1 .. m |-> IF log[k].exit <= i THEN log[k].pnl
                           ELSE IF log[k].entry <= i THEN log[k].drift ELSE 0]
  BY <1>4, <1>5 DEF WorthOf
<1>7. w \in [1 .. m -> Int]
  BY <1>3, <1>6
<1>8. w \in Seq(Int) /\ Len(w) = m
  BY <1>7, IsSequence
<1>9. ASSUME i = 1 PROVE Total(w) = 0
  <2>1. PICK f : f = [k \in 0 .. m |-> 0]
    OBVIOUS
  <2>2. f[0] = 0 /\ f[m] = 0
    BY <2>1
  <2>3. \A k \in 1 .. Len(w) : f[k] = f[k - 1] + w[k]
    <3>1. \A k \in 1 .. m : w[k] = 0
      BY <1>3, <1>6, <1>9
    <3>2. \A k \in 1 .. m : f[k] = 0 /\ f[k - 1] = 0
      BY <2>1
    <3>3. QED
      BY <1>8, <3>1, <3>2
  <2>4. QED
    BY <1>8, <2>2, <2>3, TotalIs
<1>10. QED
  BY <1>1, <1>5, <1>8, <1>9

LEMMA SleeveIs ==
  ASSUME NEW held, held.candles \in Seq(Listing), NEW n \in Nat, n = Len(held.candles), n >= 2,
         NEW cap \in Int, NEW index, NEW log, IsLog(log, n)
  PROVE  IsSleeve(SleeveOf(held, cap, index, log), held, cap)
<1>1. PICK points : points = SleeveOf(held, cap, index, log).equity
  OBVIOUS
<1>2. points = [i \in 1 .. n |-> [ts |-> held.candles[i].ts, cents |-> cap + Total(WorthOf(log, i))]]
  BY <1>1 DEF SleeveOf, WorthOf
<1>3. ASSUME NEW i \in 1 .. n PROVE points[i] \in Point
  <2>1. Total(WorthOf(log, i)) \in Int
    <3>1. PICK w : w = WorthOf(log, i) /\ w \in Seq(Int)
      BY WorthIs
    <3>2. QED
      BY <3>1, TotalIsNumber
  <2>2. held.candles[i].ts \in Int
    <3>1. PICK candle \in Listing : candle = held.candles[i]
      OBVIOUS
    <3>2. QED
      BY <3>1 DEF Listing
  <2>3. QED
    BY <1>2, <2>1, <2>2 DEF Point
<1>4. points \in Seq(Point) /\ Len(points) = n
  <2>1. points \in [1 .. n -> Point]
    BY <1>2, <1>3
  <2>2. QED
    BY <2>1, IsSequence
<1>5. points[1].cents = cap
  <2>1. 1 \in 1 .. n
    OBVIOUS
  <2>2. Total(WorthOf(log, 1)) = 0
    BY <2>1, WorthIs
  <2>3. QED
    BY <1>2, <2>1, <2>2
<1>6. QED
  BY <1>1, <1>2, <1>4, <1>5 DEF IsSleeve

-----------------------------------------------------------------------------
(* The stamps of a basket.                                                  *)

Less(U) == {p \in U \X U : p[1] < p[2]}

LEMMA LessIsOrder ==
  ASSUME NEW U \in SUBSET Int
  PROVE  IsOrder(Less(U), U)
<1> DEFINE R == Less(U)
<1>1. \A x, y \in U : <<x, y>> \in R <=> x < y
  BY DEF Less
<1>2. \A x \in U : x \in Int
  OBVIOUS
<1> HIDE DEF R
<1>3. \A x \in U : <<x, x>> \notin R
  BY <1>1, <1>2
<1>4. \A x, y, z \in U : <<x, y>> \in R /\ <<y, z>> \in R => <<x, z>> \in R
  <2> TAKE x, y, z \in U
  <2>1. x < y /\ y < z => x < z
    BY <1>2
  <2>2. QED
    BY <1>1, <2>1
<1>5. \A x, y \in U : x = y \/ <<x, y>> \in R \/ <<y, x>> \in R
  <2> TAKE x, y \in U
  <2>1. x = y \/ x < y \/ y < x
    BY <1>2
  <2>2. QED
    BY <1>1, <2>1
<1>6. QED
  BY <1>3, <1>4, <1>5 DEF IsOrder, R

LEMMA NumbersInOrder ==
  ASSUME NEW U \in SUBSET Int, IsFiniteSet(U), NEW s, s = InOrder(U, <)
  PROVE  Lists(s, U, Less(U))
<1> DEFINE R == Less(U)
<1>1. IsOrder(R, U)
  BY LessIsOrder
<1>2. s = [i \in 1 .. Cardinality(U) |-> CHOOSE x \in U : Cardinality({y \in U : y < x}) = i - 1]
  BY DEF InOrder
<1>3. \A x \in U : Place(x, U, R) = Cardinality({y \in U : y < x})
  <2> TAKE x \in U
  <2>1. {z \in U : <<z, x>> \in R} = {y \in U : y < x}
    BY DEF Less
  <2>2. QED
    BY <2>1 DEF Place
<1>4. ASSUME NEW i \in 1 .. Cardinality(U), NEW x \in U, Place(x, U, R) = i - 1
      PROVE  s[i] \in U /\ Place(s[i], U, R) = i - 1
  <2>1. s[i] = CHOOSE z \in U : Cardinality({y \in U : y < z}) = i - 1
    BY <1>2
  <2>2. Cardinality({y \in U : y < x}) = i - 1
    BY <1>3, <1>4
  <2>3. s[i] \in U /\ Cardinality({y \in U : y < s[i]}) = i - 1
    BY <2>1, <2>2
  <2>4. QED
    BY <1>3, <2>3
<1>5. s = [i \in 1 .. Cardinality(U) |-> s[i]]
  BY <1>2
<1>6. Placed(s, U, R)
  BY <1>4, <1>5 DEF Placed
<1> HIDE DEF R
<1>7. QED
  BY <1>1, <1>6, ListedInOrder DEF R

(* A basket's results, and what comes out of them.                          *)
AreParts(results, insts, cut) ==
  /\ Len(results) \in Nat \ {0} /\ results = [i \in 1 .. Len(results) |-> results[i]]
  /\ \A i \in 1 .. Len(results) : /\ Len(insts[i].candles) \in Nat /\ Len(insts[i].candles) >= 2
                                   /\ IsSleeve(results[i], insts[i], cut[i])
  /\ \A i \in 1 .. Len(results) : \A j, k \in 1 .. Len(results[i].equity) :
       j < k => results[i].equity[j].ts < results[i].equity[k].ts
  /\ cut \in Seq(Int) /\ Len(cut) = Len(results)

LEMMA StampsAre ==
  ASSUME NEW results, NEW insts, NEW cut, AreParts(results, insts, cut),
         NEW stamps, stamps = UnionStamps(results)
  PROVE  /\ stamps \in Seq(Int) /\ Len(stamps) # 0
         /\ \A i, j \in 1 .. Len(stamps) : i < j => stamps[i] < stamps[j]
         /\ \A k \in 1 .. Len(stamps) : \E i \in 1 .. Len(results) :
              \E j \in 1 .. Len(results[i].equity) : stamps[k] = results[i].equity[j].ts
         /\ \A i \in 1 .. Len(results) : \A j \in 1 .. Len(results[i].equity) :
              \E k \in 1 .. Len(stamps) : stamps[k] = results[i].equity[j].ts
<1>1. PICK m \in Nat \ {0} : m = Len(results) /\ DOMAIN results = 1 .. m
  BY DEF AreParts
<1> DEFINE own == [i \in 1 .. m |-> {results[i].equity[j].ts : j \in 1 .. Len(results[i].equity)}]
<1>2. ASSUME NEW i \in 1 .. m
      PROVE  /\ results[i].equity \in Seq(Point) /\ Len(results[i].equity) \in Nat \ {0}
             /\ \A j \in 1 .. Len(results[i].equity) : results[i].equity[j].ts \in Int
  <2>1. results[i].equity \in Seq(Point) /\ Len(results[i].equity) \in Nat \ {0}
    <3>1. /\ Len(insts[i].candles) \in Nat /\ Len(insts[i].candles) >= 2
          /\ IsSleeve(results[i], insts[i], cut[i])
      BY <1>1 DEF AreParts
    <3>2. results[i].equity \in Seq(Point) /\ Len(results[i].equity) = Len(insts[i].candles)
      BY <3>1 DEF IsSleeve
    <3>3. QED
      BY <3>1, <3>2
  <2>2. ASSUME NEW j \in 1 .. Len(results[i].equity) PROVE results[i].equity[j].ts \in Int
    <3>1. results[i].equity[j] \in Point
      BY <2>1
    <3>2. QED
      BY <3>1 DEF Point
  <2>3. QED
    BY <2>1, <2>2
<1>3. \A i \in 1 .. m : Range(StampsOf(results[i].equity)) = own[i]
  <2> TAKE i \in 1 .. m
  <2>1. PICK e \in Seq(Point) : e = results[i].equity
    BY <1>2
  <2>2. PICK f : f = [j \in 1 .. Len(e) |-> e[j].ts]
    OBVIOUS
  <2>3. StampsOf(e) = f
    BY <2>2 DEF StampsOf
  <2>4. Range(f) = {e[j].ts : j \in 1 .. Len(e)}
    BY <2>2 DEF Range
  <2>5. QED
    BY <2>1, <2>3, <2>4
<1>4. PICK U : U = UNION {own[i] : i \in 1 .. m}
  OBVIOUS
<1>5. U = UNION {Range(StampsOf(results[i].equity)) : i \in DOMAIN results}
  <2>1. {Range(StampsOf(results[i].equity)) : i \in DOMAIN results} = {own[i] : i \in 1 .. m}
    <3> HIDE DEF own
    <3>1. QED
      BY <1>1, <1>3
  <2>2. QED
    BY <1>4, <2>1
<1>6. IsFiniteSet(U)
  <2>1. ASSUME NEW i \in 1 .. m PROVE IsFiniteSet(own[i])
    <3>1. PICK n \in Nat : n = Len(results[i].equity)
      BY <1>2
    <3>2. PICK f : f = [j \in 1 .. n |-> results[i].equity[j].ts]
      OBVIOUS
    <3>3. own[i] = {f[j] : j \in 1 .. n}
      BY <3>1, <3>2
    <3> HIDE DEF own
    <3>4. QED
      BY <3>3, ImageIsFinite
  <2>2. PICK parts : parts = {own[i] : i \in 1 .. m}
    OBVIOUS
  <2> HIDE DEF own
  <2>3. IsFiniteSet(parts)
    BY <2>2, ImageIsFinite
  <2>4. \A part \in parts : IsFiniteSet(part)
    BY <2>1, <2>2
  <2>5. QED
    BY <1>4, <2>2, <2>3, <2>4, FS_UNION
<1>7. /\ \A x \in U : x \in Int /\ \E i \in 1 .. m : \E j \in 1 .. Len(results[i].equity) :
                                     x = results[i].equity[j].ts
      /\ \A i \in 1 .. m : \A j \in 1 .. Len(results[i].equity) : results[i].equity[j].ts \in U
  BY <1>2, <1>4
<1> HIDE DEF own
<1>8. stamps = InOrder(U, <)
  BY <1>5 DEF UnionStamps
<1>9. Lists(stamps, U, Less(U))
  <2>1. U \in SUBSET Int
    BY <1>7
  <2>2. QED
    BY <1>6, <1>8, <2>1, NumbersInOrder
<1>10. stamps \in Seq(Int) /\ \A k \in 1 .. Len(stamps) : stamps[k] \in U
  BY <1>7, <1>9 DEF Lists
<1>11. \A i, j \in 1 .. Len(stamps) : i < j => stamps[i] < stamps[j]
  BY <1>9 DEF Lists, Less
<1>12. \A x \in U : \E k \in 1 .. Len(stamps) : stamps[k] = x
  BY <1>9 DEF Lists
<1>13. Len(stamps) # 0
  <2>1. 1 \in 1 .. m /\ 1 \in 1 .. Len(results[1].equity)
    BY <1>2
  <2>2. PICK k \in 1 .. Len(stamps) : TRUE
    BY <1>7, <1>12, <2>1
  <2>3. QED
    BY <1>10, <2>2
<1>14. QED
  BY <1>1, <1>7, <1>10, <1>11, <1>12, <1>13

-----------------------------------------------------------------------------
(* The curve of a basket.                                                   *)

Increasing(f, n) == \A j, k \in 1 .. n : j < k => f[j] < f[k]

(* The stamps and the values of one curve.                                  *)
IsCurve(n, own, values) ==
  /\ n \in Nat \ {0} /\ own \in [1 .. n -> Int] /\ values \in [1 .. n -> Int]
  /\ Increasing(own, n)

(* a is that curve on other stamps, from start to its last value.           *)
Carried(a, stamps, n, own, values, start) ==
  /\ a \in [DOMAIN stamps -> Int]
  /\ \A k \in DOMAIN stamps : values[1] = start /\ stamps[k] <= own[1] => a[k] = start
  /\ \A k \in DOMAIN stamps : stamps[k] >= own[n] => a[k] = values[n]

LEMMA AlignedIs ==
  ASSUME NEW n, NEW own, NEW values, IsCurve(n, own, values),
         NEW start \in Int, NEW l \in Nat, NEW stamps \in [1 .. l -> Int]
  PROVE  Carried(AlignSleeve(stamps, own, values, start), stamps, n, own, values, start)
<1>0. n \in Nat \ {0} /\ own \in [1 .. n -> Int] /\ values \in [1 .. n -> Int]
      /\ Increasing(own, n)
  BY DEF IsCurve
<1>a. PICK a : a = AlignSleeve(stamps, own, values, start)
  OBVIOUS
<1> DEFINE past(k) == {i \in 1 .. n : own[i] <= stamps[k]}
<1>1. a = [k \in 1 .. l |-> IF past(k) = {} THEN start ELSE values[Max(past(k))]]
  BY <1>0, <1>a DEF AlignSleeve
<1>2. ASSUME NEW k \in 1 .. l PROVE past(k) # {} => Max(past(k)) \in past(k)
  <2>1. PICK S : S = past(k) /\ S \subseteq 1 .. n
    OBVIOUS
  <2>2. ASSUME S # {} PROVE Max(S) \in S
    <3>1. n \in Int
      BY <1>0
    <3>2. QED
      BY <2>1, <2>2, <3>1, LargestNatural
  <2>3. QED
    BY <2>1, <2>2
<1>3. a \in [1 .. l -> Int]
  <2>1. \A k \in 1 .. l : past(k) # {} => values[Max(past(k))] \in Int
    BY <1>0, <1>2
  <2> HIDE DEF past
  <2>2. QED
    BY <1>1, <2>1
<1>4. ASSUME NEW k \in 1 .. l, values[1] = start, stamps[k] <= own[1] PROVE a[k] = start
  <2>1. \A i \in past(k) : i = 1
    <3> TAKE i \in past(k)
    <3>1. i \in 1 .. n /\ own[i] <= stamps[k] /\ own[i] \in Int /\ own[1] \in Int /\ stamps[k] \in Int
      BY <1>0
    <3>2. ~ (own[1] < own[i])
      BY <1>4, <3>1
    <3>3. 1 \in 1 .. n /\ (1 < i => own[1] < own[i])
      BY <1>0, <3>1 DEF Increasing
    <3>4. QED
      BY <3>1, <3>2, <3>3
  <2> HIDE DEF past
  <2>2. past(k) # {} => Max(past(k)) = 1
    BY <1>2, <2>1
  <2>3. QED
    BY <1>1, <1>4, <2>2
<1>5. ASSUME NEW k \in 1 .. l, stamps[k] >= own[n] PROVE a[k] = values[n]
  <2>1. n \in past(k)
    BY <1>0, <1>5
  <2>2. Max(past(k)) = n
    <3>1. PICK S : S = past(k)
      OBVIOUS
    <3>2. S \in SUBSET Int /\ n \in S /\ \A i \in S : i <= n
      BY <1>0, <2>1, <3>1
    <3>3. Max(S) = n
      BY <3>2, MaxIs
    <3>4. QED
      BY <3>1, <3>3
  <2> HIDE DEF past
  <2>3. QED
    BY <1>1, <2>1, <2>2
<1>6. QED
  BY <1>a, <1>3, <1>4, <1>5 DEF Carried

CentsOf(points) == [k \in DOMAIN points |-> points[k].cents]

AlignedTo(results, stamps, cut) ==
  [i \in DOMAIN results |->
     AlignSleeve(stamps, StampsOf(results[i].equity), CentsOf(results[i].equity), cut[i])]

LEMMA PartIs ==
  ASSUME NEW results, NEW insts, NEW cut, AreParts(results, insts, cut), NEW i \in 1 .. Len(results)
  PROVE  \E n, own, values :
           /\ IsCurve(n, own, values) /\ n = Len(results[i].equity)
           /\ StampsOf(results[i].equity) = own /\ CentsOf(results[i].equity) = values
           /\ \A j \in 1 .. n : own[j] = results[i].equity[j].ts
           /\ values[1] = cut[i] /\ cut[i] \in Int
<1>1. /\ Len(insts[i].candles) \in Nat /\ Len(insts[i].candles) >= 2
      /\ IsSleeve(results[i], insts[i], cut[i])
      /\ \A j, k \in 1 .. Len(results[i].equity) :
            j < k => results[i].equity[j].ts < results[i].equity[k].ts
      /\ cut \in Seq(Int) /\ Len(cut) = Len(results)
  BY DEF AreParts
<1>2. PICK points \in Seq(Point) : points = results[i].equity /\ points[1].cents = cut[i]
                                 /\ Len(points) = Len(insts[i].candles)
  BY <1>1 DEF IsSleeve
<1>3. PICK n \in Nat \ {0} : n = Len(points)
  BY <1>1, <1>2
<1>4. \A j \in 1 .. n : points[j].ts \in Int /\ points[j].cents \in Int
  <2> TAKE j \in 1 .. n
  <2>1. points[j] \in Point
    BY <1>3
  <2>2. QED
    BY <2>1 DEF Point
<1>5. PICK own : own = [j \in 1 .. n |-> points[j].ts]
  OBVIOUS
<1>6. PICK values : values = [j \in 1 .. n |-> points[j].cents]
  OBVIOUS
<1>7. own \in [1 .. n -> Int] /\ values \in [1 .. n -> Int]
  BY <1>4, <1>5, <1>6
<1>8. DOMAIN points = 1 .. n
  BY <1>3
<1>9. StampsOf(points) = own /\ CentsOf(points) = values
  BY <1>5, <1>6, <1>8 DEF StampsOf, CentsOf
<1>10. values[1] = cut[i] /\ cut[i] \in Int
  BY <1>1, <1>2, <1>6
<1>11. Increasing(own, n)
  BY <1>1, <1>2, <1>3, <1>5 DEF Increasing
<1>12. QED
  BY <1>2, <1>3, <1>5, <1>7, <1>9, <1>10, <1>11 DEF IsCurve

LEMMA BasketCurveIs ==
  ASSUME NEW results, NEW insts, NEW cut, AreParts(results, insts, cut),
         NEW stamps, stamps = UnionStamps(results),
         NEW curve, curve = SumAligned(AlignedTo(results, stamps, cut), stamps)
  PROVE  /\ Len(stamps) \in Nat \ {0} /\ curve \in [1 .. Len(stamps) -> Int]
         /\ curve[1] = Total(cut)
<1>1. /\ stamps \in Seq(Int) /\ Len(stamps) # 0
      /\ \A i, j \in 1 .. Len(stamps) : i < j => stamps[i] < stamps[j]
      /\ \A i \in 1 .. Len(results) : \A j \in 1 .. Len(results[i].equity) :
           \E k \in 1 .. Len(stamps) : stamps[k] = results[i].equity[j].ts
  BY StampsAre
<1>2. PICK l \in Nat \ {0} : l = Len(stamps)
  BY <1>1
<1>3. PICK m \in Nat \ {0} : m = Len(results) /\ DOMAIN results = 1 .. m
  BY DEF AreParts
<1>4. cut \in Seq(Int) /\ Len(cut) = m
  BY <1>3 DEF AreParts
<1>5. PICK aligned : aligned = AlignedTo(results, stamps, cut)
  OBVIOUS
<1>6. aligned = [i \in 1 .. m |-> AlignSleeve(stamps, StampsOf(results[i].equity),
                                              CentsOf(results[i].equity), cut[i])]
  BY <1>3, <1>5 DEF AlignedTo
<1>7. ASSUME NEW i \in 1 .. m
      PROVE  aligned[i] \in [1 .. l -> Int] /\ aligned[i][1] = cut[i]
  <2>1. PICK n, own, values :
           /\ IsCurve(n, own, values) /\ n = Len(results[i].equity)
           /\ StampsOf(results[i].equity) = own /\ CentsOf(results[i].equity) = values
           /\ \A j \in 1 .. n : own[j] = results[i].equity[j].ts
           /\ values[1] = cut[i] /\ cut[i] \in Int
    BY <1>3, PartIs
  <2>2. PICK start \in Int : start = cut[i]
    BY <2>1
  <2>3. PICK a : a = AlignSleeve(stamps, own, values, start)
    OBVIOUS
  <2>4. aligned[i] = a
    BY <1>6, <2>1, <2>2, <2>3
  <2>5. PICK line \in [1 .. l -> Int] : line = stamps
    BY <1>1, <1>2
  <2>6. a = AlignSleeve(line, own, values, start)
    BY <2>3, <2>5
  <2>7. /\ a \in [1 .. l -> Int]
        /\ \A k \in 1 .. l : values[1] = start /\ line[k] <= own[1] => a[k] = start
    <3>1. IsCurve(n, own, values)
      BY <2>1
    <3>2. l \in Nat
      OBVIOUS
    <3>3. Carried(a, line, n, own, values, start)
      BY <2>6, <3>1, <3>2, AlignedIs
    <3>4. QED
      BY <3>3 DEF Carried
  <2>8. line[1] <= own[1]
    <3>1. 1 \in 1 .. n /\ own[1] \in Int
      <4>1. n \in Nat \ {0} /\ own \in [1 .. n -> Int]
        BY <2>1 DEF IsCurve
      <4>2. QED
        BY <4>1
    <3>2. PICK k \in 1 .. l : line[k] = own[1]
      <4>1. 1 \in 1 .. Len(results[i].equity) /\ own[1] = results[i].equity[1].ts
        BY <2>1, <3>1
      <4>2. \E k \in 1 .. Len(stamps) : stamps[k] = results[i].equity[1].ts
        BY <1>1, <1>3, <4>1
      <4>3. QED
        BY <1>2, <2>5, <4>1, <4>2
    <3>3. 1 \in 1 .. l /\ line[1] \in Int
      OBVIOUS
    <3>4. k = 1 \/ line[1] < line[k]
      BY <1>1, <1>2, <2>5, <3>3
    <3>5. QED
      BY <3>1, <3>2, <3>3, <3>4
  <2>9. QED
    BY <2>1, <2>2, <2>4, <2>7, <2>8
<1>8. curve = [k \in 1 .. l |-> Total([i \in 1 .. m |-> aligned[i][k]])]
  <2>1. DOMAIN stamps = 1 .. l /\ DOMAIN aligned = 1 .. m
    BY <1>1, <1>2, <1>6
  <2>2. QED
    BY <1>5, <2>1 DEF SumAligned
<1>9. ASSUME NEW k \in 1 .. l PROVE Total([i \in 1 .. m |-> aligned[i][k]]) \in Int
  <2>1. PICK column : column = [i \in 1 .. m |-> aligned[i][k]]
    OBVIOUS
  <2>2. column \in [1 .. m -> Int]
    BY <1>7, <2>1
  <2>3. column \in Seq(Int)
    BY <2>2, IsSequence
  <2>4. QED
    BY <2>1, <2>3, TotalIsNumber
<1>10. curve[1] = Total(cut)
  <2>1. [i \in 1 .. m |-> aligned[i][1]] = cut
    <3>1. cut = [i \in 1 .. m |-> cut[i]]
      BY <1>4
    <3>2. QED
      BY <1>7, <3>1
  <2>2. 1 \in 1 .. l
    OBVIOUS
  <2>3. QED
    BY <1>8, <2>1, <2>2
<1>11. QED
  BY <1>2, <1>8, <1>9, <1>10

-----------------------------------------------------------------------------
(* What is true of a run at every step.                                     *)

(* Every result is that of a symbol on its share, and the report is put     *)
(* together from all of them.                                               *)
SleevesInv ==
  /\ request \in Requests
  /\ stage \in {"running", "refused", "done"}
  /\ stage # "refused" =>
       Runnable(request) /\ shares = SplitCapital(request.capital, Len(request.instruments))
  /\ Len(sleeves) \in 0 .. Len(request.instruments)
  /\ sleeves = [i \in 1 .. Len(sleeves) |-> sleeves[i]]
  /\ stage = "refused" => Len(sleeves) = 0
  /\ \A i \in 1 .. Len(sleeves) : \E log \in TradeLogs(Len(request.instruments[i].candles)) :
       sleeves[i] = SleeveOf(request.instruments[i], shares[i], request.index, log)
  /\ Done => /\ Len(sleeves) = Len(request.instruments)
             /\ result = IF Len(sleeves) = 1 THEN RunAlone(sleeves[1]) ELSE RunBasket(sleeves)

LEMMA AppendIs ==
  ASSUME NEW n \in Nat, NEW s, s = [i \in 1 .. n |-> s[i]], NEW x, NEW t, t = Append(s, x)
  PROVE  /\ Len(s) = n /\ Len(t) = n + 1 /\ t = [i \in 1 .. n + 1 |-> t[i]]
         /\ t[n + 1] = x /\ \A i \in 1 .. n : t[i] = s[i]
<1>1. PICK T : T = {s[i] : i \in 1 .. n} \cup {x}
  OBVIOUS
<1>2. s \in [1 .. n -> T] /\ x \in T
  BY <1>1
<1>3. s \in Seq(T) /\ Len(s) = n
  BY <1>2, IsSequence
<1>4. QED
  BY <1>2, <1>3

LEMMA SleevesStart == SleevesInit => SleevesInv
<1> SUFFICES ASSUME SleevesInit PROVE SleevesInv
  OBVIOUS
<1>1. request \in Requests /\ sleeves = <<>>
  BY DEF SleevesInit
<1>2. request.instruments \in Seq([symbol : Nat, candles : Seq(Listing)])
  BY <1>1, SleevesAssumption DEF IsRequest
<1>3. Len(sleeves) \in 0 .. Len(request.instruments) /\ Len(sleeves) = 0
      /\ sleeves = [i \in 1 .. Len(sleeves) |-> sleeves[i]]
  BY <1>1, <1>2
<1>4. QED
  BY <1>1, <1>3 DEF SleevesInit, SleevesInv, Done

LEMMA SleevesKeep == SleevesInv /\ [SleevesNext]_sleevesVars => SleevesInv'
<1> SUFFICES ASSUME SleevesInv, [SleevesNext]_sleevesVars PROVE SleevesInv'
  OBVIOUS
<1>1. ASSUME RunSleeve PROVE SleevesInv'
  <2>1. /\ stage = "running" /\ Len(sleeves) < Len(request.instruments)
        /\ UNCHANGED <<request, shares, stage, result>>
    BY <1>1 DEF RunSleeve
  <2>2. PICK n \in Nat : n = Len(sleeves) /\ sleeves = [i \in 1 .. n |-> sleeves[i]]
    BY DEF SleevesInv
  <2>3. PICK log \in TradeLogs(Len(request.instruments[n + 1].candles)) :
          sleeves' = Append(sleeves, SleeveOf(request.instruments[n + 1], shares[n + 1], request.index, log))
    BY <1>1, <2>2 DEF RunSleeve
  <2>4. PICK x : x = SleeveOf(request.instruments[n + 1], shares[n + 1], request.index, log)
    OBVIOUS
  <2>5. PICK s : s = sleeves
    OBVIOUS
  <2>6. PICK t : t = sleeves' /\ t = Append(s, x)
    BY <2>3, <2>4, <2>5
  <2>7. /\ Len(t) = n + 1 /\ t = [i \in 1 .. n + 1 |-> t[i]]
        /\ t[n + 1] = x /\ \A i \in 1 .. n : t[i] = s[i]
    BY <2>2, <2>5, <2>6, AppendIs
  <2>8. request.instruments \in Seq([symbol : Nat, candles : Seq(Listing)])
    BY SleevesAssumption DEF SleevesInv, IsRequest
  <2>9. (n + 1) \in 0 .. Len(request.instruments)
    BY <2>1, <2>2, <2>8
  <2>10. ASSUME NEW i \in 1 .. n + 1
         PROVE  \E l \in TradeLogs(Len(request.instruments[i].candles)) :
                  t[i] = SleeveOf(request.instruments[i], shares[i], request.index, l)
    <3>1. CASE i = n + 1
      BY <2>3, <2>4, <2>7, <3>1
    <3>2. CASE i # n + 1
      <4>1. i \in 1 .. n
        BY <3>2
      <4>2. t[i] = sleeves[i]
        BY <2>5, <2>7, <4>1
      <4>3. QED
        BY <2>2, <4>1, <4>2 DEF SleevesInv
    <3>3. QED
      BY <3>1, <3>2
  <2>11. QED
    BY <2>1, <2>6, <2>7, <2>9, <2>10 DEF SleevesInv, Done
<1>2. ASSUME Merge PROVE SleevesInv'
  <2>1. RunBasket(sleeves)' = RunBasket(sleeves)
    BY <1>2 DEF Merge, RunBasket, Aligned, SumBenchmark, Metrics
  <2>2. RunAlone(sleeves[1])' = RunAlone(sleeves[1])
    BY <1>2 DEF Merge, RunAlone, Metrics
  <2>3. QED
    BY <1>2, <2>1, <2>2 DEF Merge, SleevesInv, Done
<1>3. ASSUME UNCHANGED sleevesVars PROVE SleevesInv'
  <2>1. UNCHANGED <<request, shares, sleeves, stage, result>>
    BY <1>3 DEF sleevesVars
  <2>2. RunBasket(sleeves)' = RunBasket(sleeves)
    BY <2>1 DEF RunBasket, Aligned, SumBenchmark, Metrics
  <2>3. RunAlone(sleeves[1])' = RunAlone(sleeves[1])
    BY <2>1 DEF RunAlone, Metrics
  <2>4. QED
    BY <2>1, <2>2, <2>3 DEF SleevesInv, Done
<1>4. QED
  BY <1>1, <1>2, <1>3 DEF SleevesNext

LEMMA SleevesInvariant == SleevesSpec => []SleevesInv
<1>1. QED
  BY SleevesStart, SleevesKeep, PTL DEF SleevesSpec

-----------------------------------------------------------------------------
(* What a finished run is made of.                                          *)

LEMMA PartsAre ==
  SleevesInv /\ Done =>
    /\ AreParts(sleeves, request.instruments, shares)
    /\ Total(shares) = request.capital /\ request.capital \in Nat \ {0}
    /\ Len(sleeves) = 1 => shares[1] = request.capital
<1> SUFFICES ASSUME SleevesInv, Done
             PROVE  /\ AreParts(sleeves, request.instruments, shares)
                    /\ Total(shares) = request.capital /\ request.capital \in Nat \ {0}
                    /\ Len(sleeves) = 1 => shares[1] = request.capital
  OBVIOUS
<1>1. PICK r \in Requests : r = request
  BY DEF SleevesInv
<1>2. IsRequest(r)
  BY SleevesAssumption
<1>3. Runnable(r) /\ shares = SplitCapital(r.capital, Len(r.instruments))
  BY <1>1 DEF SleevesInv, Done
<1>4. PICK insts \in Seq([symbol : Nat, candles : Seq(Listing)]) : insts = r.instruments
  BY <1>2 DEF IsRequest
<1>5. PICK m \in Nat \ {0} : m = Len(insts)
  BY <1>3, <1>4 DEF Runnable
<1>6. Len(sleeves) = m /\ sleeves = [i \in 1 .. m |-> sleeves[i]]
  BY <1>1, <1>4, <1>5 DEF SleevesInv
<1>7. PICK capital \in Int : capital = r.capital /\ capital >= 1
  BY <1>2, <1>3 DEF IsRequest, Runnable
<1>8. PICK cut : cut = SplitCapital(capital, m) /\ cut = shares
  BY <1>3, <1>4, <1>5, <1>7
<1>9. cut \in Seq(Int) /\ Len(cut) = m /\ Total(cut) = capital
  BY <1>8, SharesAddUp
<1>10. ASSUME NEW i \in 1 .. m
       PROVE  /\ Len(insts[i].candles) \in Nat /\ Len(insts[i].candles) >= 2
              /\ IsSleeve(sleeves[i], insts[i], cut[i])
              /\ \A j, k \in 1 .. Len(sleeves[i].equity) :
                   j < k => sleeves[i].equity[j].ts < sleeves[i].equity[k].ts
  <2>1. PICK held \in [symbol : Nat, candles : Seq(Listing)] : held = insts[i]
    <3>1. PICK T : T = [symbol : Nat, candles : Seq(Listing)]
      OBVIOUS
    <3>2. insts \in Seq(T)
      BY <3>1
    <3>3. insts[i] \in T
      BY <1>5, <3>2
    <3>4. QED
      BY <3>1, <3>3
  <2>2. PICK n \in Nat : n = Len(held.candles)
    BY <2>1
  <2>3. n >= 2
    BY <1>3, <1>4, <1>5, <2>1, <2>2 DEF Runnable
  <2>4. PICK log \in TradeLogs(n) : sleeves[i] = SleeveOf(held, cut[i], r.index, log)
    BY <1>1, <1>4, <1>6, <1>8, <2>1, <2>2 DEF SleevesInv
  <2>5. PICK share \in Int : share = cut[i]
    <3>1. cut \in [1 .. m -> Int]
      BY <1>9
    <3>2. cut[i] \in Int
      BY <3>1
    <3>3. QED
      BY <3>2
  <2>6. held.candles \in Seq(Listing) /\ IsLog(log, n)
    BY <2>4, LogIs
  <2>7. PICK s : s = SleeveOf(held, share, r.index, log)
    OBVIOUS
  <2>8. IsSleeve(s, held, share)
    BY <2>2, <2>3, <2>6, <2>7, SleeveIs
  <2>9. \A j, k \in 1 .. n : j < k => held.candles[j].ts < held.candles[k].ts
    <3>1. \A k \in DOMAIN r.instruments : \A j, l \in DOMAIN r.instruments[k].candles :
            j < l => r.instruments[k].candles[j].ts < r.instruments[k].candles[l].ts
      BY <1>2 DEF IsRequest
    <3>2. i \in DOMAIN r.instruments
      <4>1. DOMAIN insts = 1 .. m
        BY <1>5
      <4>2. QED
        BY <1>4, <4>1
    <3>3. DOMAIN held.candles = 1 .. n
      BY <2>2, <2>6
    <3>4. r.instruments[i] = held
      BY <1>4, <2>1
    <3>5. QED
      BY <3>1, <3>2, <3>3, <3>4
  <2>10. Len(s.equity) = n /\ \A j \in 1 .. n : s.equity[j].ts = held.candles[j].ts
    BY <2>2, <2>8 DEF IsSleeve
  <2>11. QED
    BY <2>1, <2>2, <2>3, <2>4, <2>5, <2>7, <2>8, <2>9, <2>10
<1>11. AreParts(sleeves, insts, cut)
  BY <1>6, <1>9, <1>10 DEF AreParts
<1>12. m = 1 => cut[1] = capital
  BY <1>8 DEF SplitCapital
<1>13. QED
  BY <1>1, <1>4, <1>6, <1>7, <1>8, <1>9, <1>11, <1>12

(* The curve of a finished run starts from its capital.                     *)
LEMMA CurveIs ==
  SleevesInv /\ Done =>
    \E n \in Nat \ {0} : /\ result.equity \in [1 .. n -> Int]
                         /\ result.equity[1] = request.capital
                         /\ result.metrics.drawdowns = Drawdowns(result.equity)
<1> SUFFICES ASSUME SleevesInv, Done
             PROVE  \E n \in Nat \ {0} : /\ result.equity \in [1 .. n -> Int]
                                          /\ result.equity[1] = request.capital
                                          /\ result.metrics.drawdowns = Drawdowns(result.equity)
  OBVIOUS
<1>1. /\ AreParts(sleeves, request.instruments, shares)
      /\ Total(shares) = request.capital /\ request.capital \in Nat \ {0}
      /\ Len(sleeves) = 1 => shares[1] = request.capital
  BY PartsAre
<1>2. result = IF Len(sleeves) = 1 THEN RunAlone(sleeves[1]) ELSE RunBasket(sleeves)
  BY DEF SleevesInv
<1>3. CASE Len(sleeves) = 1
  <2>1. result = RunAlone(sleeves[1])
    BY <1>2, <1>3
  <2>2. /\ result.equity = CentsOf(sleeves[1].equity)
        /\ result.metrics.drawdowns = Drawdowns(CentsOf(sleeves[1].equity))
    BY <2>1 DEF RunAlone, CentsOf, Metrics
  <2>3. PICK results, insts, cut : results = sleeves /\ insts = request.instruments /\ cut = shares
    OBVIOUS
  <2>4. AreParts(results, insts, cut) /\ 1 \in 1 .. Len(results)
    <3>1. AreParts(results, insts, cut)
      BY <1>1, <2>3
    <3>2. Len(results) = 1
      BY <1>3, <2>3
    <3>3. QED
      BY <3>1, <3>2
  <2>5. PICK n, own, values : IsCurve(n, own, values) /\ CentsOf(results[1].equity) = values
                              /\ values[1] = cut[1]
    BY <2>4, PartIs
  <2>6. n \in Nat \ {0} /\ values \in [1 .. n -> Int]
    BY <2>5 DEF IsCurve
  <2>7. QED
    BY <1>1, <1>3, <2>2, <2>3, <2>5, <2>6
<1>4. CASE Len(sleeves) # 1
  <2>1. result = RunBasket(sleeves)
    BY <1>2, <1>4
  <2>2. PICK stamps : stamps = UnionStamps(sleeves)
    OBVIOUS
  <2>3. PICK curve : curve = SumAligned(AlignedTo(sleeves, stamps, shares), stamps)
    OBVIOUS
  <2>4. Aligned(sleeves, stamps) = AlignedTo(sleeves, stamps, shares)
    BY DEF Aligned, AlignedTo, CentsOf
  <2>5. result.equity = curve /\ result.metrics.drawdowns = Drawdowns(curve)
    BY <2>1, <2>2, <2>3, <2>4 DEF RunBasket, Metrics
  <2>6. PICK results, insts, cut : results = sleeves /\ insts = request.instruments /\ cut = shares
    OBVIOUS
  <2>7. /\ AreParts(results, insts, cut) /\ stamps = UnionStamps(results)
        /\ curve = SumAligned(AlignedTo(results, stamps, cut), stamps)
    BY <1>1, <2>2, <2>3, <2>6
  <2>8. /\ Len(stamps) \in Nat \ {0} /\ curve \in [1 .. Len(stamps) -> Int]
        /\ curve[1] = Total(cut)
    BY <2>7, BasketCurveIs
  <2>9. QED
    BY <1>1, <2>5, <2>6, <2>8
<1>5. QED
  BY <1>3, <1>4
-----------------------------------------------------------------------------
(* The report's drawdown is the curve's.                                    *)

FallsOf(c) ==
  {p \in (DOMAIN c) \X (DOMAIN c) :
     /\ p[1] < p[2] /\ (\A k \in 1 .. p[1] : c[k] <= c[p[1]]) /\ c[p[1]] > 0
     /\ \A k \in p[1] + 1 .. p[2] : c[k] < c[p[1]]}

WorstIsTold(c, d) ==
  /\ d.worst = NoDrawdown <=> FallsOf(c) = {}
  /\ d.worst # NoDrawdown =>
       /\ <<d.worst.peak, d.worst.trough>> \in FallsOf(c)
       /\ \A p \in FallsOf(c) : d.worst.cents * c[p[1]] <= (c[p[2]] - c[p[1]]) * d.worst.of
       /\ d.recovered <=> \E k \in DOMAIN c : k > d.worst.trough /\ c[k] >= c[d.worst.peak]

LongestIsTold(c, d) == d.longest = Max({0} \cup {p[2] - p[1] : p \in FallsOf(c)})

LEMMA FallsAre ==
  ASSUME NEW n \in Nat, NEW c \in [1 .. n -> Int]
  PROVE  /\ \A a, b \in 1 .. n : <<a, b>> \in FallsOf(c) <=> IsFall(c, a, b)
         /\ \A p \in FallsOf(c) : p[1] \in 1 .. n /\ p[2] \in 1 .. n /\ IsFall(c, p[1], p[2])
<1>1. DOMAIN c = 1 .. n
  OBVIOUS
<1>2. QED
  BY <1>1 DEF FallsOf, IsFall

LEMMA DrawdownIsTold ==
  ASSUME NEW n \in Nat \ {0}, NEW c \in [1 .. n -> Int], c[1] > 0
  PROVE  WorstIsTold(c, Drawdowns(c)) /\ LongestIsTold(c, Drawdowns(c))
<1>1. PICK acc : /\ Told(c, n, acc)
                 /\ Drawdowns(c) =
                      [worst |-> acc.worst, longest |-> acc.longest,
                       recovered |-> acc.worst # NoDrawdown
                                     /\ \E i \in acc.worst.trough + 1 .. n : c[i] >= c[acc.worst.peak]]
  BY FallsAreTold
<1>2. PICK w : w = acc.worst
  OBVIOUS
<1>3. PICK l \in Nat : l = acc.longest
  BY <1>1 DEF Told, Longest
<1>4. PICK d : d = Drawdowns(c)
  OBVIOUS
<1>5. d = [worst |-> w, longest |-> l,
           recovered |-> w # NoDrawdown /\ \E i \in w.trough + 1 .. n : c[i] >= c[w.peak]]
  BY <1>1, <1>2, <1>3, <1>4
<1>6. Deepest(c, n, w) /\ Longest(c, n, l)
  BY <1>1, <1>2, <1>3 DEF Told
<1>7. /\ \A a, b \in 1 .. n : <<a, b>> \in FallsOf(c) <=> IsFall(c, a, b)
      /\ \A p \in FallsOf(c) : p[1] \in 1 .. n /\ p[2] \in 1 .. n /\ IsFall(c, p[1], p[2])
  BY FallsAre
<1>8. WorstIsTold(c, d)
  <2>1. CASE w = NoDrawdown
    <3>1. d.worst = NoDrawdown
      BY <1>5, <2>1
    <3>2. \A a, b \in 1 .. n : ~ IsFall(c, a, b)
      BY <1>6, <2>1 DEF Deepest
    <3>3. FallsOf(c) = {}
      BY <1>7, <3>2
    <3>4. QED
      BY <3>1, <3>3 DEF WorstIsTold
  <2>2. CASE w # NoDrawdown
    <3>1. PICK p, t \in 1 .. n :
            /\ w = [cents |-> c[t] - c[p], of |-> c[p], peak |-> p, trough |-> t]
            /\ IsFall(c, p, t)
            /\ \A a, b \in 1 .. n : IsFall(c, a, b) => (c[t] - c[p]) * c[a] <= (c[b] - c[a]) * c[p]
      BY <1>6, <2>2 DEF Deepest
    <3>2. /\ d.worst = w /\ w.peak = p /\ w.trough = t /\ w.cents = c[t] - c[p] /\ w.of = c[p]
          /\ d.recovered = (w # NoDrawdown /\ \E i \in w.trough + 1 .. n : c[i] >= c[w.peak])
      BY <1>5, <3>1
    <3>3. <<p, t>> \in FallsOf(c)
      BY <1>7, <3>1
    <3>4. \A q \in FallsOf(c) : d.worst.cents * c[q[1]] <= (c[q[2]] - c[q[1]]) * d.worst.of
      BY <1>7, <3>1, <3>2
    <3>5. d.recovered <=> \E i \in t + 1 .. n : c[i] >= c[p]
      BY <2>2, <3>2
    <3>6. d.recovered <=> \E k \in DOMAIN c : k > t /\ c[k] >= c[p]
      <4>1. DOMAIN c = 1 .. n
        OBVIOUS
      <4>2. \A k : k \in t + 1 .. n <=> k \in DOMAIN c /\ k > t
        BY <3>1, <4>1
      <4>3. QED
        BY <3>5, <4>2
    <3>7. QED
      BY <2>2, <3>2, <3>3, <3>4, <3>6 DEF WorstIsTold
  <2>3. QED
    BY <2>1, <2>2
<1>9. LongestIsTold(c, d)
  <2>1. PICK S : S = {0} \cup {p[2] - p[1] : p \in FallsOf(c)}
    OBVIOUS
  <2>2. S \in SUBSET Int
    BY <1>7, <2>1
  <2>3. \A y \in S : y <= l
    <3>1. \A p \in FallsOf(c) : p[2] - p[1] <= l
      BY <1>6, <1>7 DEF Longest
    <3>2. QED
      BY <2>1, <3>1
  <2>4. l \in S
    <3>1. CASE l = 0
      BY <2>1, <3>1
    <3>2. CASE l # 0
      <4>1. PICK a, b \in 1 .. n : IsFall(c, a, b) /\ b - a = l
        BY <1>6, <3>2 DEF Longest
      <4>2. <<a, b>> \in FallsOf(c)
        BY <1>7, <4>1
      <4>3. l = <<a, b>>[2] - <<a, b>>[1]
        BY <4>1
      <4>4. QED
        BY <2>1, <4>2, <4>3
    <3>3. QED
      BY <3>1, <3>2
  <2>5. Max(S) = l
    BY <2>2, <2>3, <2>4, MaxIs
  <2>6. QED
    BY <1>5, <2>1, <2>5 DEF LongestIsTold
<1>10. QED
  BY <1>4, <1>8, <1>9

LEMMA DrawdownsFollow == SleevesInv => DrawdownsAreTheWorst
<1> SUFFICES ASSUME SleevesInv, Done PROVE DrawdownsAreTheWorst
  BY DEF DrawdownsAreTheWorst
<1>1. PICK n \in Nat \ {0} : /\ result.equity \in [1 .. n -> Int]
                             /\ result.equity[1] = request.capital
                             /\ result.metrics.drawdowns = Drawdowns(result.equity)
  BY CurveIs
<1>2. request.capital \in Nat \ {0}
  BY PartsAre
<1>3. PICK c \in [1 .. n -> Int] : c = result.equity
  BY <1>1
<1>4. PICK d : d = Drawdowns(c)
  OBVIOUS
<1>5. c[1] > 0
  BY <1>1, <1>2, <1>3
<1>6. WorstIsTold(c, d) /\ LongestIsTold(c, d)
  BY <1>4, <1>5, DrawdownIsTold
<1>7. result.metrics.drawdowns = d
  BY <1>1, <1>3, <1>4
<1>8. QED
  BY <1>3, <1>6, <1>7 DEF DrawdownsAreTheWorst, WorstIsTold, LongestIsTold, FallsOf

(* The drawdown a run reports (stats.go, deepestDrawdown, longestDrawdown)  *)
(* is the deepest fall its curve has, in parts of the peak, with the peak,  *)
(* the trough and the recovery that go with it, and no fall is longer than  *)
(* the longest: one pass that keeps only the last highest bar misses none.  *)
THEOREM DrawdownsAreWorst == SleevesSpec => []DrawdownsAreTheWorst
<1>1. QED
  BY SleevesInvariant, DrawdownsFollow, PTL

-----------------------------------------------------------------------------
(* A sum, told by what is summed rather than in which order.                *)

(* The sums of two sequences that differ at one position.                   *)
LEMMA TotalsDiffer ==
  ASSUME NEW n \in Nat, NEW s \in [1 .. n -> Int], NEW t \in [1 .. n -> Int], NEW j \in 1 .. n,
         \A k \in 1 .. n : k # j => s[k] = t[k]
  PROVE  Total(t) = Total(s) + t[j] - s[j]
<1>1. s \in Seq(Int) /\ Len(s) = n /\ t \in Seq(Int) /\ Len(t) = n
  BY IsSequence
<1>2. PICK sum \in [0 .. n -> Int] : Sums(s, sum) /\ Total(s) = sum[n]
  BY <1>1, SumsExist
<1>3. PICK d \in Int : d = t[j] - s[j]
  OBVIOUS
<1>4. PICK f : f = [k \in 0 .. n |-> sum[k] + (IF j <= k THEN d ELSE 0)]
  OBVIOUS
<1>5. f[0] = 0
  BY <1>1, <1>2, <1>4 DEF Sums
<1>6. ASSUME NEW k \in 1 .. n PROVE f[k] = f[k - 1] + t[k]
  <2>1. k \in 0 .. n /\ k - 1 \in 0 .. n /\ k # 0
    OBVIOUS
  <2>2. sum[k] = sum[k - 1] + s[k]
    BY <1>1, <1>2, <2>1 DEF Sums
  <2>3. sum[k - 1] \in Int /\ s[k] \in Int /\ t[k] \in Int
    BY <2>1
  <2>4. f[k] = sum[k] + (IF j <= k THEN d ELSE 0)
        /\ f[k - 1] = sum[k - 1] + (IF j <= k - 1 THEN d ELSE 0)
    BY <1>4, <2>1
  <2>5. CASE k = j
    BY <1>3, <2>2, <2>3, <2>4, <2>5
  <2>6. CASE k # j
    <3>1. s[k] = t[k]
      BY <2>6
    <3>2. QED
      BY <2>2, <2>3, <2>4, <2>6, <3>1
  <2>7. QED
    BY <2>5, <2>6
<1>7. Total(t) = f[n]
  BY <1>1, <1>5, <1>6, TotalIs
<1>8. f[n] = sum[n] + d
  BY <1>4
<1>9. QED
  BY <1>2, <1>3, <1>7, <1>8

(* u is s and t added position by position.                                 *)
AreAdded(u, s, t, n) ==
  /\ u \in [1 .. n -> Int] /\ s \in [1 .. n -> Int] /\ t \in [1 .. n -> Int]
  /\ \A k \in 1 .. n : u[k] = s[k] + t[k]

LEMMA TotalsAdd ==
  ASSUME NEW n \in Nat, NEW s, NEW t, NEW u, AreAdded(u, s, t, n)
  PROVE  Total(u) = Total(s) + Total(t)
<1>0. /\ u \in [1 .. n -> Int] /\ s \in [1 .. n -> Int] /\ t \in [1 .. n -> Int]
      /\ \A k \in 1 .. n : u[k] = s[k] + t[k]
  BY DEF AreAdded
<1>1. s \in Seq(Int) /\ Len(s) = n /\ t \in Seq(Int) /\ Len(t) = n
  BY <1>0, IsSequence
<1>2. u \in Seq(Int) /\ Len(u) = n
  BY <1>0, IsSequence
<1>3. PICK sums \in [0 .. n -> Int] : Sums(s, sums) /\ Total(s) = sums[n]
  BY <1>1, SumsExist
<1>4. PICK sumt \in [0 .. n -> Int] : Sums(t, sumt) /\ Total(t) = sumt[n]
  BY <1>1, SumsExist
<1>5. PICK f : f = [k \in 0 .. n |-> sums[k] + sumt[k]]
  OBVIOUS
<1>6. f[0] = 0
  BY <1>1, <1>3, <1>4, <1>5 DEF Sums
<1>7. ASSUME NEW k \in 1 .. n PROVE f[k] = f[k - 1] + u[k]
  <2>1. k \in 0 .. n /\ k - 1 \in 0 .. n /\ k # 0
    OBVIOUS
  <2>2. sums[k] = sums[k - 1] + s[k] /\ sumt[k] = sumt[k - 1] + t[k]
    BY <1>1, <1>3, <1>4, <2>1 DEF Sums
  <2>3. sums[k - 1] \in Int /\ sumt[k - 1] \in Int /\ s[k] \in Int /\ t[k] \in Int
    BY <1>0, <2>1
  <2>4. QED
    BY <1>0, <1>5, <2>1, <2>2, <2>3
<1>8. Total(u) = f[n]
  BY <1>2, <1>6, <1>7, TotalIs
<1>9. QED
  BY <1>3, <1>4, <1>5, <1>8

(* What the listed elements that are in A are worth.                        *)
Kept(listed, v, A) ==
  [k \in DOMAIN listed |-> IF listed[k] \in A THEN v[listed[k]] ELSE 0]

(* listed has every element of U once.                                      *)
OnceEach(listed, U) ==
  /\ Len(listed) \in Nat /\ listed \in [1 .. Len(listed) -> U]
  /\ \A j, k \in 1 .. Len(listed) : listed[j] = listed[k] => j = k
  /\ \A x \in U : \E k \in 1 .. Len(listed) : listed[k] = x

LEMMA KeptIs ==
  ASSUME NEW U, NEW listed, OnceEach(listed, U), NEW v \in [U -> Int], NEW A
  PROVE  Kept(listed, v, A) \in [1 .. Len(listed) -> Int] /\ Total(Kept(listed, v, A)) \in Int
<1>1. PICK n \in Nat : n = Len(listed) /\ listed \in [1 .. n -> U]
  BY DEF OnceEach
<1>2. PICK w : w = Kept(listed, v, A)
  OBVIOUS
<1>3. w \in [1 .. n -> Int]
  BY <1>1, <1>2 DEF Kept
<1>4. w \in Seq(Int)
  BY <1>3, IsSequence
<1>5. QED
  BY <1>1, <1>2, <1>3, <1>4, TotalIsNumber

LEMMA KeptAdds ==
  ASSUME NEW U, NEW listed, OnceEach(listed, U), NEW v \in [U -> Int],
         NEW A, NEW x \in U, x \notin A, NEW B, B = A \cup {x}
  PROVE  Total(Kept(listed, v, B)) = Total(Kept(listed, v, A)) + v[x]
<1>1. PICK n \in Nat : n = Len(listed) /\ listed \in [1 .. n -> U]
  BY DEF OnceEach
<1>2. PICK j \in 1 .. n : listed[j] = x
  BY <1>1 DEF OnceEach
<1>3. \A k \in 1 .. n : k # j => listed[k] # x
  BY <1>1, <1>2 DEF OnceEach
<1>4. PICK s \in [1 .. n -> Int] : s = Kept(listed, v, A)
  BY <1>1, KeptIs
<1>5. PICK t \in [1 .. n -> Int] : t = Kept(listed, v, B)
  BY <1>1, KeptIs
<1>6. s[j] = 0 /\ t[j] = v[x]
  BY <1>1, <1>2, <1>4, <1>5 DEF Kept
<1>7. \A k \in 1 .. n : k # j => s[k] = t[k]
  BY <1>1, <1>3, <1>4, <1>5 DEF Kept
<1>8. Total(t) = Total(s) + t[j] - s[j]
  BY <1>7, TotalsDiffer
<1>9. v[x] \in Int /\ Total(s) \in Int
  BY <1>4, KeptIs
<1>10. QED
  BY <1>4, <1>5, <1>6, <1>8, <1>9

(* The first k elements of a log.                                           *)
FirstOf(log, k) == {log[l] : l \in 1 .. k}

(* What the elements of a log are worth.                                    *)
WorthsOf(log, v) == [l \in DOMAIN log |-> v[log[l]]]

(* A log that has no element twice and none of A.                           *)
AddsTo(log, q, A) ==
  /\ \A l, p \in 1 .. q : log[l] = log[p] => l = p
  /\ \A l \in 1 .. q : log[l] \notin A

LEMMA KeptLog ==
  ASSUME NEW U, NEW listed, OnceEach(listed, U), NEW v \in [U -> Int], NEW A,
         NEW q \in Nat, NEW log \in [1 .. q -> U], AddsTo(log, q, A),
         NEW B, B = A \cup FirstOf(log, q)
  PROVE  Total(Kept(listed, v, B)) = Total(Kept(listed, v, A)) + Total(WorthsOf(log, v))
<1>0. PICK worth : worth = WorthsOf(log, v) /\ worth = [l \in 1 .. q |-> v[log[l]]]
  BY DEF WorthsOf
<1>1. PICK a \in Int : a = Total(Kept(listed, v, A))
  BY KeptIs
<1> DEFINE up(k) == A \cup FirstOf(log, k)
<1>2. PICK f : f = [k \in 0 .. q |-> Total(Kept(listed, v, up(k))) - a]
  OBVIOUS
<1>3. f[0] = 0
  <2>1. FirstOf(log, 0) = {}
    BY DEF FirstOf
  <2>2. up(0) = A
    BY <2>1
  <2>3. f[0] = Total(Kept(listed, v, up(0))) - a
    BY <1>2
  <2> HIDE DEF up
  <2>4. QED
    BY <1>1, <2>2, <2>3
<1>4. worth \in Seq(Int) /\ Len(worth) = q
  <2>1. worth \in [1 .. q -> Int]
    BY <1>0
  <2>2. QED
    BY <2>1, IsSequence
<1>5. ASSUME NEW k \in 1 .. q PROVE f[k] = f[k - 1] + worth[k]
  <2>1. PICK C : C = up(k - 1)
    OBVIOUS
  <2>2. PICK D : D = up(k)
    OBVIOUS
  <2>3. PICK x \in U : x = log[k]
    OBVIOUS
  <2>4. D = C \cup {x}
    <3>1. \A l : l \in 1 .. k <=> l \in 1 .. k - 1 \/ l = k
      OBVIOUS
    <3>2. FirstOf(log, k) = FirstOf(log, k - 1) \cup {log[k]}
      BY <3>1 DEF FirstOf
    <3>3. QED
      BY <2>1, <2>2, <2>3, <3>2
  <2>5. x \notin C
    <3>1. x \notin FirstOf(log, k - 1)
      <4> SUFFICES ASSUME NEW l \in 1 .. k - 1, log[l] = x PROVE FALSE
        BY DEF FirstOf
      <4>1. l \in 1 .. q /\ l # k
        OBVIOUS
      <4>2. QED
        BY <2>3, <4>1 DEF AddsTo
    <3>2. QED
      BY <2>1, <2>3, <3>1 DEF AddsTo
  <2>6. Total(Kept(listed, v, D)) = Total(Kept(listed, v, C)) + v[x]
    BY <2>4, <2>5, KeptAdds
  <2>7. PICK c \in Int : c = Total(Kept(listed, v, C))
    BY KeptIs
  <2>8. v[x] \in Int /\ worth[k] = v[x]
    BY <1>0, <2>3
  <2>9. f[k] = Total(Kept(listed, v, D)) - a /\ f[k - 1] = c - a
    <3> HIDE DEF up
    <3>1. k \in 0 .. q /\ k - 1 \in 0 .. q
      OBVIOUS
    <3>2. QED
      BY <1>2, <2>1, <2>2, <2>7, <3>1
  <2>10. QED
    BY <2>6, <2>7, <2>8, <2>9
<1>6. Total(worth) = f[q]
  BY <1>3, <1>4, <1>5, TotalIs
<1>7. f[q] = Total(Kept(listed, v, B)) - a
  BY <1>2
<1>8. Total(Kept(listed, v, B)) \in Int
  BY KeptIs
<1>9. QED
  BY <1>0, <1>1, <1>6, <1>7, <1>8

LEMMA TotalOfZeros ==
  ASSUME NEW n \in Nat, NEW s, s = [k \in 1 .. n |-> 0]
  PROVE  Total(s) = 0
<1>1. s \in [1 .. n -> Int]
  OBVIOUS
<1>2. s \in Seq(Int) /\ Len(s) = n
  BY <1>1, IsSequence
<1>3. PICK f : f = [k \in 0 .. n |-> 0]
  OBVIOUS
<1>4. f[0] = 0 /\ f[n] = 0 /\ \A k \in 1 .. n : f[k] = f[k - 1] + s[k]
  BY <1>3
<1>5. QED
  BY <1>2, <1>4, TotalIs

LEMMA TotalOfOnes ==
  ASSUME NEW n \in Nat, NEW s, s = [k \in 1 .. n |-> 1]
  PROVE  Total(s) = n
<1>1. s \in [1 .. n -> Int]
  OBVIOUS
<1>2. s \in Seq(Int) /\ Len(s) = n
  BY <1>1, IsSequence
<1>3. PICK f : f = [k \in 0 .. n |-> k]
  OBVIOUS
<1>4. f[0] = 0 /\ f[n] = n /\ \A k \in 1 .. n : f[k] = f[k - 1] + s[k]
  BY <1>3
<1>5. QED
  BY <1>2, <1>4, TotalIs

(* Several logs that share no element and have all of U together.           *)
AreLogs(logs, U) ==
  /\ Len(logs) \in Nat /\ logs = [i \in 1 .. Len(logs) |-> logs[i]]
  /\ \A i \in 1 .. Len(logs) : Len(logs[i]) \in Nat /\ logs[i] \in [1 .. Len(logs[i]) -> U]
  /\ \A i, j \in 1 .. Len(logs) : \A l \in 1 .. Len(logs[i]), p \in 1 .. Len(logs[j]) :
       logs[i][l] = logs[j][p] => i = j /\ l = p
  /\ \A x \in U : \E i \in 1 .. Len(logs) : \E l \in 1 .. Len(logs[i]) : logs[i][l] = x

Worths(logs, v) == [i \in DOMAIN logs |-> Total(WorthsOf(logs[i], v))]

UpTo(logs, k) == UNION {FirstOf(logs[i], Len(logs[i])) : i \in 1 .. k}

(* What all the elements are worth in one list is what they are in parts.   *)
LEMMA KeptAll ==
  ASSUME NEW U, NEW listed, OnceEach(listed, U), NEW logs, AreLogs(logs, U), NEW v \in [U -> Int],
         NEW whole, whole = WorthsOf(listed, v)
  PROVE  Total(whole) = Total(Worths(logs, v)) /\ Worths(logs, v) \in [1 .. Len(logs) -> Int]
<1>1. PICK m \in Nat : m = Len(logs) /\ DOMAIN logs = 1 .. m
  BY DEF AreLogs
<1>2. PICK n \in Nat : n = Len(listed) /\ listed \in [1 .. n -> U]
  BY DEF OnceEach
<1>3. PICK worths : worths = Worths(logs, v)
  OBVIOUS
<1> DEFINE of(i) == WorthsOf(logs[i], v)
<1>4. ASSUME NEW i \in 1 .. m
      PROVE  of(i) \in [1 .. Len(logs[i]) -> Int] /\ Total(of(i)) \in Int
  <2>1. PICK q \in Nat : q = Len(logs[i]) /\ logs[i] \in [1 .. q -> U]
    BY <1>1 DEF AreLogs
  <2>2. PICK w : w = of(i)
    OBVIOUS
  <2>3. w \in [1 .. q -> Int]
    BY <2>1, <2>2 DEF WorthsOf
  <2>4. w \in Seq(Int)
    BY <2>3, IsSequence
  <2>5. Total(w) \in Int
    BY <2>4, TotalIsNumber
  <2>6. QED
    BY <2>1, <2>2, <2>3, <2>5
<1>5. worths = [i \in 1 .. m |-> Total(of(i))]
  BY <1>1, <1>3 DEF Worths
<1> HIDE DEF of
<1>6. worths \in [1 .. m -> Int]
  BY <1>4, <1>5
<1>7. worths \in Seq(Int) /\ Len(worths) = m
  BY <1>6, IsSequence
<1>8. PICK f : f = [k \in 0 .. m |-> Total(Kept(listed, v, UpTo(logs, k)))]
  OBVIOUS
<1>9. f[0] = 0
  <2>1. UpTo(logs, 0) = {}
    BY DEF UpTo
  <2>2. PICK w : w = Kept(listed, v, {})
    OBVIOUS
  <2>3. w = [k \in 1 .. n |-> 0]
    BY <1>2, <2>2 DEF Kept
  <2>4. Total(w) = 0
    BY <2>3, TotalOfZeros
  <2>5. f[0] = Total(Kept(listed, v, UpTo(logs, 0)))
    BY <1>8
  <2>6. QED
    BY <2>1, <2>2, <2>4, <2>5
<1>10. ASSUME NEW k \in 1 .. m PROVE f[k] = f[k - 1] + worths[k]
  <2>1. PICK A : A = UpTo(logs, k - 1)
    OBVIOUS
  <2>2. PICK B : B = UpTo(logs, k)
    OBVIOUS
  <2>3. PICK q \in Nat : q = Len(logs[k]) /\ logs[k] \in [1 .. q -> U]
    BY <1>1 DEF AreLogs
  <2>4. PICK log \in [1 .. q -> U] : log = logs[k]
    BY <2>3
  <2>5. B = A \cup FirstOf(log, q)
    <3>1. \A i : i \in 1 .. k <=> i \in 1 .. k - 1 \/ i = k
      OBVIOUS
    <3>2. PICK parts : parts = [i \in 1 .. m |-> FirstOf(logs[i], Len(logs[i]))]
      OBVIOUS
    <3>3. /\ \A i \in 1 .. k : i \in 1 .. m
          /\ \A i \in 1 .. k - 1 : i \in 1 .. m
      OBVIOUS
    <3>4. B = UNION {parts[i] : i \in 1 .. k} /\ A = UNION {parts[i] : i \in 1 .. k - 1}
      BY <2>1, <2>2, <3>2, <3>3 DEF UpTo
    <3>5. parts[k] = FirstOf(log, q)
      BY <2>3, <2>4, <3>2
    <3>6. QED
      BY <3>1, <3>4, <3>5
  <2>6. ASSUME NEW l \in 1 .. q, log[l] \in A PROVE FALSE
    <3>1. PICK i \in 1 .. k - 1 : log[l] \in FirstOf(logs[i], Len(logs[i]))
      BY <2>1, <2>6 DEF UpTo
    <3>2. PICK p \in 1 .. Len(logs[i]) : logs[i][p] = log[l]
      BY <3>1 DEF FirstOf
    <3>3. i \in 1 .. m /\ i # k
      OBVIOUS
    <3>4. l \in 1 .. Len(logs[k]) /\ logs[k][l] = logs[i][p]
      BY <2>3, <2>4, <3>2
    <3>5. QED
      BY <1>1, <3>2, <3>3, <3>4 DEF AreLogs
  <2>7. AddsTo(log, q, A)
    <3>1. \A l, p \in 1 .. Len(logs[k]) : logs[k][l] = logs[k][p] => l = p
      BY <1>1 DEF AreLogs
    <3>2. QED
      BY <2>3, <2>4, <2>6, <3>1 DEF AddsTo
  <2>8. Total(Kept(listed, v, B)) = Total(Kept(listed, v, A)) + Total(WorthsOf(log, v))
    BY <2>5, <2>7, KeptLog
  <2>11. k \in 0 .. m /\ k - 1 \in 0 .. m
    OBVIOUS
  <2>12. QED
    BY <1>5, <1>8, <2>1, <2>2, <2>4, <2>8, <2>11 DEF of
<1>11. Total(worths) = f[m]
  BY <1>7, <1>9, <1>10, TotalIs
<1>12. f[m] = Total(whole)
  <2>1. \A x \in U : x \in UpTo(logs, m)
    <3> TAKE x \in U
    <3>1. PICK i \in 1 .. m : \E l \in 1 .. Len(logs[i]) : logs[i][l] = x
      BY <1>1 DEF AreLogs
    <3>2. x \in FirstOf(logs[i], Len(logs[i]))
      BY <3>1 DEF FirstOf
    <3>3. QED
      BY <3>2 DEF UpTo
  <2>2. Kept(listed, v, UpTo(logs, m)) = whole
    BY <1>2, <2>1 DEF Kept, WorthsOf
  <2>3. f[m] = Total(Kept(listed, v, UpTo(logs, m)))
    BY <1>8
  <2>4. QED
    BY <2>2, <2>3
<1>13. QED
  BY <1>1, <1>3, <1>6, <1>11, <1>12

-----------------------------------------------------------------------------
(* The trades of several sleeves in one log.                                *)

Trade == [seq : Nat, symbol : Nat, pnl : Int, entry : Int, exit : Int]

IsTradeLog(log, symbol) ==
  /\ Len(log) \in Nat /\ log \in [1 .. Len(log) -> Trade]
  /\ \A l \in 1 .. Len(log) : /\ log[l].seq = l /\ log[l].symbol = symbol
                              /\ log[l].entry <= log[l].exit
  /\ \A l, p \in 1 .. Len(log) : l < p => log[l].exit < log[p].entry

AreTrades(logs, symbols) ==
  /\ Len(logs) \in Nat /\ logs = [i \in 1 .. Len(logs) |-> logs[i]]
  /\ \A i \in 1 .. Len(logs) : IsTradeLog(logs[i], symbols[i])
  /\ \A i, j \in 1 .. Len(logs) : symbols[i] = symbols[j] => i = j

EarlierIn(U) == {p \in U \X U : Earlier(p[1], p[2])}

LEMMA TradesAreLogs ==
  ASSUME NEW logs, NEW symbols, AreTrades(logs, symbols),
         NEW U, U = UpTo(logs, Len(logs))
  PROVE  AreLogs(logs, U) /\ IsFiniteSet(U) /\ U \subseteq Trade /\ IsOrder(EarlierIn(U), U)
<1>1. PICK m \in Nat : m = Len(logs)
  BY DEF AreTrades
<1>2. ASSUME NEW i \in 1 .. m
      PROVE  /\ Len(logs[i]) \in Nat /\ logs[i] \in [1 .. Len(logs[i]) -> Trade]
             /\ \A l \in 1 .. Len(logs[i]) :
                  /\ logs[i][l] \in U /\ logs[i][l] \in Trade
                  /\ logs[i][l].seq = l /\ logs[i][l].symbol = symbols[i]
                  /\ logs[i][l].entry <= logs[i][l].exit
             /\ \A l, p \in 1 .. Len(logs[i]) : l < p => logs[i][l].exit < logs[i][p].entry
  <2>1. IsTradeLog(logs[i], symbols[i])
    BY <1>1 DEF AreTrades
  <2>2. \A l \in 1 .. Len(logs[i]) : logs[i][l] \in U
    BY <1>1 DEF UpTo, FirstOf
  <2>3. QED
    BY <2>1, <2>2 DEF IsTradeLog
<1>3. \A x \in U : \E i \in 1 .. m : \E l \in 1 .. Len(logs[i]) : logs[i][l] = x
  BY <1>1 DEF UpTo, FirstOf
<1>4. U \subseteq Trade
  BY <1>2, <1>3
<1>5. ASSUME NEW i \in 1 .. m, NEW j \in 1 .. m, NEW l \in 1 .. Len(logs[i]), NEW p \in 1 .. Len(logs[j]),
             logs[i][l] = logs[j][p]
      PROVE  i = j /\ l = p
  <2>1. logs[i][l].seq = l /\ logs[i][l].symbol = symbols[i]
    BY <1>2
  <2>2. logs[j][p].seq = p /\ logs[j][p].symbol = symbols[j]
    BY <1>2
  <2>3. symbols[i] = symbols[j] /\ l = p
    BY <1>5, <2>1, <2>2
  <2>4. QED
    BY <1>1, <2>3 DEF AreTrades
<1>6. AreLogs(logs, U)
  <2>1. \A i \in 1 .. m : logs[i] \in [1 .. Len(logs[i]) -> U] /\ Len(logs[i]) \in Nat
    BY <1>2
  <2>2. logs = [i \in 1 .. m |-> logs[i]]
    BY <1>1 DEF AreTrades
  <2>3. QED
    BY <1>1, <1>3, <1>5, <2>1, <2>2 DEF AreLogs
<1>7. IsFiniteSet(U)
  <2>1. PICK part : part = [i \in 1 .. m |-> FirstOf(logs[i], Len(logs[i]))]
    OBVIOUS
  <2>2. ASSUME NEW i \in 1 .. m PROVE IsFiniteSet(part[i])
    <3>1. PICK q \in Nat : q = Len(logs[i])
      BY <1>2
    <3>2. PICK f : f = logs[i]
      OBVIOUS
    <3>3. part[i] = {f[l] : l \in 1 .. q}
      BY <2>1, <3>1, <3>2 DEF FirstOf
    <3>4. PICK S : S = part[i] /\ S = {f[l] : l \in 1 .. q}
      BY <3>3
    <3>5. IsFiniteSet(S)
      BY <3>4, ImageIsFinite
    <3>6. QED
      BY <3>4, <3>5
  <2>3. PICK parts : parts = {part[i] : i \in 1 .. m}
    OBVIOUS
  <2>4. IsFiniteSet(parts)
    BY <2>3, ImageIsFinite
  <2>5. \A S \in parts : IsFiniteSet(S)
    BY <2>2, <2>3
  <2>6. U = UNION parts
    BY <1>1, <2>1, <2>3 DEF UpTo
  <2>7. QED
    BY <2>4, <2>5, <2>6, FS_UNION
<1>8. IsOrder(EarlierIn(U), U)
  <2>0. \A x, y \in U : <<x, y>> \in EarlierIn(U) <=> Earlier(x, y)
    BY DEF EarlierIn
  <2>1. \A x \in U : x.entry \in Int /\ x.exit \in Int /\ x.symbol \in Nat
    BY <1>4 DEF Trade
  <2>2. \A x \in U : ~ Earlier(x, x)
    BY <2>1 DEF Earlier
  <2>3. ASSUME NEW x \in U, NEW y \in U, NEW z \in U, Earlier(x, y), Earlier(y, z) PROVE Earlier(x, z)
    <3>1. /\ x.entry \in Int /\ x.exit \in Int /\ x.symbol \in Int
          /\ y.entry \in Int /\ y.exit \in Int /\ y.symbol \in Int
          /\ z.entry \in Int /\ z.exit \in Int /\ z.symbol \in Int
      BY <2>1
    <3>2. QED
      BY <2>3, <3>1 DEF Earlier
  <2>4. ASSUME NEW x \in U, NEW y \in U, ~ Earlier(x, y), ~ Earlier(y, x) PROVE x = y
    <3>1. x.entry = y.entry /\ x.exit = y.exit /\ x.symbol = y.symbol
      BY <2>1, <2>4 DEF Earlier
    <3>2. PICK i \in 1 .. m : \E l \in 1 .. Len(logs[i]) : logs[i][l] = x
      BY <1>3
    <3>3. PICK j \in 1 .. m : \E l \in 1 .. Len(logs[j]) : logs[j][l] = y
      BY <1>3
    <3>4. PICK l \in 1 .. Len(logs[i]) : logs[i][l] = x
      BY <3>2
    <3>5. PICK p \in 1 .. Len(logs[j]) : logs[j][p] = y
      BY <3>3
    <3>6. symbols[i] = symbols[j]
      BY <1>2, <3>1, <3>4, <3>5
    <3>7. i = j
      BY <1>1, <3>6 DEF AreTrades
    <3>8. ~ (l < p) /\ ~ (p < l)
      <4>1. p \in 1 .. Len(logs[i]) /\ logs[i][p] = y
        BY <3>5, <3>7
      <4>2. x.entry <= x.exit /\ x.entry \in Int /\ x.exit \in Int
        BY <1>2, <2>1, <3>4
      <4>3. l < p => x.exit < y.entry
        BY <1>2, <3>4, <4>1
      <4>4. p < l => y.exit < x.entry
        BY <1>2, <3>4, <4>1
      <4>5. QED
        BY <3>1, <4>2, <4>3, <4>4
    <3>9. Len(logs[i]) \in Nat
      BY <1>2
    <3>10. l = p
      BY <3>7, <3>8, <3>9
    <3>11. QED
      BY <3>4, <3>5, <3>7, <3>10
  <2>5. QED
    BY <2>0, <2>2, <2>3, <2>4 DEF IsOrder
<1>9. QED
  BY <1>4, <1>6, <1>7, <1>8

LogsOf(results) == [i \in DOMAIN results |-> results[i].trades]

LEMMA ListedOnce ==
  ASSUME NEW U, IsFiniteSet(U), NEW R, IsOrder(R, U), NEW s, Lists(s, U, R)
  PROVE  OnceEach(s, U)
<1>1. PICK n \in Nat : n = Len(s)
  BY DEF Lists
<1>2. s \in [1 .. n -> U]
  BY <1>1 DEF Lists
<1>3. ASSUME NEW j \in 1 .. n, NEW k \in 1 .. n, s[j] = s[k] PROVE j = k
  <2>1. <<s[j], s[j]>> \notin R /\ s[j] \in U
    BY <1>2 DEF IsOrder
  <2>2. j < k => <<s[j], s[k]>> \in R
    BY <1>1 DEF Lists
  <2>3. k < j => <<s[k], s[j]>> \in R
    BY <1>1 DEF Lists
  <2>4. QED
    BY <1>3, <2>1, <2>2, <2>3
<1>4. QED
  BY <1>1, <1>2, <1>3 DEF OnceEach, Lists

(* What renumbering leaves as it was.                                       *)
Renumbered(t, sorted) ==
  /\ Len(sorted) \in Nat /\ t = [k \in 1 .. Len(sorted) |-> t[k]]
  /\ \A k \in 1 .. Len(sorted) : t[k] \in Trade /\ t[k].seq = k /\ WithoutSeq(t[k]) = WithoutSeq(sorted[k])

LEMMA MergedIs ==
  ASSUME NEW results, NEW logs, logs = LogsOf(results), NEW symbols, AreTrades(logs, symbols),
         NEW U, U = UpTo(logs, Len(logs)), NEW t, t = MergeTrades(results)
  PROVE  \E sorted : Lists(sorted, U, EarlierIn(U)) /\ Renumbered(t, sorted)
<1>1. AreLogs(logs, U) /\ IsFiniteSet(U) /\ U \subseteq Trade /\ IsOrder(EarlierIn(U), U)
  BY TradesAreLogs
<1>2. PICK m \in Nat : m = Len(logs) /\ logs = [i \in 1 .. m |-> logs[i]]
  BY DEF AreTrades
<1>3. DOMAIN results = 1 .. m
  <2>1. DOMAIN logs = DOMAIN results
    BY DEF LogsOf
  <2>2. QED
    BY <1>2, <2>1
<1>4. ASSUME NEW i \in 1 .. m PROVE Range(results[i].trades) = FirstOf(logs[i], Len(logs[i]))
  <2>1. logs[i] = results[i].trades
    BY <1>2, <1>3 DEF LogsOf
  <2>2. PICK log : log = logs[i]
    OBVIOUS
  <2>3. IsTradeLog(log, symbols[i])
    BY <1>2, <2>2 DEF AreTrades
  <2>4. PICK q \in Nat : q = Len(log) /\ log \in [1 .. q -> Trade]
    BY <2>3 DEF IsTradeLog
  <2>5. Range(log) = {log[l] : l \in 1 .. q}
    BY <2>4 DEF Range
  <2>6. QED
    BY <2>1, <2>2, <2>4, <2>5 DEF FirstOf
<1>5. U = UNION {Range(results[i].trades) : i \in DOMAIN results}
  <2>1. {Range(results[i].trades) : i \in DOMAIN results} = {FirstOf(logs[i], Len(logs[i])) : i \in 1 .. m}
    BY <1>3, <1>4
  <2>2. QED
    BY <1>2, <2>1 DEF UpTo
<1>6. PICK sorted : sorted = InOrder(U, Earlier)
  OBVIOUS
<1> DEFINE choice(i) == CHOOSE x \in U : Cardinality({y \in U : Earlier(y, x)}) = i - 1
<1>7. sorted = [i \in 1 .. Cardinality(U) |-> choice(i)]
  BY <1>6 DEF InOrder
<1>8. PICK R : R = EarlierIn(U)
  OBVIOUS
<1>9. \A x \in U : Place(x, U, R) = Cardinality({y \in U : Earlier(y, x)})
  <2> TAKE x \in U
  <2>1. {z \in U : <<z, x>> \in R} = {y \in U : Earlier(y, x)}
    BY <1>8 DEF EarlierIn
  <2>2. QED
    BY <2>1 DEF Place
<1>10. ASSUME NEW i \in 1 .. Cardinality(U), NEW x \in U, Place(x, U, R) = i - 1
       PROVE  sorted[i] \in U /\ Place(sorted[i], U, R) = i - 1
  <2>1. sorted[i] = CHOOSE z \in U : Cardinality({y \in U : Earlier(y, z)}) = i - 1
    BY <1>7
  <2>2. Cardinality({y \in U : Earlier(y, x)}) = i - 1
    BY <1>9, <1>10
  <2>3. sorted[i] \in U /\ Cardinality({y \in U : Earlier(y, sorted[i])}) = i - 1
    BY <2>1, <2>2
  <2>4. QED
    BY <1>9, <2>3
<1>11. Placed(sorted, U, R)
  <2> HIDE DEF choice
  <2>1. sorted = [i \in 1 .. Cardinality(U) |-> sorted[i]]
    BY <1>7
  <2>2. QED
    BY <1>10, <2>1 DEF Placed
<1>12. Lists(sorted, U, R)
  <2>1. IsOrder(R, U)
    BY <1>1, <1>8
  <2>2. QED
    BY <1>1, <1>11, <2>1, ListedInOrder
<1>13. PICK n \in Nat : n = Len(sorted) /\ sorted \in [1 .. n -> U]
  BY <1>12 DEF Lists
<1>14. t = [k \in 1 .. n |-> [sorted[k] EXCEPT !.seq = k]]
  BY <1>5, <1>6, <1>13 DEF MergeTrades
<1>15. ASSUME NEW k \in 1 .. n
       PROVE  t[k] \in Trade /\ t[k].seq = k /\ WithoutSeq(t[k]) = WithoutSeq(sorted[k])
  <2>1. PICK x \in Trade : x = sorted[k]
    BY <1>1, <1>13
  <2>2. t[k] = [x EXCEPT !.seq = k]
    BY <1>14, <2>1
  <2>3. t[k] \in Trade /\ t[k].seq = k /\ WithoutSeq(t[k]) = WithoutSeq(x)
    BY <2>2 DEF Trade, WithoutSeq
  <2>4. QED
    BY <2>1, <2>3
<1>16. Renumbered(t, sorted)
  BY <1>13, <1>14, <1>15 DEF Renumbered
<1>17. QED
  BY <1>8, <1>12, <1>16

(* What is counted over the merged log is in the sleeves' logs.             *)
PnlOf(log) == [l \in DOMAIN log |-> log[l].pnl]

LEMMA MergedTotals ==
  ASSUME NEW results, NEW logs, logs = LogsOf(results), NEW symbols, AreTrades(logs, symbols),
         NEW t, t = MergeTrades(results)
  PROVE  /\ Len(t) = Total([i \in DOMAIN logs |-> Len(logs[i])])
         /\ Total(PnlOf(t)) = Total([i \in DOMAIN logs |-> Total(PnlOf(logs[i]))])
<1>0. PICK U : U = UpTo(logs, Len(logs))
  OBVIOUS
<1>1. AreLogs(logs, U) /\ IsFiniteSet(U) /\ U \subseteq Trade /\ IsOrder(EarlierIn(U), U)
  BY <1>0, TradesAreLogs
<1>2. PICK sorted : Lists(sorted, U, EarlierIn(U)) /\ Renumbered(t, sorted)
  BY <1>0, MergedIs
<1>3. OnceEach(sorted, U)
  BY <1>1, <1>2, ListedOnce
<1>4. PICK n \in Nat : n = Len(sorted) /\ sorted \in [1 .. n -> U]
  BY <1>3 DEF OnceEach
<1>5. Len(t) = n /\ DOMAIN t = 1 .. n
  <2>1. t \in [1 .. n -> Trade]
    BY <1>2, <1>4 DEF Renumbered
  <2>2. QED
    BY <2>1, IsSequence
<1>6. PICK m \in Nat : m = Len(logs) /\ DOMAIN logs = 1 .. m
  BY <1>1 DEF AreLogs
<1>7. \A i \in 1 .. m : Len(logs[i]) \in Nat /\ logs[i] \in [1 .. Len(logs[i]) -> U]
  BY <1>1, <1>6 DEF AreLogs
<1>8. Len(t) = Total([i \in DOMAIN logs |-> Len(logs[i])])
  <2>0. PICK v : v = [x \in U |-> 1]
    OBVIOUS
  <2>1. v \in [U -> Int] /\ \A x \in U : v[x] = 1
    BY <2>0
  <2>2. PICK whole : whole = WorthsOf(sorted, v)
    OBVIOUS
  <2>3. Total(whole) = Total(Worths(logs, v))
    BY <1>1, <1>3, <2>1, <2>2, KeptAll
  <2>4. Total(whole) = n
    <3>1. whole = [k \in 1 .. n |-> 1]
      BY <1>4, <2>1, <2>2 DEF WorthsOf
    <3>2. QED
      BY <3>1, TotalOfOnes
  <2>5. ASSUME NEW i \in 1 .. m PROVE Total(WorthsOf(logs[i], v)) = Len(logs[i])
    <3>1. PICK q \in Nat : q = Len(logs[i]) /\ logs[i] \in [1 .. q -> U]
      BY <1>7
    <3>2. PICK w : w = WorthsOf(logs[i], v)
      OBVIOUS
    <3>3. w = [k \in 1 .. q |-> 1]
      BY <2>1, <3>1, <3>2 DEF WorthsOf
    <3>4. Total(w) = q
      BY <3>3, TotalOfOnes
    <3>5. QED
      BY <3>1, <3>2, <3>4
  <2>6. Worths(logs, v) = [i \in DOMAIN logs |-> Len(logs[i])]
    BY <1>6, <2>5 DEF Worths
  <2>7. QED
    BY <1>5, <2>3, <2>4, <2>6
<1>9. Total(PnlOf(t)) = Total([i \in DOMAIN logs |-> Total(PnlOf(logs[i]))])
  <2>1. PICK v : v = [x \in U |-> x.pnl]
    OBVIOUS
  <2>2. v \in [U -> Int]
    BY <1>1, <2>1 DEF Trade
  <2>3. PICK whole : whole = WorthsOf(sorted, v)
    OBVIOUS
  <2>4. Total(whole) = Total(Worths(logs, v))
    BY <1>1, <1>3, <2>2, <2>3, KeptAll
  <2>5. whole = PnlOf(t)
    <3>1. ASSUME NEW k \in 1 .. n PROVE t[k].pnl = sorted[k].pnl
      <4>1. WithoutSeq(t[k]) = WithoutSeq(sorted[k])
        BY <1>2, <1>4 DEF Renumbered
      <4>2. WithoutSeq(t[k]).pnl = t[k].pnl /\ WithoutSeq(sorted[k]).pnl = sorted[k].pnl
        BY DEF WithoutSeq
      <4>3. QED
        BY <4>1, <4>2
    <3>2. \A k \in 1 .. n : v[sorted[k]] = sorted[k].pnl
      BY <1>4, <2>1
    <3>3. QED
      BY <1>4, <1>5, <2>3, <3>1, <3>2 DEF WorthsOf, PnlOf
  <2>6. \A i \in 1 .. m : WorthsOf(logs[i], v) = PnlOf(logs[i])
    BY <1>7, <2>1 DEF WorthsOf, PnlOf
  <2>7. Worths(logs, v) = [i \in DOMAIN logs |-> Total(PnlOf(logs[i]))]
    BY <1>6, <2>6 DEF Worths
  <2>8. QED
    BY <2>4, <2>5, <2>7
<1>10. QED
  BY <1>8, <1>9

Distinct(h, p) == \A a, b \in 1 .. p : h[a] = h[b] => a = b

LEMMA ImageSize ==
  ASSUME NEW p \in Nat, NEW h, Distinct(h, p), NEW S, S = FirstOf(h, p)
  PROVE  Cardinality(S) = p
<1>1. PICK g : g = [l \in 1 .. p |-> h[l]]
  OBVIOUS
<1>2. g \in Bijection(1 .. p, S)
  BY <1>1 DEF Bijection, Injection, Surjection, IsInjective, Distinct, FirstOf
<1>3. ExistsBijection(1 .. p, S)
  BY <1>2 DEF ExistsBijection
<1>4. IsFiniteSet(1 .. p) /\ Cardinality(1 .. p) = p
  BY FS_Interval
<1>5. Cardinality(S) = Cardinality(1 .. p)
  BY <1>3, <1>4, FS_Bijection
<1>6. QED
  BY <1>4, <1>5

Rank(k, S) == Cardinality({j \in S : j <= k})

Climbs(g, q, n) == q \in Nat /\ n \in Nat /\ g \in [1 .. q -> 1 .. n] /\ Increasing(g, q)

LEMMA RanksAre ==
  ASSUME NEW q, NEW n, NEW g, Climbs(g, q, n), NEW mine, mine = FirstOf(g, q)
  PROVE  /\ Cardinality(mine) = q
         /\ \A l \in 1 .. q : Rank(g[l], mine) = l
<1>0. q \in Nat /\ n \in Nat /\ g \in [1 .. q -> 1 .. n] /\ Increasing(g, q)
  BY DEF Climbs
<1>1. \A a, b \in 1 .. q : g[a] = g[b] => a = b
  <2> TAKE a, b \in 1 .. q
  <2>1. a < b => g[a] < g[b]
    BY <1>0 DEF Increasing
  <2>2. b < a => g[b] < g[a]
    BY <1>0 DEF Increasing
  <2>3. QED
    BY <1>0, <2>1, <2>2
<1>2. Cardinality(mine) = q
  <2>1. Distinct(g, q)
    BY <1>1 DEF Distinct
  <2>2. QED
    BY <1>0, <2>1, ImageSize
<1>3. ASSUME NEW l \in 1 .. q PROVE Rank(g[l], mine) = l
  <2>1. PICK S : S = {j \in mine : j <= g[l]}
    OBVIOUS
  <2>2. S = FirstOf(g, l)
    <3>1. \A p \in 1 .. q : p \in 1 .. l <=> g[p] <= g[l]
      <4> TAKE p \in 1 .. q
      <4>1. g[p] \in Int /\ g[l] \in Int
        BY <1>0
      <4>2. p < l => g[p] < g[l]
        BY <1>0 DEF Increasing
      <4>3. l < p => g[l] < g[p]
        BY <1>0 DEF Increasing
      <4>4. QED
        BY <4>1, <4>2, <4>3
    <3>2. \A p \in 1 .. l : p \in 1 .. q
      BY <1>0
    <3>3. QED
      BY <2>1, <3>1, <3>2 DEF FirstOf
  <2>3. l \in Nat /\ Distinct(g, l)
    BY <1>0, <1>1 DEF Distinct
  <2>4. Cardinality(S) = l
    BY <2>2, <2>3, ImageSize
  <2>5. QED
    BY <2>1, <2>4 DEF Rank
<1>4. QED
  BY <1>2, <1>3

(* The positions a symbol has in the merged log.                            *)
MineIn(t, symbol) == {k \in 1 .. Len(t) : t[k].symbol = symbol}

LEMMA MineIs ==
  ASSUME NEW results, NEW logs, logs = LogsOf(results), NEW symbols, AreTrades(logs, symbols),
         NEW t, t = MergeTrades(results), NEW i \in 1 .. Len(logs),
         NEW mine, mine = MineIn(t, symbols[i])
  PROVE  /\ Cardinality(mine) = Len(logs[i])
         /\ \A k \in mine : WithoutSeq(t[k]) = WithoutSeq(logs[i][Rank(k, mine)])
<1>a. mine = {k \in 1 .. Len(t) : t[k].symbol = symbols[i]}
  BY DEF MineIn
<1>0. PICK U : U = UpTo(logs, Len(logs))
  OBVIOUS
<1>1. AreLogs(logs, U) /\ IsFiniteSet(U) /\ U \subseteq Trade /\ IsOrder(EarlierIn(U), U)
  BY <1>0, TradesAreLogs
<1>2. PICK sorted : Lists(sorted, U, EarlierIn(U)) /\ Renumbered(t, sorted)
  BY <1>0, MergedIs
<1>3. OnceEach(sorted, U)
  BY <1>1, <1>2, ListedOnce
<1>4. PICK n \in Nat : n = Len(sorted) /\ sorted \in [1 .. n -> U]
  BY <1>3 DEF OnceEach
<1>5. Len(t) = n
  <2>1. t \in [1 .. n -> Trade]
    BY <1>2, <1>4 DEF Renumbered
  <2>2. QED
    BY <2>1, IsSequence
<1>6. PICK log, q : log = logs[i] /\ q = Len(log) /\ q \in Nat /\ log \in [1 .. q -> U]
  BY <1>1 DEF AreLogs
<1>7. IsTradeLog(log, symbols[i])
  BY <1>6 DEF AreTrades
<1>8. \A k \in 1 .. n : t[k].symbol = sorted[k].symbol /\ WithoutSeq(t[k]) = WithoutSeq(sorted[k])
  <2> TAKE k \in 1 .. n
  <2>1. WithoutSeq(t[k]) = WithoutSeq(sorted[k])
    BY <1>2, <1>4 DEF Renumbered
  <2>2. WithoutSeq(t[k]).symbol = t[k].symbol /\ WithoutSeq(sorted[k]).symbol = sorted[k].symbol
    BY DEF WithoutSeq
  <2>3. QED
    BY <2>1, <2>2
<1>9. PICK g : g = [l \in 1 .. q |-> CHOOSE k \in 1 .. n : sorted[k] = log[l]]
  OBVIOUS
<1>10. \A l \in 1 .. q : g[l] \in 1 .. n /\ sorted[g[l]] = log[l]
  <2> TAKE l \in 1 .. q
  <2>1. log[l] \in U
    BY <1>6
  <2>2. \E k \in 1 .. n : sorted[k] = log[l]
    BY <1>3, <1>4, <2>1 DEF OnceEach
  <2>3. QED
    BY <1>9, <2>2
<1>11. g \in [1 .. q -> 1 .. n]
  <2>1. g = [l \in 1 .. q |-> g[l]]
    BY <1>9
  <2>2. QED
    BY <1>10, <2>1
<1>12. Increasing(g, q)
  <2> SUFFICES ASSUME NEW l \in 1 .. q, NEW p \in 1 .. q, l < p PROVE g[l] < g[p]
    BY DEF Increasing
  <2>1. log[l].exit < log[p].entry /\ log[l].entry <= log[l].exit
    BY <1>6, <1>7 DEF IsTradeLog
  <2>2. PICK x \in U, y \in U : x = log[l] /\ y = log[p]
    BY <1>6
  <2>3. x.entry \in Int /\ x.exit \in Int /\ y.entry \in Int /\ y.exit \in Int
    BY <1>1 DEF Trade
  <2>4. x.entry < y.entry
    BY <2>1, <2>2, <2>3
  <2>5. ~ Earlier(y, x)
    BY <2>3, <2>4 DEF Earlier
  <2>6. x # y
    BY <2>3, <2>4
  <2>7. ~ (g[p] < g[l])
    <3>1. g[p] < g[l] => <<sorted[g[p]], sorted[g[l]]>> \in EarlierIn(U)
      BY <1>2, <1>4, <1>10 DEF Lists
    <3>2. sorted[g[p]] = y /\ sorted[g[l]] = x
      BY <1>10, <2>2
    <3>3. QED
      BY <2>5, <3>1, <3>2 DEF EarlierIn
  <2>8. g[p] # g[l]
    BY <1>10, <2>2, <2>6
  <2>9. g[p] \in Int /\ g[l] \in Int
    BY <1>10
  <2>10. QED
    BY <2>7, <2>8, <2>9
<1>13. mine = FirstOf(g, q)
  <2>1. ASSUME NEW l \in 1 .. q PROVE g[l] \in mine
    <3>1. log[l].symbol = symbols[i]
      BY <1>6, <1>7 DEF IsTradeLog
    <3>2. QED
      BY <1>a, <1>5, <1>8, <1>10, <3>1
  <2>2. ASSUME NEW k \in mine PROVE \E l \in 1 .. q : k = g[l]
    <3>1. k \in 1 .. n /\ sorted[k].symbol = symbols[i] /\ sorted[k] \in U
      BY <1>a, <1>4, <1>5, <1>8
    <3>2. PICK j \in 1 .. Len(logs) : \E l \in 1 .. Len(logs[j]) : logs[j][l] = sorted[k]
      BY <1>1, <3>1 DEF AreLogs
    <3>3. PICK l \in 1 .. Len(logs[j]) : logs[j][l] = sorted[k]
      BY <3>2
    <3>4. logs[j][l].symbol = symbols[j]
      <4>1. IsTradeLog(logs[j], symbols[j])
        BY DEF AreTrades
      <4>2. QED
        BY <4>1 DEF IsTradeLog
    <3>5. j = i
      BY <3>1, <3>3, <3>4 DEF AreTrades
    <3>6. l \in 1 .. q /\ sorted[g[l]] = sorted[k] /\ g[l] \in 1 .. n
      BY <1>6, <1>10, <3>3, <3>5
    <3>7. k = g[l]
      BY <1>3, <1>4, <3>1, <3>6 DEF OnceEach
    <3>8. QED
      BY <3>6, <3>7
  <2>3. QED
    BY <2>1, <2>2 DEF FirstOf
<1>14. /\ Cardinality(mine) = q
       /\ \A l \in 1 .. q : Rank(g[l], mine) = l
  <2>1. Climbs(g, q, n)
    BY <1>6, <1>11, <1>12 DEF Climbs
  <2>2. PICK S : S = FirstOf(g, q)
    OBVIOUS
  <2>3. Cardinality(S) = q /\ \A l \in 1 .. q : Rank(g[l], S) = l
    BY <2>1, <2>2, RanksAre
  <2>4. QED
    BY <1>13, <2>2, <2>3
<1>15. ASSUME NEW k \in mine
       PROVE  WithoutSeq(t[k]) = WithoutSeq(log[Rank(k, mine)])
  <2>1. PICK l \in 1 .. q : k = g[l]
    BY <1>13 DEF FirstOf
  <2>2. Rank(k, mine) = l
    BY <1>14, <2>1
  <2>3. WithoutSeq(t[k]) = WithoutSeq(sorted[k]) /\ sorted[k] = log[l]
    BY <1>8, <1>10, <2>1
  <2>4. QED
    BY <2>2, <2>3
<1>16. QED
  BY <1>6, <1>14, <1>15

-----------------------------------------------------------------------------
(* What is counted over a log.                                              *)

Tally == [wins : Int, losses : Int, scratches : Int, streak : Int, worstStreak : Int,
          grossWin : Int, grossLoss : Int]

LosingRun(trades, a, b) == \A k \in a .. b : trades[k].pnl < 0

(* The losses in a row up to a trade, and the most there were.              *)
IsStreak(trades, k, s) ==
  s \in 0 .. k /\ LosingRun(trades, k - s + 1, k) /\ (s < k => ~ (trades[k - s].pnl < 0))

IsWorstStreak(trades, k, w) ==
  /\ w \in Nat
  /\ \A a, b \in 1 .. k : a <= b /\ LosingRun(trades, a, b) => b - a + 1 <= w
  /\ w # 0 => \E a, b \in 1 .. k : a <= b /\ LosingRun(trades, a, b) /\ b - a + 1 = w

Tallied(trades, sum, k, m) ==
  /\ m \in Tally
  /\ m.wins + m.losses + m.scratches = k
  /\ m.grossWin - m.grossLoss = sum[k]
  /\ IsStreak(trades, k, m.streak)
  /\ IsWorstStreak(trades, k, m.worstStreak)

LEMMA MoreOf ==
  ASSUME NEW x \in Int, NEW y \in Int
  PROVE  Max({x, y}) = IF x <= y THEN y ELSE x
<1>1. CASE x <= y
  <2>1. {x, y} \in SUBSET Int /\ y \in {x, y} /\ \A z \in {x, y} : z <= y
    BY <1>1
  <2>2. Max({x, y}) = y
    BY <2>1, MaxIs
  <2>3. QED
    BY <1>1, <2>2
<1>2. CASE ~ (x <= y)
  <2>1. {x, y} \in SUBSET Int /\ x \in {x, y} /\ \A z \in {x, y} : z <= x
    BY <1>2
  <2>2. Max({x, y}) = x
    BY <2>1, MaxIs
  <2>3. QED
    BY <1>2, <2>2
<1>3. QED
  BY <1>1, <1>2

LEMMA TallyKeeps ==
  ASSUME NEW m \in Tally, NEW t \in Trade
  PROVE  /\ TallyTrade(m, t) \in Tally
         /\ t.pnl > 0 => TallyTrade(m, t) = [m EXCEPT !.wins = m.wins + 1, !.grossWin = m.grossWin + t.pnl,
                                                     !.streak = 0]
         /\ t.pnl < 0 => TallyTrade(m, t) =
              [m EXCEPT !.losses = m.losses + 1, !.grossLoss = m.grossLoss - t.pnl, !.streak = m.streak + 1,
                        !.worstStreak = IF m.worstStreak <= m.streak + 1 THEN m.streak + 1 ELSE m.worstStreak]
         /\ t.pnl = 0 => TallyTrade(m, t) = [m EXCEPT !.scratches = m.scratches + 1, !.streak = 0]
<1>1. t.pnl \in Int /\ m.worstStreak \in Int /\ m.streak + 1 \in Int
  BY DEF Trade, Tally
<1>2. Max({m.worstStreak, m.streak + 1}) = IF m.worstStreak <= m.streak + 1 THEN m.streak + 1 ELSE m.worstStreak
  BY <1>1, MoreOf
<1>3. PICK w \in Int : w = Max({m.worstStreak, m.streak + 1})
  BY <1>1, <1>2
<1>4. PICK next : next = TallyTrade(m, t)
  OBVIOUS
<1>5. PICK a, b, c, d, e, f, g \in Int :
        m = [wins |-> a, losses |-> b, scratches |-> c, streak |-> d, worstStreak |-> e,
             grossWin |-> f, grossLoss |-> g]
  BY DEF Tally
<1>6. PICK x \in Int : x = t.pnl
  BY <1>1
<1>7. CASE t.pnl > 0
  <2>1. next = [m EXCEPT !.wins = m.wins + 1, !.grossWin = m.grossWin + t.pnl, !.streak = 0]
    BY <1>1, <1>4, <1>7 DEF TallyTrade
  <2>2. next \in Tally
    <3>1. next = [wins |-> a + 1, losses |-> b, scratches |-> c, streak |-> 0, worstStreak |-> e,
               grossWin |-> f + x, grossLoss |-> g]
      BY <1>5, <1>6, <2>1
    <3>2. QED
      BY <3>1 DEF Tally
  <2>3. QED
    BY <1>1, <1>4, <1>7, <2>1, <2>2
<1>8. CASE t.pnl < 0
  <2>1. next = [m EXCEPT !.losses = m.losses + 1, !.grossLoss = m.grossLoss - t.pnl, !.streak = m.streak + 1,
                         !.worstStreak = w]
    BY <1>1, <1>3, <1>4, <1>8 DEF TallyTrade
  <2>2. next \in Tally
    <3>1. next = [wins |-> a, losses |-> b + 1, scratches |-> c, streak |-> d + 1, worstStreak |-> w,
               grossWin |-> f, grossLoss |-> g - x]
      BY <1>5, <1>6, <2>1
    <3>2. QED
      BY <1>3, <3>1 DEF Tally
  <2>3. ~ (t.pnl > 0) /\ ~ (t.pnl = 0)
    BY <1>1, <1>8
  <2>4. next = [m EXCEPT !.losses = m.losses + 1, !.grossLoss = m.grossLoss - t.pnl, !.streak = m.streak + 1,
                         !.worstStreak = IF m.worstStreak <= m.streak + 1 THEN m.streak + 1 ELSE m.worstStreak]
    BY <1>2, <1>3, <2>1
  <2>5. QED
    BY <1>4, <2>2, <2>3, <2>4
<1>9. CASE t.pnl = 0
  <2>1. next = [m EXCEPT !.scratches = m.scratches + 1, !.streak = 0]
    BY <1>1, <1>4, <1>9 DEF TallyTrade
  <2>2. next \in Tally
    <3>1. next = [wins |-> a, losses |-> b, scratches |-> c + 1, streak |-> 0, worstStreak |-> e,
               grossWin |-> f, grossLoss |-> g]
      BY <1>5, <1>6, <2>1
    <3>2. QED
      BY <3>1 DEF Tally
  <2>3. QED
    BY <1>1, <1>4, <1>9, <2>1, <2>2
<1>10. QED
  BY <1>1, <1>7, <1>8, <1>9

(* A trade that is no loss ends the losses in a row.                        *)
LEMMA StreakEnds ==
  ASSUME NEW n \in Nat, NEW trades \in [1 .. n -> Trade], NEW k \in 1 .. n, ~ (trades[k].pnl < 0)
  PROVE  /\ IsStreak(trades, k, 0)
         /\ \A w : IsWorstStreak(trades, k - 1, w) => IsWorstStreak(trades, k, w)
<1>1. IsStreak(trades, k, 0)
  BY DEF IsStreak, LosingRun
<1>2. \A a, b \in 1 .. k : a <= b /\ LosingRun(trades, a, b) => a \in 1 .. k - 1 /\ b \in 1 .. k - 1
  <2> SUFFICES ASSUME NEW a \in 1 .. k, NEW b \in 1 .. k, a <= b, LosingRun(trades, a, b)
               PROVE  a \in 1 .. k - 1 /\ b \in 1 .. k - 1
    OBVIOUS
  <2>1. b \in a .. b
    OBVIOUS
  <2>2. trades[b].pnl < 0
    BY <2>1 DEF LosingRun
  <2>3. b # k
    BY <2>2
  <2>4. QED
    BY <2>3
<1>3. \A a \in 1 .. k - 1 : a \in 1 .. k
  OBVIOUS
<1>4. QED
  BY <1>1, <1>2, <1>3 DEF IsWorstStreak

(* A loss makes it one longer.                                              *)
LEMMA StreakGrows ==
  ASSUME NEW n \in Nat, NEW trades \in [1 .. n -> Trade], NEW k \in 1 .. n, trades[k].pnl < 0,
         NEW s, IsStreak(trades, k - 1, s), NEW w, IsWorstStreak(trades, k - 1, w)
  PROVE  /\ IsStreak(trades, k, s + 1)
         /\ IsWorstStreak(trades, k, IF w <= s + 1 THEN s + 1 ELSE w)
<1>1. s \in 0 .. k - 1 /\ s \in Int /\ k \in Int
  BY DEF IsStreak
<1>2. LosingRun(trades, k - s, k)
  <2>1. LosingRun(trades, (k - 1) - s + 1, k - 1)
    BY DEF IsStreak
  <2>2. \A j \in k - s .. k : j \in (k - 1) - s + 1 .. k - 1 \/ j = k
    BY <1>1
  <2>3. QED
    BY <2>1, <2>2 DEF LosingRun
<1>3. s + 1 < k => ~ (trades[k - (s + 1)].pnl < 0)
  <2>1. s < k - 1 => ~ (trades[(k - 1) - s].pnl < 0)
    BY DEF IsStreak
  <2>2. (k - 1) - s = k - (s + 1)
    BY <1>1
  <2>3. QED
    BY <1>1, <2>1, <2>2
<1>4. IsStreak(trades, k, s + 1)
  <2>1. k - (s + 1) + 1 = k - s /\ s + 1 \in 0 .. k
    BY <1>1
  <2>2. QED
    BY <1>2, <1>3, <2>1 DEF IsStreak
<1>5. PICK v \in Nat : v = IF w <= s + 1 THEN s + 1 ELSE w
  BY <1>1 DEF IsWorstStreak
<1>6. w \in Nat /\ w <= v /\ s + 1 <= v
  BY <1>1, <1>5 DEF IsWorstStreak
<1>7. ASSUME NEW a \in 1 .. k, NEW b \in 1 .. k, a <= b, LosingRun(trades, a, b) PROVE b - a + 1 <= v
  <2>1. CASE b # k
    <3>1. a \in 1 .. k - 1 /\ b \in 1 .. k - 1
      BY <1>7, <2>1
    <3>2. b - a + 1 <= w
      BY <1>7, <3>1 DEF IsWorstStreak
    <3>3. QED
      BY <1>6, <3>2
  <2>2. CASE b = k
    <3>1. a >= k - s
      <4> SUFFICES ASSUME a < k - s PROVE FALSE
        BY <1>1
      <4>1. k - (s + 1) \in a .. b /\ s + 1 < k
        BY <1>1, <2>2
      <4>2. trades[k - (s + 1)].pnl < 0
        BY <1>7, <4>1 DEF LosingRun
      <4>3. QED
        BY <1>3, <4>1, <4>2
    <3>2. QED
      BY <1>1, <1>6, <2>2, <3>1
  <2>3. QED
    BY <2>1, <2>2
<1>8. v # 0 => \E a, b \in 1 .. k : a <= b /\ LosingRun(trades, a, b) /\ b - a + 1 = v
  <2>1. CASE w <= s + 1
    <3>1. k - s \in 1 .. k /\ k \in 1 .. k /\ k - s <= k /\ k - (k - s) + 1 = v
      BY <1>1, <1>5, <2>1
    <3>2. QED
      BY <1>2, <3>1
  <2>2. CASE ~ (w <= s + 1)
    <3>1. v = w /\ w # 0
      BY <1>1, <1>5, <1>6, <2>2
    <3>2. PICK a, b \in 1 .. k - 1 : a <= b /\ LosingRun(trades, a, b) /\ b - a + 1 = w
      BY <3>1 DEF IsWorstStreak
    <3>3. a \in 1 .. k /\ b \in 1 .. k
      BY <1>1
    <3>4. QED
      BY <3>1, <3>2, <3>3
  <2>3. QED
    BY <2>1, <2>2
<1>9. IsWorstStreak(trades, k, v)
  BY <1>7, <1>8 DEF IsWorstStreak
<1>10. QED
  BY <1>4, <1>5, <1>9

LEMMA TallyStep ==
  ASSUME NEW n \in Nat, NEW trades \in [1 .. n -> Trade], NEW sum \in [0 .. n -> Int], NEW k \in 1 .. n,
         sum[k] = sum[k - 1] + trades[k].pnl, NEW m, Tallied(trades, sum, k - 1, m)
  PROVE  Tallied(trades, sum, k, TallyTrade(m, trades[k]))
<1>1. m \in Tally
  BY DEF Tallied
<1>2. PICK t \in Trade : t = trades[k]
  OBVIOUS
<1>3. PICK next : next = TallyTrade(m, t)
  OBVIOUS
<1>4. next \in Tally
  BY <1>1, <1>3, TallyKeeps
<1>5. /\ m.wins \in Int /\ m.losses \in Int /\ m.scratches \in Int /\ m.grossWin \in Int
      /\ m.grossLoss \in Int /\ m.streak \in Int /\ m.worstStreak \in Int
      /\ t.pnl \in Int /\ sum[k - 1] \in Int /\ sum[k] = sum[k - 1] + t.pnl
  <2>1. k - 1 \in 0 .. n
    OBVIOUS
  <2>2. QED
    BY <1>1, <1>2, <2>1 DEF Tally, Trade
<1>6. PICK a, b, c, d, e, x, y, z \in Int :
        /\ a = m.wins /\ b = m.losses /\ c = m.scratches /\ d = m.grossWin /\ e = m.grossLoss
        /\ x = t.pnl /\ y = sum[k - 1] /\ z = sum[k]
  <2>1. sum[k] \in Int
    OBVIOUS
  <2>2. QED
    BY <1>5, <2>1
<1>7. /\ m.wins + m.losses + m.scratches = k - 1 /\ m.grossWin - m.grossLoss = sum[k - 1]
      /\ IsStreak(trades, k - 1, m.streak) /\ IsWorstStreak(trades, k - 1, m.worstStreak)
  BY DEF Tallied
<1>8. a + b + c = k - 1 /\ d - e = y /\ z = y + x
  BY <1>6, <1>5, <1>7
<1>9. CASE t.pnl > 0
  <2>1. next = [m EXCEPT !.wins = m.wins + 1, !.grossWin = m.grossWin + t.pnl, !.streak = 0]
    BY <1>1, <1>3, <1>9, TallyKeeps
  <2>2. /\ next.wins = m.wins + 1 /\ next.losses = m.losses /\ next.scratches = m.scratches
        /\ next.grossWin = m.grossWin + t.pnl /\ next.grossLoss = m.grossLoss
        /\ next.streak = 0 /\ next.worstStreak = m.worstStreak
    BY <1>1, <2>1 DEF Tally
  <2>3. ~ (trades[k].pnl < 0)
    BY <1>2, <1>5, <1>9
  <2>4. IsStreak(trades, k, 0) /\ IsWorstStreak(trades, k, m.worstStreak)
    BY <1>7, <2>3, StreakEnds
  <2>5. next.wins + next.losses + next.scratches = k /\ next.grossWin - next.grossLoss = sum[k]
    <3>1. next.wins = a + 1 /\ next.losses = b /\ next.scratches = c /\ next.grossWin = d + x /\ next.grossLoss = e
      BY <1>6, <2>2
    <3>2. (a + 1) + b + c = k /\ (d + x) - e = z
      BY <1>8
    <3>3. QED
      BY <1>6, <3>1, <3>2
  <2>6. QED
    BY <1>2, <1>3, <1>4, <2>2, <2>4, <2>5 DEF Tallied
<1>10. CASE t.pnl < 0
  <2>1. PICK w : w = IF m.worstStreak <= m.streak + 1 THEN m.streak + 1 ELSE m.worstStreak
    OBVIOUS
  <2>2. next = [m EXCEPT !.losses = m.losses + 1, !.grossLoss = m.grossLoss - t.pnl, !.streak = m.streak + 1,
                         !.worstStreak = w]
    BY <1>1, <1>3, <1>10, <2>1, TallyKeeps
  <2>3. /\ next.wins = m.wins /\ next.losses = m.losses + 1 /\ next.scratches = m.scratches
        /\ next.grossWin = m.grossWin /\ next.grossLoss = m.grossLoss - t.pnl
        /\ next.streak = m.streak + 1 /\ next.worstStreak = w
    BY <1>1, <2>2 DEF Tally
  <2>4. IsStreak(trades, k, m.streak + 1) /\ IsWorstStreak(trades, k, w)
    BY <1>2, <1>7, <1>10, <2>1, StreakGrows
  <2>5. next.wins + next.losses + next.scratches = k /\ next.grossWin - next.grossLoss = sum[k]
    <3>1. next.wins = a /\ next.losses = b + 1 /\ next.scratches = c /\ next.grossWin = d /\ next.grossLoss = e - x
      BY <1>6, <2>3
    <3>2. a + (b + 1) + c = k /\ d - (e - x) = z
      BY <1>8
    <3>3. QED
      BY <1>6, <3>1, <3>2
  <2>6. QED
    BY <1>2, <1>3, <1>4, <2>3, <2>4, <2>5 DEF Tallied
<1>11. CASE t.pnl = 0
  <2>1. next = [m EXCEPT !.scratches = m.scratches + 1, !.streak = 0]
    BY <1>1, <1>3, <1>11, TallyKeeps
  <2>2. /\ next.wins = m.wins /\ next.losses = m.losses /\ next.scratches = m.scratches + 1
        /\ next.grossWin = m.grossWin /\ next.grossLoss = m.grossLoss
        /\ next.streak = 0 /\ next.worstStreak = m.worstStreak
    BY <1>1, <2>1 DEF Tally
  <2>3. ~ (trades[k].pnl < 0)
    BY <1>2, <1>5, <1>11
  <2>4. IsStreak(trades, k, 0) /\ IsWorstStreak(trades, k, m.worstStreak)
    BY <1>7, <2>3, StreakEnds
  <2>5. next.wins + next.losses + next.scratches = k /\ next.grossWin - next.grossLoss = sum[k]
    <3>1. next.wins = a /\ next.losses = b /\ next.scratches = c + 1 /\ next.grossWin = d /\ next.grossLoss = e
      BY <1>6, <2>2
    <3>2. x = 0
      BY <1>6, <1>11
    <3>3. a + b + (c + 1) = k /\ d - e = z
      BY <1>8, <3>2
    <3>4. QED
      BY <1>6, <3>1, <3>3
  <2>6. QED
    BY <1>2, <1>3, <1>4, <2>2, <2>4, <2>5 DEF Tallied
<1>12. QED
  BY <1>5, <1>9, <1>10, <1>11

CountsUp(trades, tally) ==
  tally = [k \in 0 .. Len(trades) |-> IF k = 0 THEN NoTally ELSE TallyTrade(tally[k - 1], trades[k])]

LEMMA TallyIs ==
  ASSUME NEW n \in Nat, NEW trades \in [1 .. n -> Trade], NEW sum \in [0 .. n -> Int],
         Sums(PnlOf(trades), sum)
  PROVE  Tallied(trades, sum, n, TallyTrades(trades))
<1> DEFINE step == [k \in 1 .. n |-> [m \in Tally |-> TallyTrade(m, trades[k])]]
           tally == CHOOSE f : CountsUp(trades, f)
<1>0. Len(trades) = n /\ \A k \in 1 .. n : trades[k] \in Trade
  OBVIOUS
<1>1. PICK f \in [0 .. n -> Tally] : Goes(f, n, NoTally, step)
  <2>1. NoTally \in Tally
    BY DEF NoTally, Tally
  <2>2. step \in [1 .. n -> [Tally -> Tally]]
    BY TallyKeeps
  <2>3. PICK W, b, g : W = Tally /\ b = NoTally /\ g = step
    OBVIOUS
  <2> HIDE DEF step
  <2>4. b \in W /\ g \in [1 .. n -> [W -> W]]
    BY <2>1, <2>2, <2>3
  <2>5. \E f \in [0 .. n -> W] : Goes(f, n, b, g)
    BY <2>4, GoesSomewhere
  <2>6. QED
    BY <2>3, <2>5
<1>2. CountsUp(trades, f)
  <2>1. ASSUME NEW k \in 0 .. n
        PROVE  f[k] = IF k = 0 THEN NoTally ELSE TallyTrade(f[k - 1], trades[k])
    <3>1. f[k] = IF k = 0 THEN NoTally ELSE step[k][f[k - 1]]
      <4> HIDE DEF step
      <4>1. QED
        BY <1>1 DEF Goes
    <3>2. k # 0 => k \in 1 .. n /\ f[k - 1] \in Tally
      <4>1. k # 0 => k \in 1 .. n /\ k - 1 \in 0 .. n
        OBVIOUS
      <4>2. QED
        BY <1>1, <4>1
    <3>3. k # 0 => step[k][f[k - 1]] = TallyTrade(f[k - 1], trades[k])
      BY <3>2
    <3> HIDE DEF step
    <3>4. QED
      BY <3>1, <3>3
  <2>2. f = [k \in 0 .. n |-> f[k]]
    BY <1>1
  <2>3. QED
    BY <1>0, <2>1, <2>2 DEF CountsUp
<1>3. CountsUp(trades, tally)
  BY <1>2
<1>4. TallyTrades(trades) = tally[n]
  BY <1>0 DEF TallyTrades, CountsUp
<1> HIDE DEF tally, step
<1>5. sum[0] = 0 /\ \A k \in 1 .. n : sum[k] = sum[k - 1] + trades[k].pnl
  <2>1. PICK pnls : pnls = PnlOf(trades)
    OBVIOUS
  <2>2. pnls = [k \in 1 .. n |-> trades[k].pnl]
    BY <2>1 DEF PnlOf
  <2>3. Len(pnls) = n
    <3>1. \A k \in 1 .. n : trades[k].pnl \in Int
      BY <1>0 DEF Trade
    <3>2. pnls \in [1 .. n -> Int]
      BY <2>2, <3>1
    <3>3. QED
      BY <3>2, IsSequence
  <2>4. sum = [k \in 0 .. n |-> IF k = 0 THEN 0 ELSE sum[k - 1] + pnls[k]]
    BY <2>1, <2>3 DEF Sums
  <2>5. \A k \in 1 .. n : k \in 0 .. n /\ k # 0
    OBVIOUS
  <2>6. QED
    <3>1. sum[0] = 0
      BY <2>4
    <3>2. \A k \in 1 .. n : sum[k] = sum[k - 1] + pnls[k]
      BY <2>4, <2>5
    <3>3. \A k \in 1 .. n : pnls[k] = trades[k].pnl
      BY <2>2
    <3>4. QED
      BY <3>1, <3>2, <3>3
<1>6. Tallied(trades, sum, 0, NoTally)
  <2>1. NoTally \in Tally
    BY DEF NoTally, Tally
  <2>2. IsStreak(trades, 0, 0) /\ IsWorstStreak(trades, 0, 0)
    BY DEF IsStreak, IsWorstStreak, LosingRun
  <2>3. QED
    BY <1>5, <2>1, <2>2 DEF Tallied, NoTally
<1>7. Tallied(trades, sum, n, tally[n])
  <2> DEFINE S == {k \in 0 .. n : Tallied(trades, sum, k, tally[k])}
  <2>1. 0 \in S
    <3>1. tally[0] = NoTally
      BY <1>0, <1>3 DEF CountsUp
    <3>2. QED
      BY <1>6, <3>1
  <2>2. ASSUME NEW k \in 0 .. n - 1, k \in S PROVE k + 1 \in S
    <3>1. PICK i \in 1 .. n : i = k + 1 /\ k = i - 1
      OBVIOUS
    <3>2. tally[i] = TallyTrade(tally[i - 1], trades[i])
      BY <1>0, <1>3 DEF CountsUp
    <3>3. PICK m : m = tally[i - 1] /\ Tallied(trades, sum, i - 1, m)
      BY <2>2, <3>1
    <3>4. sum[i] = sum[i - 1] + trades[i].pnl
      BY <1>5
    <3>5. Tallied(trades, sum, i, TallyTrade(m, trades[i]))
      BY <3>3, <3>4, TallyStep
    <3>6. QED
      BY <3>1, <3>2, <3>3, <3>5
  <2> HIDE DEF S
  <2>3. 0 .. n \subseteq S
    BY <2>1, <2>2, AlongPositions
  <2>4. QED
    BY <2>3 DEF S
<1>8. QED
  BY <1>4, <1>7

(* The runs of losses of a log.                                             *)
StreaksOf(trades, n) ==
  {p \in (1 .. n) \X (1 .. n) : LosingRun(trades, p[1], p[2]) /\ p[1] <= p[2]}

TallyAgrees(trades, m) ==
  /\ m.wins + m.losses + m.scratches = Len(trades)
  /\ m.grossWin - m.grossLoss = Total(PnlOf(trades))
  /\ m.worstStreak = Max({0} \cup {p[2] - p[1] + 1 : p \in StreaksOf(trades, Len(trades))})

LEMMA TallyIsTold ==
  ASSUME NEW n \in Nat, NEW trades \in [1 .. n -> Trade]
  PROVE  TallyAgrees(trades, TallyTrades(trades))
<1>1. Len(trades) = n
  OBVIOUS
<1>2. PICK pnls : pnls = PnlOf(trades)
  OBVIOUS
<1>3. pnls \in Seq(Int) /\ Len(pnls) = n
  <2>1. \A k \in 1 .. n : trades[k].pnl \in Int
    BY DEF Trade
  <2>2. pnls \in [1 .. n -> Int]
    BY <1>2, <2>1 DEF PnlOf
  <2>3. QED
    BY <2>2, IsSequence
<1>4. PICK sum \in [0 .. n -> Int] : Sums(pnls, sum) /\ Total(pnls) = sum[n]
  BY <1>3, SumsExist
<1>5. PICK m : m = TallyTrades(trades)
  OBVIOUS
<1>6. Tallied(trades, sum, n, m)
  BY <1>2, <1>4, <1>5, TallyIs
<1>7. PICK w \in Nat : w = m.worstStreak /\ IsWorstStreak(trades, n, w)
  BY <1>6 DEF Tallied, IsWorstStreak
<1>8. PICK S : S = {0} \cup {p[2] - p[1] + 1 : p \in StreaksOf(trades, n)}
  OBVIOUS
<1>9. \A p \in StreaksOf(trades, n) :
        /\ p[1] \in 1 .. n /\ p[2] \in 1 .. n /\ p[1] <= p[2] /\ LosingRun(trades, p[1], p[2])
  BY DEF StreaksOf
<1>10. S \in SUBSET Int
  BY <1>8, <1>9
<1>11. \A y \in S : y <= w
  <2>1. \A p \in StreaksOf(trades, n) : p[2] - p[1] + 1 <= w
    BY <1>7, <1>9 DEF IsWorstStreak
  <2>2. QED
    BY <1>8, <2>1
<1>12. w \in S
  <2>1. CASE w = 0
    BY <1>8, <2>1
  <2>2. CASE w # 0
    <3>1. PICK a, b \in 1 .. n : a <= b /\ LosingRun(trades, a, b) /\ b - a + 1 = w
      BY <1>7, <2>2 DEF IsWorstStreak
    <3>2. <<a, b>> \in StreaksOf(trades, n)
      BY <3>1 DEF StreaksOf
    <3>3. w = <<a, b>>[2] - <<a, b>>[1] + 1
      BY <3>1
    <3>4. QED
      BY <1>8, <3>2, <3>3
  <2>3. QED
    BY <2>1, <2>2
<1>13. Max(S) = w
  BY <1>10, <1>11, <1>12, MaxIs
<1>14. QED
  BY <1>1, <1>2, <1>4, <1>5, <1>6, <1>7, <1>8, <1>13 DEF TallyAgrees, Tallied

-----------------------------------------------------------------------------
(* The benchmarks of one sleeve.                                            *)

IsBenchmark(b, n, start) == b = <<>> \/ (b = [j \in 1 .. n |-> b[j]] /\ b[1] = start)

LEMMA RoundExact ==
  ASSUME NEW x \in Int, NEW c \in Nat \ {0}
  PROVE  Round(x * c, c) = x
<1>1. PICK p \in Int : p = x * c
  OBVIOUS
<1>2. PICK q \in Int : q = (2 * p + c) \div (2 * c)
  OBVIOUS
<1>3. 2 * c * q <= 2 * p + c /\ 2 * p + c < 2 * c * q + 2 * c
  BY <1>2
<1>4. ~ (q <= x - 1)
  <2> SUFFICES ASSUME q <= x - 1 PROVE FALSE
    OBVIOUS
  <2>1. c * q <= c * (x - 1)
    OBVIOUS
  <2>2. c * (x - 1) = p - c
    BY <1>1
  <2>3. PICK y \in Int : y = c * q
    OBVIOUS
  <2>4. 2 * c * q = 2 * y
    BY <2>3
  <2>5. QED
    BY <1>3, <2>1, <2>2, <2>3, <2>4
<1>5. ~ (q >= x + 1)
  <2> SUFFICES ASSUME q >= x + 1 PROVE FALSE
    OBVIOUS
  <2>1. c * q >= c * (x + 1)
    OBVIOUS
  <2>2. c * (x + 1) = p + c
    BY <1>1
  <2>3. PICK y \in Int : y = c * q
    OBVIOUS
  <2>4. 2 * c * q = 2 * y
    BY <2>3
  <2>5. QED
    BY <1>3, <2>1, <2>2, <2>3, <2>4
<1>6. q = x
  BY <1>4, <1>5
<1>7. QED
  BY <1>1, <1>2, <1>6 DEF Round

LEMMA IndexIs ==
  ASSUME NEW n \in Nat, n >= 2, NEW candles \in [1 .. n -> Listing], NEW cap \in Int,
         NEW index, \A t \in DOMAIN index : index[t] \in Nat \ {0}
  PROVE  IsBenchmark(IndexBenchmark(candles, cap, index), n, cap)
<1>1. PICK b : b = IndexBenchmark(candles, cap, index)
  OBVIOUS
<1>2. PICK closes : closes = IF Cardinality(DOMAIN index) < 2 THEN <<>> ELSE AlignCloses(candles, index)
  OBVIOUS
<1>3. b = [i \in DOMAIN closes |-> Round(cap * closes[i], closes[1])]
  BY <1>1, <1>2 DEF IndexBenchmark
<1>4. CASE closes = <<>>
  <2>1. DOMAIN closes = {}
    BY <1>4
  <2>2. b = <<>>
    BY <1>3, <2>1
  <2>3. QED
    BY <1>1, <2>2 DEF IsBenchmark
<1>5. CASE closes # <<>>
  <2>1. closes = AlignCloses(candles, index)
    BY <1>2, <1>5
  <2>2. PICK matched : matched = {i \in 1 .. n : candles[i].ts \in DOMAIN index}
    OBVIOUS
  <2>3. DOMAIN candles = 1 .. n
    OBVIOUS
  <2> DEFINE upTo(i) == Max({m \in matched : m <= i})
  <2>4. closes = IF 1 \notin matched \/ Cardinality(matched) < 2 THEN <<>>
                 ELSE [i \in 1 .. n |-> index[candles[upTo(i)].ts]]
    BY <2>1, <2>2, <2>3 DEF AlignCloses
  <2>5. 1 \in matched /\ closes = [i \in 1 .. n |-> index[candles[upTo(i)].ts]]
    BY <1>5, <2>4
  <2>6. upTo(1) = 1
    <3>1. PICK S : S = {m \in matched : m <= 1}
      OBVIOUS
    <3>2. S \in SUBSET Int /\ 1 \in S /\ \A y \in S : y <= 1
      BY <2>2, <2>5, <3>1
    <3>3. Max(S) = 1
      BY <3>2, MaxIs
    <3>4. QED
      BY <3>1, <3>3
  <2>7. PICK c \in Nat \ {0} : c = closes[1]
    <3>1. candles[1].ts \in DOMAIN index
      BY <2>2, <2>5
    <3>2. 1 \in 1 .. n
      OBVIOUS
    <3> HIDE DEF upTo
    <3>3. closes[1] = index[candles[1].ts]
      BY <2>5, <2>6, <3>2
    <3>4. QED
      BY <3>1, <3>3
  <2>8. DOMAIN closes = 1 .. n
    <3> HIDE DEF upTo
    <3>1. QED
      BY <2>5
  <2>9. b = [i \in 1 .. n |-> b[i]] /\ b[1] = Round(cap * c, c)
    <3>1. 1 \in 1 .. n
      OBVIOUS
    <3>2. QED
      BY <1>3, <2>7, <2>8, <3>1
  <2>10. b[1] = cap
    BY <2>9, RoundExact
  <2>11. QED
    BY <1>1, <2>9, <2>10 DEF IsBenchmark
<1>6. QED
  BY <1>4, <1>5

(* A leg of buy and hold after some bars.                                   *)
IsLeg(leg) ==
  leg = [cash |-> leg.cash, qty |-> leg.qty, bought |-> leg.bought, curve |-> leg.curve]

LEMMA CarryIs ==
  ASSUME NEW leg, IsLeg(leg), NEW candle
  PROVE  IsLeg(Carry(leg, candle)) /\ Carry(leg, candle).curve = leg.curve
<1>1. PICK money, count : Carry(leg, candle) = [leg EXCEPT !.cash = money, !.qty = count]
  BY DEF Carry
<1>2. QED
  BY <1>1 DEF IsLeg

LEMMA BuyIs ==
  ASSUME NEW leg, IsLeg(leg), NEW cap, NEW candle
  PROVE  IsLeg(BuyShare(leg, cap, candle)) /\ BuyShare(leg, cap, candle).curve = leg.curve
<1>1. PICK money, count :
        \/ BuyShare(leg, cap, candle) = leg
        \/ BuyShare(leg, cap, candle) = [leg EXCEPT !.qty = count, !.cash = money, !.bought = TRUE]
  BY DEF BuyShare
<1>2. QED
  BY <1>1 DEF IsLeg

HeldTo(leg, i, cap) ==
  /\ IsLeg(leg) /\ leg.curve = [j \in 1 .. i |-> leg.curve[j]]
  /\ i = 0 => leg.cash = cap /\ leg.qty = 0
  /\ i # 0 => leg.curve[1] = cap

LEMMA HoldStep ==
  ASSUME NEW n \in Nat, NEW candles \in [1 .. n -> Listing], NEW cap \in Int, NEW i \in 1 .. n,
         NEW leg, HeldTo(leg, i - 1, cap)
  PROVE  HeldTo(HoldBar(leg, i, candles[i], cap), i, cap)
<1>1. PICK candle \in Listing : candle = candles[i]
  OBVIOUS
<1>2. PICK carried : carried = IF leg.qty > 0 THEN Carry(leg, candle) ELSE leg
  OBVIOUS
<1>3. PICK traded : traded = IF i = 2 /\ carried.qty = 0 THEN BuyShare(carried, cap, candle) ELSE carried
  OBVIOUS
<1>4. PICK value : value = traded.cash + Notional(traded.qty, candle.close)
  OBVIOUS
<1>5. PICK next : next = [traded EXCEPT !.curve = Append(traded.curve, value)]
  OBVIOUS
<1>6. HoldBar(leg, i, candle, cap) = next
  BY <1>2, <1>3, <1>4, <1>5 DEF HoldBar
<1>7. IsLeg(leg) /\ leg.curve = [j \in 1 .. i - 1 |-> leg.curve[j]]
  BY DEF HeldTo
<1>8. IsLeg(carried) /\ carried.curve = leg.curve
  BY <1>2, <1>7, CarryIs
<1>9. IsLeg(traded) /\ traded.curve = leg.curve
  BY <1>3, <1>8, BuyIs
<1>10. PICK s : s = leg.curve
  OBVIOUS
<1>11. PICK t : t = Append(s, value)
  OBVIOUS
<1>12. /\ Len(s) = i - 1 /\ t = [j \in 1 .. (i - 1) + 1 |-> t[j]]
       /\ t[(i - 1) + 1] = value /\ \A j \in 1 .. i - 1 : t[j] = s[j]
  <2>1. PICK m \in Nat : m = i - 1
    OBVIOUS
  <2>2. s = [j \in 1 .. m |-> s[j]]
    BY <1>7, <1>10, <2>1
  <2>3. /\ Len(s) = m /\ t = [j \in 1 .. m + 1 |-> t[j]]
        /\ t[m + 1] = value /\ \A j \in 1 .. m : t[j] = s[j]
    BY <1>11, <2>2, AppendIs
  <2>4. QED
    BY <2>1, <2>3
<1>13. (i - 1) + 1 = i
  OBVIOUS
<1>14. IsLeg(next) /\ next.curve = t
  BY <1>5, <1>9, <1>10, <1>11 DEF IsLeg
<1>15. t[1] = cap
  <2>1. CASE i = 1
    <3>1. leg.cash = cap /\ leg.qty = 0
      BY <2>1 DEF HeldTo
    <3>2. traded = leg
      BY <1>2, <1>3, <2>1, <3>1
    <3>3. candle.close \in Int
      BY DEF Listing
    <3>4. value = cap
      BY <1>4, <3>1, <3>2, <3>3 DEF Notional
    <3>5. QED
      BY <1>12, <1>13, <2>1, <3>4
  <2>2. CASE i # 1
    <3>1. 1 \in 1 .. i - 1
      BY <2>2
    <3>2. s[1] = cap
      BY <1>10, <2>2 DEF HeldTo
    <3>3. QED
      BY <1>12, <3>1, <3>2
  <2>3. QED
    BY <2>1, <2>2
<1>16. HeldTo(next, i, cap)
  BY <1>12, <1>13, <1>14, <1>15 DEF HeldTo
<1>17. QED
  BY <1>1, <1>6, <1>16

Legs(candles, cap, k, after) ==
  after = [i \in 0 .. k |-> IF i = 0 THEN [cash |-> cap, qty |-> 0, bought |-> FALSE, curve |-> <<>>]
                            ELSE HoldBar(after[i - 1], i, candles[i], cap)]

LEMMA HoldIs ==
  ASSUME NEW n \in Nat, n >= 2, NEW candles \in [1 .. n -> Listing], NEW cap \in Int
  PROVE  IsBenchmark(HoldBenchmark(candles, cap), n, cap)
<1> DEFINE base == [cash |-> cap, qty |-> 0, bought |-> FALSE, curve |-> <<>>]
           after == CHOOSE f : Legs(candles, cap, n, f)
<1>0. Len(candles) = n
  OBVIOUS
<1>1. \E f : Legs(candles, cap, n, f)
  <2> DEFINE S == {k \in 0 .. n : \E f : Legs(candles, cap, k, f)}
  <2>1. 0 \in S
    <3>1. PICK f : f = [i \in 0 .. 0 |-> base]
      OBVIOUS
    <3>2. Legs(candles, cap, 0, f)
      BY <3>1 DEF Legs
    <3>3. QED
      BY <3>2
  <2>2. ASSUME NEW k \in 0 .. n - 1, k \in S PROVE k + 1 \in S
    <3>1. PICK f : Legs(candles, cap, k, f)
      BY <2>2
    <3>2. PICK x : x = HoldBar(f[k], k + 1, candles[k + 1], cap)
      OBVIOUS
    <3>3. PICK g : g = [i \in 0 .. k + 1 |-> IF i = k + 1 THEN x ELSE f[i]]
      OBVIOUS
    <3>4. ASSUME NEW i \in 0 .. k + 1
          PROVE  g[i] = IF i = 0 THEN base ELSE HoldBar(g[i - 1], i, candles[i], cap)
      <4> HIDE DEF base
      <4>1. CASE i = k + 1
        <5>1. i # 0 /\ i - 1 = k /\ k \in 0 .. k + 1 /\ k # k + 1
          BY <4>1
        <5>2. g[i] = x /\ g[i - 1] = f[k]
          BY <3>3, <4>1, <5>1
        <5>3. QED
          BY <3>2, <4>1, <5>1, <5>2
      <4>2. CASE i # k + 1
        <5>1. i \in 0 .. k /\ (i # 0 => i - 1 \in 0 .. k + 1 /\ i - 1 # k + 1)
          BY <4>2
        <5>2. g[i] = f[i] /\ (i # 0 => g[i - 1] = f[i - 1])
          BY <3>3, <4>2, <5>1
        <5>3. f[i] = IF i = 0 THEN base ELSE HoldBar(f[i - 1], i, candles[i], cap)
          BY <3>1, <5>1 DEF Legs, base
        <5>4. QED
          BY <5>2, <5>3
      <4>3. QED
        BY <4>1, <4>2
    <3>5. g = [i \in 0 .. k + 1 |-> g[i]]
      BY <3>3
    <3>6. Legs(candles, cap, k + 1, g)
      BY <3>4, <3>5 DEF Legs
    <3>7. QED
      BY <3>6
  <2> HIDE DEF S
  <2>3. 0 .. n \subseteq S
    BY <2>1, <2>2, AlongPositions
  <2>4. QED
    BY <2>3 DEF S
<1>2. Legs(candles, cap, n, after)
  BY <1>1
<1>3. PICK leg : leg = after[n]
  OBVIOUS
<1> DEFINE exit  == Notional(leg.qty, FillPrice("market", FALSE, Last(candles).close))
           final == leg.cash + (IF leg.qty = 0 THEN 0 ELSE exit - Fees(exit))
<1>4. HoldBenchmark(candles, cap) = IF leg.bought THEN [leg.curve EXCEPT ![n] = final] ELSE <<>>
  BY <1>0, <1>3 DEF HoldBenchmark, Legs
<1> HIDE DEF after, final
<1>5. HeldTo(leg, n, cap)
  <2> DEFINE S == {k \in 0 .. n : HeldTo(after[k], k, cap)}
  <2>1. 0 \in S
    <3>1. PICK a : a = after /\ Legs(candles, cap, n, a)
      BY <1>2
    <3>2. 0 \in 0 .. n
      OBVIOUS
    <3>3. a[0] = base
      BY <3>1, <3>2 DEF Legs
    <3>4. HeldTo(base, 0, cap)
      BY DEF HeldTo, IsLeg
    <3> HIDE DEF base
    <3>5. QED
      BY <3>1, <3>3, <3>4
  <2>2. ASSUME NEW k \in 0 .. n - 1, k \in S PROVE k + 1 \in S
    <3>1. PICK i \in 1 .. n : i = k + 1 /\ k = i - 1
      OBVIOUS
    <3>2. after[i] = HoldBar(after[i - 1], i, candles[i], cap)
      <4>1. PICK a : a = after /\ Legs(candles, cap, n, a)
        BY <1>2
      <4>2. i \in 0 .. n /\ i # 0
        OBVIOUS
      <4>3. a[i] = HoldBar(a[i - 1], i, candles[i], cap)
        BY <4>1, <4>2 DEF Legs
      <4>4. QED
        BY <4>1, <4>3
    <3>3. PICK l : l = after[i - 1] /\ HeldTo(l, i - 1, cap)
      BY <2>2, <3>1
    <3>4. HeldTo(HoldBar(l, i, candles[i], cap), i, cap)
      BY <3>3, HoldStep
    <3>5. QED
      BY <3>1, <3>2, <3>3, <3>4
  <2> HIDE DEF S
  <2>3. 0 .. n \subseteq S
    BY <2>1, <2>2, AlongPositions
  <2>4. QED
    BY <1>3, <2>3 DEF S
<1>6. leg.curve = [j \in 1 .. n |-> leg.curve[j]] /\ leg.curve[1] = cap
  BY <1>5 DEF HeldTo
<1>7. PICK c : c = leg.curve
  OBVIOUS
<1>8. PICK d : d = [c EXCEPT ![n] = final]
  OBVIOUS
<1>9. c = [j \in 1 .. n |-> c[j]] /\ c[1] = cap
  BY <1>6, <1>7
<1>10. d = [j \in 1 .. n |-> d[j]] /\ d[1] = cap
  <2>1. DOMAIN d = 1 .. n /\ d[1] = c[1]
    BY <1>8, <1>9
  <2>2. d = [j \in 1 .. n |-> d[j]]
    BY <1>8, <1>9
  <2>3. QED
    BY <1>9, <2>1, <2>2
<1>11. HoldBenchmark(candles, cap) = IF leg.bought THEN d ELSE <<>>
  BY <1>4, <1>7, <1>8
<1>12. QED
  BY <1>10, <1>11 DEF IsBenchmark

-----------------------------------------------------------------------------
(* What else a sleeve leaves behind.                                        *)

Climb(candles, n) == \A j, k \in 1 .. n : j < k => candles[j].ts < candles[k].ts

HasLog(s, held, cap) ==
  LET n == Len(held.candles)
  IN  /\ IsTradeLog(s.trades, held.symbol)
      /\ s.equity[n].cents = cap + Total(PnlOf(s.trades)) /\ Total(PnlOf(s.trades)) \in Int
      /\ s.held \subseteq {s.equity[j].ts : j \in 1 .. n}
      /\ IsBenchmark(s.hold, n, cap) /\ IsBenchmark(s.index, n, cap)

LEMMA SleeveHas ==
  ASSUME NEW held, held.candles \in Seq(Listing), held.symbol \in Nat,
         NEW n \in Nat, n = Len(held.candles), n >= 2, Climb(held.candles, n),
         NEW cap \in Int, NEW index, \A t \in DOMAIN index : index[t] \in Nat \ {0},
         NEW log, IsLog(log, n)
  PROVE  HasLog(SleeveOf(held, cap, index, log), held, cap)
<1>1. PICK s : s = SleeveOf(held, cap, index, log)
  OBVIOUS
<1>2. PICK candles \in [1 .. n -> Listing] : candles = held.candles /\ Len(candles) = n
  OBVIOUS
<1>3. PICK ts \in [1 .. n -> Int] : \A i \in 1 .. n : ts[i] = candles[i].ts
  <2>1. PICK ts : ts = [i \in 1 .. n |-> candles[i].ts]
    OBVIOUS
  <2>2. ASSUME NEW i \in 1 .. n PROVE ts[i] \in Int
    <3>1. PICK candle \in Listing : candle = candles[i]
      OBVIOUS
    <3>2. QED
      BY <2>1, <3>1 DEF Listing
  <2>3. ts \in [1 .. n -> Int]
    BY <2>1, <2>2
  <2>4. QED
    BY <2>1, <2>3
<1>4. PICK q \in Nat : q = Len(log) /\ DOMAIN log = 1 .. q
  BY DEF IsLog
<1>5. ASSUME NEW l \in 1 .. q
      PROVE  /\ log[l].entry \in 2 .. n /\ log[l].exit \in 2 .. n /\ log[l].pnl \in Int
             /\ log[l].entry <= log[l].exit
             /\ \A p \in 1 .. q : l < p => log[l].exit < log[p].entry
  <2>1. log[l] \in AnyTrade(n)
    BY <1>4 DEF IsLog
  <2>2. QED
    BY <1>4, <2>1 DEF AnyTrade, IsLog
<1>6. PICK trades : trades = s.trades
  OBVIOUS
<1>7. trades = [l \in 1 .. q |-> [seq |-> l, symbol |-> held.symbol, pnl |-> log[l].pnl,
                  entry |-> held.candles[log[l].entry].ts, exit |-> held.candles[log[l].exit].ts]]
  BY <1>1, <1>4, <1>6 DEF SleeveOf
<1>8. ASSUME NEW l \in 1 .. q
      PROVE  /\ trades[l] \in Trade /\ trades[l].seq = l /\ trades[l].symbol = held.symbol
             /\ trades[l].pnl = log[l].pnl /\ trades[l].entry = ts[log[l].entry]
             /\ trades[l].exit = ts[log[l].exit] /\ trades[l].entry <= trades[l].exit
  <2>0. log[l].entry \in 1 .. n /\ log[l].exit \in 1 .. n /\ log[l].entry <= log[l].exit
    BY <1>5
  <2>1. PICK a \in 1 .. n, b \in 1 .. n : a = log[l].entry /\ b = log[l].exit /\ a <= b
    BY <2>0
  <2>2. PICK pnl \in Int : pnl = log[l].pnl
    BY <1>5
  <2>3. trades[l] = [seq |-> l, symbol |-> held.symbol, pnl |-> pnl, entry |-> ts[a], exit |-> ts[b]]
    <3>1. held.candles[a].ts = ts[a] /\ held.candles[b].ts = ts[b]
      BY <1>2, <1>3
    <3>2. trades[l] = [seq |-> l, symbol |-> held.symbol, pnl |-> pnl,
                       entry |-> held.candles[a].ts, exit |-> held.candles[b].ts]
      BY <1>7, <2>1, <2>2
    <3>3. QED
      BY <3>1, <3>2
  <2>4. ts[a] \in Int /\ ts[b] \in Int /\ l \in Nat
    BY <1>3, <2>1
  <2>5. a = b \/ ts[a] < ts[b]
    BY <1>2, <1>3, <2>1 DEF Climb
  <2>6. trades[l] \in Trade
    BY <2>3, <2>4 DEF Trade
  <2>7. QED
    BY <2>1, <2>2, <2>3, <2>4, <2>5, <2>6
<1>9. trades \in [1 .. q -> Trade] /\ Len(trades) = q
  <2>1. trades \in [1 .. q -> Trade]
    BY <1>7, <1>8
  <2>2. QED
    BY <2>1, IsSequence
<1>10. IsTradeLog(trades, held.symbol)
  <2>1. ASSUME NEW l \in 1 .. q, NEW p \in 1 .. q, l < p PROVE trades[l].exit < trades[p].entry
    <3>0. log[l].exit \in 1 .. n /\ log[p].entry \in 1 .. n /\ log[l].exit < log[p].entry
      <4>1. log[l].exit \in 2 .. n /\ log[p].entry \in 2 .. n
        BY <1>5
      <4>2. log[l].exit < log[p].entry
        BY <1>5, <2>1
      <4>3. \A i \in 2 .. n : i \in 1 .. n
        OBVIOUS
      <4>4. QED
        BY <4>1, <4>2, <4>3
    <3>1. PICK a \in 1 .. n, b \in 1 .. n : a = log[l].exit /\ b = log[p].entry /\ a < b
      BY <3>0
    <3>2. ts[a] < ts[b]
      BY <1>2, <1>3, <3>1 DEF Climb
    <3>3. QED
      BY <1>8, <3>1, <3>2
  <2>2. QED
    BY <1>8, <1>9, <2>1 DEF IsTradeLog
<1>11. PICK points : points = s.equity
  OBVIOUS
<1>12. points = [i \in 1 .. n |-> [ts |-> held.candles[i].ts, cents |-> cap + Total(WorthOf(log, i))]]
  <2>1. DOMAIN held.candles = 1 .. n
    OBVIOUS
  <2>2. QED
    BY <1>1, <1>11, <2>1 DEF SleeveOf, WorthOf
<1>13. WorthOf(log, n) = PnlOf(trades)
  <2>1. \A l \in 1 .. q : log[l].exit <= n /\ trades[l].pnl = log[l].pnl
    BY <1>5, <1>8
  <2>2. DOMAIN trades = 1 .. q
    BY <1>9
  <2>3. QED
    BY <1>4, <2>1, <2>2 DEF WorthOf, PnlOf
<1>14. points[n].cents = cap + Total(PnlOf(trades))
  <2>1. n \in 1 .. n
    OBVIOUS
  <2>2. QED
    BY <1>12, <1>13, <2>1
<1>15. Total(PnlOf(trades)) \in Int
  <2>1. PICK w : w = PnlOf(trades)
    OBVIOUS
  <2>2. w = [l \in 1 .. q |-> trades[l].pnl]
    BY <1>9, <2>1 DEF PnlOf
  <2>3. w \in [1 .. q -> Int]
    BY <1>5, <1>8, <2>2
  <2>4. w \in Seq(Int)
    BY <2>3, IsSequence
  <2>5. QED
    BY <2>1, <2>4, TotalIsNumber
<1>16. s.held \subseteq {points[j].ts : j \in 1 .. n}
  <2>1. DOMAIN held.candles = 1 .. n
    OBVIOUS
  <2>2. s.held = {held.candles[i].ts : i \in {j \in 1 .. n : OpenAt(log, j) # {}}}
    BY <1>1, <2>1 DEF SleeveOf
  <2>3. \A i \in 1 .. n : points[i].ts = held.candles[i].ts
    BY <1>12
  <2>4. QED
    BY <2>2, <2>3
<1>17. IsBenchmark(s.hold, n, cap)
  <2>1. PICK b : b = HoldBenchmark(candles, cap)
    OBVIOUS
  <2>2. IsBenchmark(b, n, cap)
    BY <2>1, HoldIs
  <2>3. s.hold = b
    BY <1>1, <1>2, <2>1 DEF SleeveOf
  <2>4. QED
    BY <2>2, <2>3
<1>18. IsBenchmark(s.index, n, cap)
  <2>1. PICK b : b = IndexBenchmark(candles, cap, index)
    OBVIOUS
  <2>2. IsBenchmark(b, n, cap)
    BY <2>1, IndexIs
  <2>3. s.index = b
    BY <1>1, <1>2, <2>1 DEF SleeveOf
  <2>4. QED
    BY <2>2, <2>3
<1>19. HasLog(s, held, cap)
  BY <1>6, <1>10, <1>11, <1>14, <1>15, <1>16, <1>17, <1>18 DEF HasLog
<1>20. QED
  BY <1>1, <1>19

SymbolsOf(insts) == [i \in DOMAIN insts |-> insts[i].symbol]

HaveLogs(results, insts, cut) ==
  \A i \in 1 .. Len(results) : HasLog(results[i], insts[i], cut[i])

LEMMA PartsHave ==
  SleevesInv /\ Done =>
    /\ HaveLogs(sleeves, request.instruments, shares)
    /\ AreTrades(LogsOf(sleeves), SymbolsOf(request.instruments))
    /\ Len(sleeves) = Len(request.instruments)
<1> SUFFICES ASSUME SleevesInv, Done
             PROVE  /\ HaveLogs(sleeves, request.instruments, shares)
                    /\ AreTrades(LogsOf(sleeves), SymbolsOf(request.instruments))
                    /\ Len(sleeves) = Len(request.instruments)
  OBVIOUS
<1>1. PICK r \in Requests : r = request
  BY DEF SleevesInv
<1>2. IsRequest(r)
  BY SleevesAssumption
<1>3. Runnable(r) /\ shares = SplitCapital(r.capital, Len(r.instruments))
  BY <1>1 DEF SleevesInv, Done
<1>4. PICK insts \in Seq([symbol : Nat, candles : Seq(Listing)]) : insts = r.instruments
  BY <1>2 DEF IsRequest
<1>5. PICK m \in Nat \ {0} : m = Len(insts)
  BY <1>3, <1>4 DEF Runnable
<1>6. Len(sleeves) = m /\ sleeves = [i \in 1 .. m |-> sleeves[i]]
  BY <1>1, <1>4, <1>5 DEF SleevesInv
<1>7. PICK capital \in Int : capital = r.capital /\ capital >= 1
  BY <1>2, <1>3 DEF IsRequest, Runnable
<1>8. PICK cut : cut = SplitCapital(capital, m) /\ cut = shares
  BY <1>3, <1>4, <1>5, <1>7
<1>9. cut \in Seq(Int) /\ Len(cut) = m
  BY <1>8, SharesAddUp
<1>10. DOMAIN r.instruments = 1 .. m
  <2>1. DOMAIN insts = 1 .. m
    BY <1>5
  <2>2. QED
    BY <1>4, <2>1
<1>11. ASSUME NEW i \in 1 .. m
       PROVE  HasLog(sleeves[i], insts[i], cut[i])
  <2>1. PICK held \in [symbol : Nat, candles : Seq(Listing)] : held = insts[i]
    <3>1. PICK T : T = [symbol : Nat, candles : Seq(Listing)]
      OBVIOUS
    <3>2. insts \in Seq(T)
      BY <3>1
    <3>3. insts[i] \in T
      BY <1>5, <3>2
    <3>4. QED
      BY <3>1, <3>3
  <2>2. PICK n \in Nat : n = Len(held.candles)
    BY <2>1
  <2>3. n >= 2
    BY <1>3, <1>4, <1>5, <2>1, <2>2 DEF Runnable
  <2>4. PICK log \in TradeLogs(n) : sleeves[i] = SleeveOf(held, cut[i], r.index, log)
    BY <1>1, <1>4, <1>6, <1>8, <2>1, <2>2 DEF SleevesInv
  <2>5. PICK share \in Int : share = cut[i]
    <3>1. cut \in [1 .. m -> Int]
      BY <1>9
    <3>2. cut[i] \in Int
      BY <3>1
    <3>3. QED
      BY <3>2
  <2>6. held.candles \in Seq(Listing) /\ held.symbol \in Nat /\ IsLog(log, n)
    BY <2>4, LogIs
  <2>7. Climb(held.candles, n)
    <3>1. \A k \in DOMAIN r.instruments : \A j, l \in DOMAIN r.instruments[k].candles :
            j < l => r.instruments[k].candles[j].ts < r.instruments[k].candles[l].ts
      BY <1>2 DEF IsRequest
    <3>2. DOMAIN held.candles = 1 .. n
      BY <2>2, <2>6
    <3>3. r.instruments[i] = held /\ i \in DOMAIN r.instruments
      BY <1>4, <1>10, <2>1
    <3>4. QED
      BY <3>1, <3>2, <3>3 DEF Climb
  <2>8. PICK index : index = r.index /\ \A t \in DOMAIN index : index[t] \in Nat \ {0}
    BY <1>2 DEF IsRequest
  <2>9. PICK s : s = SleeveOf(held, share, index, log)
    OBVIOUS
  <2>10. HasLog(s, held, share)
    BY <2>2, <2>3, <2>6, <2>7, <2>8, <2>9, SleeveHas
  <2>11. QED
    BY <2>1, <2>4, <2>5, <2>8, <2>9, <2>10
<1>12. HaveLogs(sleeves, insts, cut)
  BY <1>6, <1>11 DEF HaveLogs
<1>13. PICK logs : logs = LogsOf(sleeves)
  OBVIOUS
<1>14. PICK symbols : symbols = SymbolsOf(insts)
  OBVIOUS
<1>15. logs = [i \in 1 .. m |-> sleeves[i].trades] /\ symbols = [i \in 1 .. m |-> insts[i].symbol]
  <2>1. DOMAIN sleeves = 1 .. m /\ DOMAIN insts = 1 .. m
    BY <1>4, <1>6, <1>10
  <2>2. QED
    BY <1>13, <1>14, <2>1 DEF LogsOf, SymbolsOf
<1>16. Len(logs) = m /\ logs = [i \in 1 .. m |-> logs[i]]
  <2>1. PICK T : T = {sleeves[i].trades : i \in 1 .. m}
    OBVIOUS
  <2>2. logs \in [1 .. m -> T]
    BY <1>15, <2>1
  <2>3. QED
    BY <2>2, IsSequence
<1>17. \A i \in 1 .. m : IsTradeLog(logs[i], symbols[i])
  <2> TAKE i \in 1 .. m
  <2>1. IsTradeLog(sleeves[i].trades, insts[i].symbol)
    BY <1>11 DEF HasLog
  <2>2. QED
    BY <1>15, <2>1
<1>18. \A i, j \in 1 .. m : symbols[i] = symbols[j] => i = j
  <2>1. \A i, j \in 1 .. m : insts[i].symbol = insts[j].symbol => i = j
    BY <1>2, <1>4, <1>10 DEF IsRequest
  <2>2. QED
    BY <1>15, <2>1
<1>19. AreTrades(logs, symbols)
  BY <1>16, <1>17, <1>18 DEF AreTrades
<1>20. QED
  BY <1>1, <1>4, <1>5, <1>6, <1>8, <1>12, <1>13, <1>14, <1>19

-----------------------------------------------------------------------------
(* A basket's curve is what its sleeves are worth.                          *)

WorthOn(points, t, start) ==
  LET past == {k \in DOMAIN points : points[k].ts <= t}
  IN  IF past = {} THEN start ELSE points[Max(past)].cents

LEMMA TotalOfOne ==
  ASSUME NEW x \in Int, NEW s, s = [i \in 1 .. 1 |-> x]
  PROVE  Total(s) = x
<1>1. s \in [1 .. 1 -> Int]
  OBVIOUS
<1>2. s \in Seq(Int) /\ Len(s) = 1
  BY <1>1, IsSequence
<1>3. PICK f : f = [k \in 0 .. 1 |-> IF k = 0 THEN 0 ELSE x]
  OBVIOUS
<1>4. f[0] = 0 /\ f[1] = x /\ \A k \in 1 .. 1 : f[k] = f[k - 1] + s[k]
  BY <1>3
<1>5. QED
  BY <1>2, <1>4, TotalIs

LEMMA AlignedWorth ==
  ASSUME NEW n \in Nat, NEW points, DOMAIN points = 1 .. n,
         NEW stamps, NEW k \in DOMAIN stamps, NEW start
  PROVE  AlignSleeve(stamps, StampsOf(points), CentsOf(points), start)[k]
           = WorthOn(points, stamps[k], start)
<1>1. PICK own : own = StampsOf(points)
  OBVIOUS
<1>2. PICK values : values = CentsOf(points)
  OBVIOUS
<1>3. PICK past : past = {i \in DOMAIN own : own[i] <= stamps[k]}
  OBVIOUS
<1>4. AlignSleeve(stamps, own, values, start)[k] = IF past = {} THEN start ELSE values[Max(past)]
  BY <1>3 DEF AlignSleeve
<1>5. past = {i \in 1 .. n : points[i].ts <= stamps[k]}
  BY <1>1, <1>3 DEF StampsOf
<1>6. WorthOn(points, stamps[k], start) = IF past = {} THEN start ELSE points[Max(past)].cents
  BY <1>5 DEF WorthOn
<1>7. CASE past = {}
  BY <1>1, <1>2, <1>4, <1>6, <1>7
<1>8. CASE past # {}
  <2>1. past \subseteq 1 .. n
    BY <1>5
  <2>2. Max(past) \in past
    <3>1. n \in Int
      OBVIOUS
    <3>2. QED
      BY <1>8, <2>1, <3>1, LargestNatural
  <2>3. values[Max(past)] = points[Max(past)].cents
    <3>1. PICK j \in 1 .. n : j = Max(past)
      BY <2>1, <2>2
    <3>2. QED
      BY <1>2, <3>1 DEF CentsOf
  <2>4. QED
    BY <1>1, <1>2, <1>4, <1>6, <1>8, <2>3
<1>9. QED
  BY <1>7, <1>8

(* At its own stamps a sleeve is worth what its curve says.                 *)
StampedBy(points, n, own) ==
  /\ n \in Nat /\ DOMAIN points = 1 .. n /\ own \in [1 .. n -> Int] /\ Increasing(own, n)
  /\ \A j \in 1 .. n : own[j] = points[j].ts

LEMMA WorthOnItsOwn ==
  ASSUME NEW n, NEW points, NEW own, StampedBy(points, n, own), NEW k \in 1 .. n, NEW start
  PROVE  WorthOn(points, own[k], start) = points[k].cents
<1>0. /\ n \in Nat /\ DOMAIN points = 1 .. n /\ own \in [1 .. n -> Int] /\ Increasing(own, n)
      /\ \A j \in 1 .. n : own[j] = points[j].ts
  BY DEF StampedBy
<1>1. PICK past : past = {j \in 1 .. n : points[j].ts <= own[k]}
  OBVIOUS
<1>2. WorthOn(points, own[k], start) = IF past = {} THEN start ELSE points[Max(past)].cents
  BY <1>0, <1>1 DEF WorthOn
<1>3. \A j \in 1 .. n : j \in past <=> own[j] <= own[k]
  BY <1>0, <1>1
<1>4. k \in past /\ \A j \in past : j <= k
  <2>1. k \in past
    BY <1>0, <1>3
  <2>2. ASSUME NEW j \in past PROVE j <= k
    <3>1. j \in 1 .. n /\ own[j] <= own[k]
      BY <1>1, <1>3
    <3>2. k < j => own[k] < own[j]
      BY <1>0, <3>1 DEF Increasing
    <3>3. own[j] \in Int /\ own[k] \in Int
      BY <1>0, <3>1
    <3>4. QED
      BY <3>1, <3>2, <3>3
  <2>3. QED
    BY <2>1, <2>2
<1>5. Max(past) = k
  <2>1. past \in SUBSET Int
    BY <1>0, <1>1
  <2>2. QED
    BY <1>4, <2>1, MaxIs
<1>6. QED
  BY <1>2, <1>4, <1>5

(* values from start on, and a line of stamps that begins no later.         *)
Begins(n, own, values, start, l, line) ==
  /\ n \in Nat \ {0} /\ own \in [1 .. n -> Int] /\ Increasing(own, n) /\ values[1] = start
  /\ l \in Nat \ {0} /\ line \in [1 .. l -> Int] /\ line[1] <= own[1]

LEMMA FirstIsStart ==
  ASSUME NEW n, NEW own, NEW values, NEW start, NEW l, NEW line, Begins(n, own, values, start, l, line)
  PROVE  AlignSleeve(line, own, values, start)[1] = start
<1>0. /\ n \in Nat \ {0} /\ own \in [1 .. n -> Int] /\ Increasing(own, n) /\ values[1] = start
      /\ l \in Nat \ {0} /\ line \in [1 .. l -> Int] /\ line[1] <= own[1]
  BY DEF Begins
<1>1. PICK past : past = {i \in 1 .. n : own[i] <= line[1]}
  OBVIOUS
<1>2. 1 \in 1 .. l /\ 1 \in 1 .. n
  BY <1>0
<1>3. AlignSleeve(line, own, values, start)[1] = IF past = {} THEN start ELSE values[Max(past)]
  BY <1>0, <1>1, <1>2 DEF AlignSleeve
<1>4. \A i \in past : i = 1
  <2> TAKE i \in past
  <2>1. i \in 1 .. n /\ own[i] <= line[1] /\ own[i] \in Int /\ own[1] \in Int /\ line[1] \in Int
    BY <1>0, <1>1, <1>2
  <2>2. 1 < i => own[1] < own[i]
    BY <1>0, <1>2, <2>1 DEF Increasing
  <2>3. QED
    BY <1>0, <2>1, <2>2
<1>5. CASE past = {}
  BY <1>3, <1>5
<1>6. CASE past # {}
  <2>1. past \subseteq 1 .. n
    BY <1>1
  <2>2. Max(past) \in past
    <3>1. n \in Int
      BY <1>0
    <3>2. QED
      BY <1>6, <2>1, <3>1, LargestNatural
  <2>3. Max(past) = 1
    BY <1>4, <2>2
  <2>4. QED
    BY <1>0, <1>3, <1>6, <2>3
<1>7. QED
  BY <1>5, <1>6

(* The first and the last stamp of a basket.                                *)
Spans(stamps, results) ==
  /\ stamps \in [1 .. Len(stamps) -> Int] /\ Len(stamps) \in Nat \ {0}
  /\ \A i \in 1 .. Len(results) : \A j \in 1 .. Len(results[i].equity) :
       stamps[1] <= results[i].equity[j].ts /\ results[i].equity[j].ts <= stamps[Len(stamps)]

LEMMA StampsSpan ==
  ASSUME NEW results, NEW insts, NEW cut, AreParts(results, insts, cut),
         NEW stamps, stamps = UnionStamps(results)
  PROVE  Spans(stamps, results)
<1>1. /\ stamps \in Seq(Int) /\ Len(stamps) # 0
      /\ \A i, j \in 1 .. Len(stamps) : i < j => stamps[i] < stamps[j]
      /\ \A i \in 1 .. Len(results) : \A j \in 1 .. Len(results[i].equity) :
           \E k \in 1 .. Len(stamps) : stamps[k] = results[i].equity[j].ts
  BY StampsAre
<1>2. PICK l \in Nat \ {0} : l = Len(stamps)
  BY <1>1
<1>3. PICK line \in [1 .. l -> Int] : line = stamps
  BY <1>1, <1>2
<1>4. 1 \in 1 .. l /\ l \in 1 .. l
  OBVIOUS
<1>5. ASSUME NEW i \in 1 .. Len(results), NEW j \in 1 .. Len(results[i].equity)
      PROVE  line[1] <= results[i].equity[j].ts /\ results[i].equity[j].ts <= line[l]
  <2>1. PICK k \in 1 .. l : line[k] = results[i].equity[j].ts
    BY <1>1, <1>2, <1>3
  <2>2. k = 1 \/ line[1] < line[k]
    BY <1>1, <1>2, <1>3, <1>4
  <2>3. k = l \/ line[k] < line[l]
    <3>1. k < l => line[k] < line[l]
      BY <1>1, <1>2, <1>3, <1>4
    <3>2. k <= l
      OBVIOUS
    <3>3. QED
      BY <3>1, <3>2
  <2>4. line[1] \in Int /\ line[k] \in Int /\ line[l] \in Int
    BY <1>4
  <2>5. QED
    BY <2>1, <2>2, <2>3, <2>4
<1>6. QED
  BY <1>2, <1>3, <1>5 DEF Spans

WorthsOn(results, t, cut) == [i \in DOMAIN results |-> WorthOn(results[i].equity, t, cut[i])]

LEMMA BasketWorth ==
  ASSUME NEW results, NEW insts, NEW cut, AreParts(results, insts, cut),
         NEW stamps, stamps = UnionStamps(results),
         NEW curve, curve = SumAligned(AlignedTo(results, stamps, cut), stamps)
  PROVE  \A k \in 1 .. Len(stamps) : curve[k] = Total(WorthsOn(results, stamps[k], cut))
<1>1. Len(stamps) \in Nat /\ DOMAIN stamps = 1 .. Len(stamps)
  <2>1. stamps \in Seq(Int)
    BY StampsAre
  <2>2. QED
    BY <2>1
<1>2. PICK m \in Nat : m = Len(results) /\ DOMAIN results = 1 .. m
  BY DEF AreParts
<1>3. PICK aligned : aligned = AlignedTo(results, stamps, cut)
  OBVIOUS
<1>4. aligned = [i \in 1 .. m |-> AlignSleeve(stamps, StampsOf(results[i].equity),
                                              CentsOf(results[i].equity), cut[i])]
  BY <1>2, <1>3 DEF AlignedTo
<1>5. ASSUME NEW k \in 1 .. Len(stamps)
      PROVE  curve[k] = Total(WorthsOn(results, stamps[k], cut))
  <2>1. ASSUME NEW i \in 1 .. m
        PROVE  aligned[i][k] = WorthOn(results[i].equity, stamps[k], cut[i])
    <3>1. PICK points : points = results[i].equity
      OBVIOUS
    <3>2. points \in Seq(Point)
      BY <1>2, <3>1 DEF AreParts, IsSleeve
    <3>3. PICK n \in Nat : n = Len(points) /\ DOMAIN points = 1 .. n
      BY <3>2
    <3>4. PICK start : start = cut[i]
      OBVIOUS
    <3>5. PICK a : a = AlignSleeve(stamps, StampsOf(points), CentsOf(points), start)
      OBVIOUS
    <3>6. a[k] = WorthOn(points, stamps[k], start)
      BY <1>1, <3>3, <3>5, AlignedWorth
    <3>7. aligned[i] = a
      BY <1>4, <3>1, <3>4, <3>5
    <3>8. QED
      BY <3>1, <3>4, <3>6, <3>7
  <2>2. DOMAIN aligned = 1 .. m
    BY <1>4
  <2>3. curve[k] = Total([i \in 1 .. m |-> aligned[i][k]])
    BY <1>1, <1>3, <2>2 DEF SumAligned
  <2>4. [i \in 1 .. m |-> aligned[i][k]] = WorthsOn(results, stamps[k], cut)
    BY <1>2, <2>1 DEF WorthsOn
  <2>5. QED
    BY <2>3, <2>4
<1>6. QED
  BY <1>5

(* After its last stamp a sleeve stays worth what it ended with.            *)
LEMMA WorthAtTheEnd ==
  ASSUME NEW n \in Nat \ {0}, NEW points, DOMAIN points = 1 .. n,
         NEW t, \A j \in 1 .. n : points[j].ts <= t, NEW start
  PROVE  WorthOn(points, t, start) = points[n].cents
<1>1. PICK past : past = {j \in 1 .. n : points[j].ts <= t}
  OBVIOUS
<1>2. WorthOn(points, t, start) = IF past = {} THEN start ELSE points[Max(past)].cents
  BY <1>1 DEF WorthOn
<1>3. past \in SUBSET Int /\ n \in past /\ \A j \in past : j <= n
  BY <1>1
<1>4. Max(past) = n
  BY <1>3, MaxIs
<1>5. QED
  BY <1>2, <1>3, <1>4

LEMMA BasketEnds ==
  ASSUME NEW results, NEW insts, NEW cut, AreParts(results, insts, cut), HaveLogs(results, insts, cut),
         NEW stamps, stamps = UnionStamps(results),
         NEW curve, curve = SumAligned(AlignedTo(results, stamps, cut), stamps)
  PROVE  curve[Len(stamps)] = Total(cut) + Total([i \in DOMAIN results |-> Total(PnlOf(results[i].trades))])
<1>1. Spans(stamps, results)
  BY StampsSpan
<1>2. PICK l \in Nat \ {0} : l = Len(stamps)
  BY <1>1 DEF Spans
<1>3. curve[l] = Total(WorthsOn(results, stamps[l], cut))
  <2>1. l \in 1 .. Len(stamps)
    BY <1>2
  <2>2. QED
    BY <2>1, BasketWorth
<1>4. PICK m \in Nat : m = Len(results) /\ DOMAIN results = 1 .. m
  BY DEF AreParts
<1>5. cut \in [1 .. m -> Int]
  BY <1>4 DEF AreParts
<1> DEFINE made == [i \in 1 .. m |-> Total(PnlOf(results[i].trades))]
<1>6. ASSUME NEW i \in 1 .. m
      PROVE  /\ made[i] \in Int
             /\ WorthOn(results[i].equity, stamps[l], cut[i]) = cut[i] + made[i]
  <2>1. /\ Len(insts[i].candles) \in Nat /\ Len(insts[i].candles) >= 2
        /\ IsSleeve(results[i], insts[i], cut[i])
    BY <1>4 DEF AreParts
  <2>2. PICK n \in Nat \ {0} : n = Len(insts[i].candles)
    BY <2>1
  <2>3. HasLog(results[i], insts[i], cut[i])
    BY <1>4 DEF HaveLogs
  <2>4. PICK points : points = results[i].equity
    OBVIOUS
  <2>5. DOMAIN points = 1 .. n /\ Len(points) = n
    BY <2>1, <2>2, <2>4 DEF IsSleeve
  <2>6. \A j \in 1 .. n : points[j].ts <= stamps[l]
    BY <1>1, <1>2, <1>4, <2>4, <2>5 DEF Spans
  <2>7. PICK start : start = cut[i]
    OBVIOUS
  <2>8. WorthOn(points, stamps[l], start) = points[n].cents
    BY <2>5, <2>6, WorthAtTheEnd
  <2>9. points[n].cents = cut[i] + made[i] /\ made[i] \in Int
    BY <2>2, <2>3, <2>4 DEF HasLog
  <2>10. QED
    BY <2>4, <2>7, <2>8, <2>9
<1>7. PICK all \in [1 .. m -> Int] : all = made
  BY <1>6
<1>8. PICK worths : worths = WorthsOn(results, stamps[l], cut)
  OBVIOUS
<1>9. worths = [i \in 1 .. m |-> cut[i] + all[i]]
  <2>1. \A i \in 1 .. m : WorthOn(results[i].equity, stamps[l], cut[i]) = cut[i] + all[i]
    BY <1>6, <1>7
  <2> HIDE DEF made
  <2>2. QED
    BY <1>4, <1>8, <2>1 DEF WorthsOn
<1>10. Total(worths) = Total(cut) + Total(all)
  <2>1. \A i \in 1 .. m : worths[i] = cut[i] + all[i] /\ cut[i] \in Int /\ all[i] \in Int
    BY <1>5, <1>9
  <2>2. worths \in [1 .. m -> Int]
    BY <1>9, <2>1
  <2>3. AreAdded(worths, cut, all, m)
    BY <1>5, <2>1, <2>2 DEF AreAdded
  <2>4. QED
    BY <2>3, TotalsAdd
<1>11. QED
  BY <1>2, <1>3, <1>4, <1>7, <1>8, <1>10

(* A benchmark of the sleeves', or none.                                    *)
BenchmarkOf(results, each, stamps, cut) ==
  IF \E i \in DOMAIN results : each[i] = <<>> THEN <<>>
  ELSE SumAligned([i \in DOMAIN results |->
                     AlignSleeve(stamps, StampsOf(results[i].equity), each[i], cut[i])],
                  stamps)

LEMMA BasketBenchmark ==
  ASSUME NEW results, NEW insts, NEW cut, AreParts(results, insts, cut),
         NEW stamps, stamps = UnionStamps(results), NEW each,
         \A i \in 1 .. Len(results) : IsBenchmark(each[i], Len(insts[i].candles), cut[i]),
         NEW b, b = BenchmarkOf(results, each, stamps, cut)
  PROVE  /\ b = <<>> <=> \E i \in DOMAIN results : each[i] = <<>>
         /\ b # <<>> => Len(b) = Len(stamps) /\ b[1] = Total(cut)
<1>1. Spans(stamps, results)
  BY StampsSpan
<1>2. PICK l \in Nat \ {0} : l = Len(stamps)
  BY <1>1 DEF Spans
<1>3. PICK m \in Nat \ {0} : m = Len(results) /\ DOMAIN results = 1 .. m
  BY DEF AreParts
<1>4. CASE \E i \in 1 .. m : each[i] = <<>>
  BY <1>3, <1>4 DEF BenchmarkOf
<1>5. CASE \A i \in 1 .. m : each[i] # <<>>
  <2>1. PICK curves : curves = [i \in 1 .. m |-> AlignSleeve(stamps, StampsOf(results[i].equity), each[i], cut[i])]
    OBVIOUS
  <2>2. b = SumAligned(curves, stamps)
    BY <1>3, <1>5, <2>1 DEF BenchmarkOf
  <2>3. DOMAIN stamps = 1 .. l /\ DOMAIN curves = 1 .. m
    BY <1>1, <1>2, <2>1 DEF Spans
  <2>4. b = [k \in 1 .. l |-> Total([i \in 1 .. m |-> curves[i][k]])]
    BY <2>2, <2>3 DEF SumAligned
  <2>5. b # <<>> /\ Len(b) = l
    <3>1. DOMAIN b = 1 .. l
      BY <2>4
    <3>2. PICK T : T = {b[k] : k \in 1 .. l}
      OBVIOUS
    <3>3. b \in [1 .. l -> T]
      BY <2>4, <3>1, <3>2
    <3>4. Len(b) = l
      BY <3>3, IsSequence
    <3>5. b # <<>>
      BY <3>4
    <3>6. QED
      BY <3>4, <3>5
  <2>6. ASSUME NEW i \in 1 .. m PROVE curves[i][1] = cut[i]
    <3>1. PICK n, line, values :
           /\ IsCurve(n, line, values) /\ n = Len(results[i].equity)
           /\ StampsOf(results[i].equity) = line /\ CentsOf(results[i].equity) = values
           /\ \A j \in 1 .. n : line[j] = results[i].equity[j].ts
           /\ values[1] = cut[i] /\ cut[i] \in Int
      BY <1>3, PartIs
    <3>2. n \in Nat \ {0} /\ line \in [1 .. n -> Int] /\ Increasing(line, n)
      BY <3>1 DEF IsCurve
    <3>3. PICK mine : mine = each[i] /\ mine # <<>>
      BY <1>5
    <3>4. PICK start : start = cut[i]
      OBVIOUS
    <3>5. mine[1] = start
      <4>1. IsBenchmark(mine, Len(insts[i].candles), start)
        BY <1>3, <3>3, <3>4
      <4>2. QED
        BY <3>3, <4>1 DEF IsBenchmark
    <3>6. PICK rule \in [1 .. l -> Int] : rule = stamps
      BY <1>1, <1>2 DEF Spans
    <3>7. rule[1] <= line[1]
      <4>1. 1 \in 1 .. n
        BY <3>2
      <4>2. QED
        BY <1>1, <1>3, <3>1, <3>6, <4>1 DEF Spans
    <3>8. AlignSleeve(rule, line, mine, start)[1] = start
      <4>1. Begins(n, line, mine, start, l, rule)
        BY <3>2, <3>5, <3>7 DEF Begins
      <4>2. QED
        BY <4>1, FirstIsStart
    <3>9. QED
      BY <2>1, <3>1, <3>3, <3>4, <3>6, <3>8
  <2>7. b[1] = Total(cut)
    <3>1. cut = [i \in 1 .. m |-> cut[i]]
      BY <1>3 DEF AreParts
    <3>2. [i \in 1 .. m |-> curves[i][1]] = cut
      BY <2>6, <3>1
    <3>3. 1 \in 1 .. l
      OBVIOUS
    <3>4. QED
      BY <2>4, <3>2, <3>3
  <2>8. QED
    BY <1>2, <1>3, <1>5, <2>5, <2>7
<1>6. QED
  BY <1>4, <1>5

-----------------------------------------------------------------------------
(* What a report says, and what a finished run reports.                     *)

LEMMA MergedAre ==
  ASSUME NEW results, NEW logs, logs = LogsOf(results), NEW symbols, AreTrades(logs, symbols),
         NEW t, t = MergeTrades(results)
  PROVE  Len(t) \in Nat /\ t \in [1 .. Len(t) -> Trade] /\ \A k \in 1 .. Len(t) : t[k].seq = k
<1>1. PICK U : U = UpTo(logs, Len(logs))
  OBVIOUS
<1>2. PICK sorted : Renumbered(t, sorted)
  BY <1>1, MergedIs
<1>3. PICK n \in Nat : n = Len(sorted)
  BY <1>2 DEF Renumbered
<1>4. t \in [1 .. n -> Trade] /\ \A k \in 1 .. n : t[k].seq = k
  BY <1>2, <1>3 DEF Renumbered
<1>5. Len(t) = n
  BY <1>4, IsSequence
<1>6. QED
  BY <1>4, <1>5

LEMMA PnlIsNumber ==
  ASSUME NEW n \in Nat, NEW t \in [1 .. n -> Trade]
  PROVE  Total(PnlOf(t)) \in Int
<1>1. PICK w : w = PnlOf(t)
  OBVIOUS
<1>2. \A k \in 1 .. n : t[k].pnl \in Int
  <2> TAKE k \in 1 .. n
  <2>1. t[k] \in Trade
    OBVIOUS
  <2>2. QED
    BY <2>1 DEF Trade
<1>3. w \in [1 .. n -> Int]
  BY <1>1, <1>2 DEF PnlOf
<1>4. w \in Seq(Int)
  BY <1>3, IsSequence
<1>5. QED
  BY <1>1, <1>4, TotalIsNumber

(* A curve, its stamps, its trades and its benchmarks add up.               *)
BenchmarkFits(b, some, n, capital) ==
  /\ b = <<>> <=> some
  /\ b # <<>> => Len(b) = n /\ b[1] = capital

ReportAddsUp(report, results, cut, capital) ==
  LET n == Len(report.equity)
  IN  /\ \A k \in 1 .. n : report.equity[k] = Total(WorthsOn(results, report.stamps[k], cut))
      /\ report.equity[1] = capital
      /\ report.metrics.pnl = Total(PnlOf(report.trades))
      /\ BenchmarkFits(report.hold, \E i \in DOMAIN results : results[i].hold = <<>>, n, capital)
      /\ BenchmarkFits(report.index, \E i \in DOMAIN results : results[i].index = <<>>, n, capital)

LEMMA BasketAddsUp ==
  ASSUME NEW results, NEW insts, NEW cut, AreParts(results, insts, cut), HaveLogs(results, insts, cut),
         NEW symbols, AreTrades(LogsOf(results), symbols), shares = cut,
         Total(cut) = request.capital, request.capital \in Int
  PROVE  ReportAddsUp(RunBasket(results), results, cut, request.capital)
<1>1. PICK report : report = RunBasket(results)
  OBVIOUS
<1>2. PICK stamps : stamps = UnionStamps(results)
  OBVIOUS
<1>3. PICK curve : curve = SumAligned(AlignedTo(results, stamps, cut), stamps)
  OBVIOUS
<1>4. PICK trades : trades = MergeTrades(results)
  OBVIOUS
<1>5. Aligned(results, stamps) = AlignedTo(results, stamps, cut)
  BY DEF Aligned, AlignedTo, CentsOf
<1>6. /\ report.stamps = stamps /\ report.equity = curve /\ report.trades = trades
      /\ report.metrics.pnl = Last(curve) - request.capital
      /\ report.hold = SumBenchmark(results, [i \in DOMAIN results |-> results[i].hold], stamps)
      /\ report.index = SumBenchmark(results, [i \in DOMAIN results |-> results[i].index], stamps)
  BY <1>1, <1>2, <1>3, <1>4, <1>5 DEF RunBasket, Metrics
<1>7. PICK l \in Nat \ {0} : l = Len(stamps) /\ curve \in [1 .. l -> Int] /\ curve[1] = Total(cut)
  BY <1>2, <1>3, BasketCurveIs
<1>8. Len(curve) = l
  BY <1>7, IsSequence
<1>9. \A k \in 1 .. l : curve[k] = Total(WorthsOn(results, stamps[k], cut))
  BY <1>2, <1>3, <1>7, BasketWorth
<1>10. PICK m \in Nat : m = Len(results) /\ DOMAIN results = 1 .. m
  BY DEF AreParts
<1>11. Last(curve) - request.capital = Total(PnlOf(trades))
  <2>1. Last(curve) = curve[l]
    BY <1>8 DEF Last
  <2>2. curve[l] = Total(cut) + Total([i \in DOMAIN results |-> Total(PnlOf(results[i].trades))])
    BY <1>2, <1>3, <1>7, BasketEnds
  <2>3. PICK logs : logs = LogsOf(results)
    OBVIOUS
  <2>4. AreTrades(logs, symbols)
    BY <2>3
  <2>5. Total(PnlOf(trades)) = Total([i \in DOMAIN logs |-> Total(PnlOf(logs[i]))])
    BY <1>4, <2>3, <2>4, MergedTotals
  <2>6. [i \in DOMAIN logs |-> Total(PnlOf(logs[i]))] = [i \in DOMAIN results |-> Total(PnlOf(results[i].trades))]
    BY <2>3 DEF LogsOf
  <2>7. Total(PnlOf(trades)) \in Int
    <3>1. PICK n \in Nat : n = Len(trades) /\ trades \in [1 .. n -> Trade]
      BY <1>4, <2>3, <2>4, MergedAre
    <3>2. QED
      BY <3>1, PnlIsNumber
  <2>8. PICK x \in Int : x = Total(PnlOf(trades))
    BY <2>7
  <2>9. PICK c \in Int : c = request.capital
    OBVIOUS
  <2>10. curve[l] = c + x
    BY <2>2, <2>5, <2>6, <2>8, <2>9
  <2>11. QED
    BY <2>1, <2>8, <2>9, <2>10
<1>12. ASSUME NEW each, \A i \in 1 .. m : IsBenchmark(each[i], Len(insts[i].candles), cut[i])
       PROVE  BenchmarkFits(SumBenchmark(results, each, stamps), \E i \in DOMAIN results : each[i] = <<>>,
                            l, request.capital)
  <2>1. PICK b : b = BenchmarkOf(results, each, stamps, cut)
    OBVIOUS
  <2>2. SumBenchmark(results, each, stamps) = b
    BY <2>1 DEF SumBenchmark, BenchmarkOf
  <2>3. \A i \in 1 .. Len(results) : IsBenchmark(each[i], Len(insts[i].candles), cut[i])
    BY <1>10, <1>12
  <2>4. /\ b = <<>> <=> \E i \in DOMAIN results : each[i] = <<>>
        /\ b # <<>> => Len(b) = Len(stamps) /\ b[1] = Total(cut)
    BY <1>2, <2>1, <2>3, BasketBenchmark
  <2>5. QED
    BY <1>7, <2>2, <2>4 DEF BenchmarkFits
<1>13. \A i \in 1 .. m : /\ IsBenchmark(results[i].hold, Len(insts[i].candles), cut[i])
                         /\ IsBenchmark(results[i].index, Len(insts[i].candles), cut[i])
  BY <1>10 DEF HaveLogs, HasLog
<1>14. BenchmarkFits(report.hold, \E i \in DOMAIN results : results[i].hold = <<>>, l, request.capital)
  <2>1. PICK each : each = [i \in DOMAIN results |-> results[i].hold]
    OBVIOUS
  <2>2. \A i \in 1 .. m : IsBenchmark(each[i], Len(insts[i].candles), cut[i])
    BY <1>10, <1>13, <2>1
  <2>3. BenchmarkFits(SumBenchmark(results, each, stamps), \E i \in DOMAIN results : each[i] = <<>>,
                      l, request.capital)
    BY <1>12, <2>2
  <2>4. (\E i \in DOMAIN results : each[i] = <<>>) <=> \E i \in DOMAIN results : results[i].hold = <<>>
    BY <2>1
  <2>5. report.hold = SumBenchmark(results, each, stamps)
    BY <1>6, <2>1
  <2>6. QED
    BY <2>3, <2>4, <2>5 DEF BenchmarkFits
<1>15. BenchmarkFits(report.index, \E i \in DOMAIN results : results[i].index = <<>>, l, request.capital)
  <2>1. PICK each : each = [i \in DOMAIN results |-> results[i].index]
    OBVIOUS
  <2>2. \A i \in 1 .. m : IsBenchmark(each[i], Len(insts[i].candles), cut[i])
    BY <1>10, <1>13, <2>1
  <2>3. BenchmarkFits(SumBenchmark(results, each, stamps), \E i \in DOMAIN results : each[i] = <<>>,
                      l, request.capital)
    BY <1>12, <2>2
  <2>4. (\E i \in DOMAIN results : each[i] = <<>>) <=> \E i \in DOMAIN results : results[i].index = <<>>
    BY <2>1
  <2>5. report.index = SumBenchmark(results, each, stamps)
    BY <1>6, <2>1
  <2>6. QED
    BY <2>3, <2>4, <2>5 DEF BenchmarkFits
<1>16. ReportAddsUp(report, results, cut, request.capital)
  BY <1>6, <1>7, <1>8, <1>9, <1>11, <1>14, <1>15 DEF ReportAddsUp
<1>17. QED
  BY <1>1, <1>16

LEMMA AloneAddsUp ==
  ASSUME NEW results, NEW insts, NEW cut, AreParts(results, insts, cut), HaveLogs(results, insts, cut),
         Len(results) = 1, cut[1] = request.capital
  PROVE  ReportAddsUp(RunAlone(results[1]), results, cut, request.capital)
<1>1. PICK only : only = results[1]
  OBVIOUS
<1>2. PICK report : report = RunAlone(only)
  OBVIOUS
<1>3. DOMAIN results = 1 .. 1 /\ 1 \in 1 .. Len(results)
  BY DEF AreParts
<1>4. PICK n, own, values :
        /\ IsCurve(n, own, values) /\ n = Len(results[1].equity)
        /\ StampsOf(results[1].equity) = own /\ CentsOf(results[1].equity) = values
        /\ \A j \in 1 .. n : own[j] = results[1].equity[j].ts
        /\ values[1] = cut[1] /\ cut[1] \in Int
  BY <1>3, PartIs
<1>5. n \in Nat \ {0} /\ own \in [1 .. n -> Int] /\ values \in [1 .. n -> Int] /\ Increasing(own, n)
  BY <1>4 DEF IsCurve
<1>6. Len(values) = n
  BY <1>5, IsSequence
<1>7. /\ report.stamps = own /\ report.equity = values /\ report.trades = only.trades
      /\ report.metrics.pnl = Last(values) - request.capital
      /\ report.hold = only.hold /\ report.index = only.index
  BY <1>1, <1>2, <1>4 DEF RunAlone, Metrics, CentsOf
<1>8. PICK points : points = only.equity
  OBVIOUS
<1>9. DOMAIN points = 1 .. n /\ \A k \in 1 .. n : values[k] = points[k].cents
  <2>1. points \in Seq(Point)
    BY <1>1, <1>3, <1>8 DEF AreParts, IsSleeve
  <2>2. DOMAIN points = 1 .. n
    BY <1>1, <1>4, <1>8, <2>1
  <2>3. QED
    BY <1>1, <1>4, <1>8, <2>2 DEF CentsOf
<1>10. ASSUME NEW k \in 1 .. n PROVE values[k] = Total(WorthsOn(results, own[k], cut))
  <2>1. PICK start : start = cut[1]
    OBVIOUS
  <2>2. WorthOn(points, own[k], start) = points[k].cents
    <3>1. StampedBy(points, n, own)
      BY <1>1, <1>4, <1>5, <1>8, <1>9 DEF StampedBy
    <3>2. QED
      BY <3>1, WorthOnItsOwn
  <2>3. PICK x \in Int : x = values[k]
    BY <1>5
  <2>4. PICK w : w = WorthsOn(results, own[k], cut)
    OBVIOUS
  <2>5. w = [i \in 1 .. 1 |-> x]
    <3>1. \A i \in 1 .. 1 : WorthOn(results[i].equity, own[k], cut[i]) = x
      <4> TAKE i \in 1 .. 1
      <4>1. i = 1
        OBVIOUS
      <4>2. QED
        BY <1>1, <1>8, <1>9, <2>1, <2>2, <2>3, <4>1
    <3>2. QED
      BY <1>3, <2>4, <3>1 DEF WorthsOn
  <2>6. Total(w) = x
    BY <2>5, TotalOfOne
  <2>7. QED
    BY <2>3, <2>4, <2>6
<1>11. HasLog(only, insts[1], cut[1]) /\ Len(insts[1].candles) = n
  <2>1. HasLog(only, insts[1], cut[1])
    BY <1>1, <1>3 DEF HaveLogs
  <2>2. QED
    BY <1>3, <1>4, <2>1 DEF AreParts, IsSleeve
<1>12. Last(values) - request.capital = Total(PnlOf(only.trades))
  <2>1. Last(values) = values[n]
    BY <1>6 DEF Last
  <2>2. values[n] = points[n].cents
    BY <1>5, <1>9
  <2>3. points[n].cents = cut[1] + Total(PnlOf(only.trades)) /\ Total(PnlOf(only.trades)) \in Int
    BY <1>8, <1>11 DEF HasLog
  <2>4. PICK x \in Int : x = Total(PnlOf(only.trades))
    BY <2>3
  <2>5. QED
    BY <1>4, <2>1, <2>2, <2>3, <2>4
<1>13. ASSUME NEW b, IsBenchmark(b, n, request.capital), NEW some \in BOOLEAN, some <=> b = <<>>
       PROVE  BenchmarkFits(b, some, n, request.capital)
  <2>1. CASE b = <<>>
    BY <1>13, <2>1 DEF BenchmarkFits
  <2>2. CASE b # <<>>
    <3>1. b = [j \in 1 .. n |-> b[j]] /\ b[1] = request.capital
      BY <1>13, <2>2 DEF IsBenchmark
    <3>2. PICK T : T = {b[j] : j \in 1 .. n}
      OBVIOUS
    <3>3. b \in [1 .. n -> T]
      BY <3>1, <3>2
    <3>4. Len(b) = n
      BY <1>5, <3>3, IsSequence
    <3>5. QED
      BY <1>13, <2>2, <3>1, <3>4 DEF BenchmarkFits
  <2>3. QED
    BY <2>1, <2>2
<1>14. BenchmarkFits(report.hold, \E i \in DOMAIN results : results[i].hold = <<>>, n, request.capital)
  <2>1. IsBenchmark(only.hold, n, request.capital)
    BY <1>11 DEF HasLog
  <2>2. (\E i \in DOMAIN results : results[i].hold = <<>>) <=> only.hold = <<>>
    BY <1>1, <1>3
  <2>3. QED
    BY <1>7, <1>13, <2>1, <2>2
<1>15. BenchmarkFits(report.index, \E i \in DOMAIN results : results[i].index = <<>>, n, request.capital)
  <2>1. IsBenchmark(only.index, n, request.capital)
    BY <1>11 DEF HasLog
  <2>2. (\E i \in DOMAIN results : results[i].index = <<>>) <=> only.index = <<>>
    BY <1>1, <1>3
  <2>3. QED
    BY <1>7, <1>13, <2>1, <2>2
<1>16. ReportAddsUp(report, results, cut, request.capital)
  BY <1>4, <1>6, <1>7, <1>10, <1>12, <1>14, <1>15 DEF ReportAddsUp
<1>17. QED
  BY <1>1, <1>2, <1>16

LEMMA CurvesFollow == SleevesInv => CurvesAddUp
<1> SUFFICES ASSUME SleevesInv, Done PROVE CurvesAddUp
  BY DEF CurvesAddUp
<1>1. /\ AreParts(sleeves, request.instruments, shares)
      /\ Total(shares) = request.capital /\ request.capital \in Nat \ {0}
      /\ Len(sleeves) = 1 => shares[1] = request.capital
  BY PartsAre
<1>2. /\ HaveLogs(sleeves, request.instruments, shares)
      /\ AreTrades(LogsOf(sleeves), SymbolsOf(request.instruments))
  BY PartsHave
<1>3. PICK results, insts, cut : results = sleeves /\ insts = request.instruments /\ cut = shares
  OBVIOUS
<1>4. result = IF Len(sleeves) = 1 THEN RunAlone(sleeves[1]) ELSE RunBasket(sleeves)
  BY DEF SleevesInv
<1>5. /\ AreParts(results, insts, cut) /\ HaveLogs(results, insts, cut)
      /\ request.capital \in Int
  BY <1>1, <1>2, <1>3
<1>6. ReportAddsUp(result, sleeves, shares, request.capital)
  <2>1. CASE Len(sleeves) = 1
    <3>1. Len(results) = 1 /\ cut[1] = request.capital
      BY <1>1, <1>3, <2>1
    <3>2. ReportAddsUp(RunAlone(results[1]), results, cut, request.capital)
      BY <1>5, <3>1, AloneAddsUp
    <3>3. QED
      BY <1>3, <1>4, <2>1, <3>2
  <2>2. CASE Len(sleeves) # 1
    <3>1. PICK symbols : AreTrades(LogsOf(results), symbols)
      BY <1>2, <1>3
    <3>2. shares = cut /\ Total(cut) = request.capital
      BY <1>1, <1>3
    <3>3. ReportAddsUp(RunBasket(results), results, cut, request.capital)
      BY <1>5, <3>1, <3>2, BasketAddsUp
    <3>4. QED
      BY <1>3, <1>4, <2>2, <3>3
  <2>3. QED
    BY <2>1, <2>2
<1>7. QED
  BY <1>6 DEF CurvesAddUp, WorthAt, ReportAddsUp, BenchmarkFits, WorthsOn, WorthOn, PnlOf

-----------------------------------------------------------------------------
(* A report's log is whole, and so is what is counted over it.              *)

LogIsWhole(t, logs, symbols) ==
  /\ Len(t) \in Nat /\ t \in [1 .. Len(t) -> Trade] /\ \A k \in 1 .. Len(t) : t[k].seq = k
  /\ Len(t) = Total([i \in DOMAIN logs |-> Len(logs[i])])
  /\ \A i \in DOMAIN logs :
       /\ Cardinality(MineIn(t, symbols[i])) = Len(logs[i])
       /\ \A k \in MineIn(t, symbols[i]) :
            WithoutSeq(t[k]) = WithoutSeq(logs[i][Rank(k, MineIn(t, symbols[i]))])

LEMMA MergedIsWhole ==
  ASSUME NEW results, NEW logs, logs = LogsOf(results), NEW symbols, AreTrades(logs, symbols),
         NEW t, t = MergeTrades(results)
  PROVE  LogIsWhole(t, logs, symbols)
<1>1. Len(t) \in Nat /\ t \in [1 .. Len(t) -> Trade] /\ \A k \in 1 .. Len(t) : t[k].seq = k
  BY MergedAre
<1>2. Len(t) = Total([i \in DOMAIN logs |-> Len(logs[i])])
  BY MergedTotals
<1>3. DOMAIN logs = 1 .. Len(logs)
  <2>1. logs = [i \in 1 .. Len(logs) |-> logs[i]]
    BY DEF AreTrades
  <2>2. QED
    BY <2>1
<1>4. ASSUME NEW i \in 1 .. Len(logs)
      PROVE  /\ Cardinality(MineIn(t, symbols[i])) = Len(logs[i])
             /\ \A k \in MineIn(t, symbols[i]) :
                  WithoutSeq(t[k]) = WithoutSeq(logs[i][Rank(k, MineIn(t, symbols[i]))])
  <2>1. PICK mine : mine = MineIn(t, symbols[i])
    OBVIOUS
  <2>2. /\ Cardinality(mine) = Len(logs[i])
        /\ \A k \in mine : WithoutSeq(t[k]) = WithoutSeq(logs[i][Rank(k, mine)])
    BY <2>1, MineIs
  <2>3. QED
    BY <2>1, <2>2
<1>5. QED
  BY <1>1, <1>2, <1>3, <1>4 DEF LogIsWhole

LEMMA OnlyIsWhole ==
  ASSUME NEW logs, NEW symbols, AreTrades(logs, symbols), Len(logs) = 1, NEW t, t = logs[1]
  PROVE  LogIsWhole(t, logs, symbols)
<1>1. DOMAIN logs = 1 .. 1
  BY DEF AreTrades
<1>2. IsTradeLog(t, symbols[1])
  BY DEF AreTrades
<1>3. PICK n \in Nat : n = Len(t) /\ t \in [1 .. n -> Trade]
  BY <1>2 DEF IsTradeLog
<1>4. \A k \in 1 .. n : t[k].seq = k /\ t[k].symbol = symbols[1]
  BY <1>2, <1>3 DEF IsTradeLog
<1>5. n = Total([i \in DOMAIN logs |-> Len(logs[i])])
  <2>1. PICK s : s = [i \in DOMAIN logs |-> Len(logs[i])]
    OBVIOUS
  <2>2. s = [i \in 1 .. 1 |-> n]
    <3>1. \A i \in 1 .. 1 : Len(logs[i]) = n
      <4> TAKE i \in 1 .. 1
      <4>1. i = 1
        OBVIOUS
      <4>2. QED
        BY <1>3, <4>1
    <3>2. QED
      BY <1>1, <2>1, <3>1
  <2>3. n \in Int
    OBVIOUS
  <2>4. Total(s) = n
    BY <2>2, <2>3, TotalOfOne
  <2>5. QED
    BY <2>1, <2>4
<1>6. PICK mine : mine = MineIn(t, symbols[1])
  OBVIOUS
<1>7. mine = 1 .. n
  BY <1>3, <1>4, <1>6 DEF MineIn
<1>8. Cardinality(mine) = n
  BY <1>7, FS_Interval
<1>9. ASSUME NEW k \in 1 .. n PROVE Rank(k, mine) = k
  <2>1. {j \in mine : j <= k} = 1 .. k
    BY <1>7
  <2>2. Cardinality(1 .. k) = k
    BY FS_Interval
  <2>3. QED
    BY <2>1, <2>2 DEF Rank
<1>10. \A i \in DOMAIN logs : i = 1
  BY <1>1
<1>11. \A k \in mine : WithoutSeq(t[k]) = WithoutSeq(logs[1][Rank(k, mine)])
  <2> TAKE k \in mine
  <2>1. Rank(k, mine) = k
    BY <1>7, <1>9
  <2>2. QED
    BY <2>1
<1>12. QED
  BY <1>3, <1>4, <1>5, <1>6, <1>8, <1>10, <1>11 DEF LogIsWhole

LEMMA FewMoments ==
  ASSUME NEW n \in Nat, NEW stamps, Distinct(stamps, n), NEW moments, moments \subseteq FirstOf(stamps, n)
  PROVE  Cardinality(moments) <= n
<1>1. PICK S : S = FirstOf(stamps, n)
  OBVIOUS
<1>2. Cardinality(S) = n
  BY <1>1, ImageSize
<1>3. IsFiniteSet(S)
  <2>1. S = {stamps[j] : j \in 1 .. n}
    BY <1>1 DEF FirstOf
  <2>2. QED
    BY <2>1, ImageIsFinite
<1>4. moments \subseteq S
  BY <1>1
<1>5. Cardinality(moments) <= Cardinality(S)
  BY <1>3, <1>4, FS_Subset
<1>6. QED
  BY <1>2, <1>5

(* No more bars are spent in the market than there are.                     *)
LEMMA BasketMoments ==
  ASSUME NEW results, NEW insts, NEW cut, AreParts(results, insts, cut), HaveLogs(results, insts, cut),
         NEW stamps, stamps = UnionStamps(results)
  PROVE  Cardinality(UNION {results[i].held : i \in DOMAIN results}) <= Len(stamps)
<1>1. /\ stamps \in Seq(Int)
      /\ \A i, j \in 1 .. Len(stamps) : i < j => stamps[i] < stamps[j]
      /\ \A i \in 1 .. Len(results) : \A j \in 1 .. Len(results[i].equity) :
           \E k \in 1 .. Len(stamps) : stamps[k] = results[i].equity[j].ts
  BY StampsAre
<1>2. PICK l \in Nat : l = Len(stamps)
  BY <1>1
<1>3. Distinct(stamps, l)
  <2> SUFFICES ASSUME NEW a \in 1 .. l, NEW b \in 1 .. l, stamps[a] = stamps[b] PROVE a = b
    BY DEF Distinct
  <2>1. stamps[a] \in Int /\ stamps[b] \in Int
    BY <1>1, <1>2
  <2>2. ~ (a < b) /\ ~ (b < a)
    BY <1>1, <1>2, <2>1
  <2>3. QED
    BY <2>2
<1>4. DOMAIN results = 1 .. Len(results)
  <2>1. results = [i \in 1 .. Len(results) |-> results[i]]
    BY DEF AreParts
  <2>2. QED
    BY <2>1
<1>5. ASSUME NEW i \in 1 .. Len(results) PROVE results[i].held \subseteq FirstOf(stamps, l)
  <2>1. HasLog(results[i], insts[i], cut[i])
    BY DEF HaveLogs
  <2>2. Len(results[i].equity) = Len(insts[i].candles)
    BY DEF AreParts, IsSleeve
  <2>3. results[i].held \subseteq {results[i].equity[j].ts : j \in 1 .. Len(results[i].equity)}
    BY <2>1, <2>2 DEF HasLog
  <2>4. \A j \in 1 .. Len(results[i].equity) : results[i].equity[j].ts \in FirstOf(stamps, l)
    BY <1>1, <1>2 DEF FirstOf
  <2>5. QED
    BY <2>3, <2>4
<1>6. PICK moments : moments = UNION {results[i].held : i \in DOMAIN results}
  OBVIOUS
<1>7. moments \subseteq FirstOf(stamps, l)
  BY <1>4, <1>5, <1>6
<1>8. Cardinality(moments) <= l
  BY <1>3, <1>7, FewMoments
<1>9. QED
  BY <1>2, <1>6, <1>8

LEMMA AloneMoments ==
  ASSUME NEW results, NEW insts, NEW cut, AreParts(results, insts, cut), HaveLogs(results, insts, cut),
         1 \in 1 .. Len(results)
  PROVE  Cardinality(UNION {<<results[1]>>[i].held : i \in DOMAIN <<results[1]>>})
           <= Len(CentsOf(results[1].equity))
<1>1. PICK n, own, values :
        /\ IsCurve(n, own, values) /\ n = Len(results[1].equity)
        /\ StampsOf(results[1].equity) = own /\ CentsOf(results[1].equity) = values
        /\ \A j \in 1 .. n : own[j] = results[1].equity[j].ts
        /\ values[1] = cut[1] /\ cut[1] \in Int
  BY PartIs
<1>2. n \in Nat /\ own \in [1 .. n -> Int] /\ values \in [1 .. n -> Int] /\ Increasing(own, n)
  BY <1>1 DEF IsCurve
<1>3. Distinct(own, n)
  <2> SUFFICES ASSUME NEW a \in 1 .. n, NEW b \in 1 .. n, own[a] = own[b] PROVE a = b
    BY DEF Distinct
  <2>1. own[a] \in Int /\ own[b] \in Int
    BY <1>2
  <2>2. ~ (a < b) /\ ~ (b < a)
    BY <1>2, <2>1 DEF Increasing
  <2>3. QED
    BY <1>2, <2>2
<1>4. results[1].held \subseteq FirstOf(own, n)
  <2>1. HasLog(results[1], insts[1], cut[1])
    BY DEF HaveLogs
  <2>2. Len(results[1].equity) = Len(insts[1].candles)
    BY DEF AreParts, IsSleeve
  <2>3. results[1].held \subseteq {results[1].equity[j].ts : j \in 1 .. n}
    BY <1>1, <2>1, <2>2 DEF HasLog
  <2>4. \A j \in 1 .. n : results[1].equity[j].ts \in FirstOf(own, n)
    BY <1>1 DEF FirstOf
  <2>5. QED
    BY <2>3, <2>4
<1>5. UNION {<<results[1]>>[i].held : i \in DOMAIN <<results[1]>>} = results[1].held
  <2>1. PICK one : one = <<results[1]>>
    OBVIOUS
  <2>2. DOMAIN one = {1} /\ one[1] = results[1]
    BY <2>1
  <2>3. {one[i].held : i \in DOMAIN one} = {results[1].held}
    BY <2>2
  <2>4. QED
    BY <2>1, <2>3
<1>6. Cardinality(results[1].held) <= n
  BY <1>2, <1>3, <1>4, FewMoments
<1>7. Len(values) = n
  BY <1>2, IsSequence
<1>8. QED
  BY <1>1, <1>5, <1>6, <1>7

LEMMA LogFollows == SleevesInv => MergedLogIsTheSleevesLogs
<1> SUFFICES ASSUME SleevesInv, Done PROVE MergedLogIsTheSleevesLogs
  BY DEF MergedLogIsTheSleevesLogs
<1>1. AreParts(sleeves, request.instruments, shares)
  BY PartsAre
<1>2. /\ HaveLogs(sleeves, request.instruments, shares)
      /\ AreTrades(LogsOf(sleeves), SymbolsOf(request.instruments))
      /\ Len(sleeves) = Len(request.instruments)
  BY PartsHave
<1>3. PICK results, insts, cut : results = sleeves /\ insts = request.instruments /\ cut = shares
                                 /\ AreParts(results, insts, cut) /\ HaveLogs(results, insts, cut)
  BY <1>1, <1>2
<1>4. PICK logs : logs = LogsOf(results)
  OBVIOUS
<1>5. PICK symbols : symbols = SymbolsOf(insts) /\ AreTrades(logs, symbols)
  BY <1>2, <1>3, <1>4
<1>6. PICK m \in Nat : m = Len(results) /\ DOMAIN results = 1 .. m
  BY <1>3 DEF AreParts
<1>7. DOMAIN logs = 1 .. m /\ Len(logs) = m /\ \A i \in 1 .. m : logs[i] = results[i].trades
  <2>1. DOMAIN logs = 1 .. m /\ \A i \in 1 .. m : logs[i] = results[i].trades
    BY <1>4, <1>6 DEF LogsOf
  <2>2. PICK q \in Nat : q = Len(logs) /\ DOMAIN logs = 1 .. q
    BY <1>5 DEF AreTrades
  <2>3. q = m
    BY <2>1, <2>2
  <2>4. QED
    BY <2>1, <2>2, <2>3
<1>8. result = IF Len(sleeves) = 1 THEN RunAlone(sleeves[1]) ELSE RunBasket(sleeves)
  BY DEF SleevesInv
<1>9. PICK t : t = result.trades
  OBVIOUS
<1>10. /\ LogIsWhole(t, logs, symbols) /\ result.metrics.tally = TallyTrades(t)
       /\ result.metrics.inMarket <= result.metrics.bars
  <2>1. CASE Len(sleeves) = 1
    <3>1. result = RunAlone(results[1]) /\ 1 \in 1 .. Len(results)
      BY <1>3, <1>8, <2>1
    <3>2. PICK only : only = results[1]
      OBVIOUS
    <3>3. /\ result.trades = only.trades /\ result.metrics.tally = TallyTrades(only.trades)
          /\ result.metrics.bars = Len(CentsOf(only.equity))
          /\ result.metrics.inMarket = Cardinality(UNION {<<only>>[i].held : i \in DOMAIN <<only>>})
      BY <3>1, <3>2 DEF RunAlone, Metrics, CentsOf
    <3>4. Len(logs) = 1 /\ t = logs[1]
      BY <1>3, <1>6, <1>7, <1>9, <2>1, <3>2, <3>3
    <3>5. LogIsWhole(t, logs, symbols)
      BY <1>5, <3>4, OnlyIsWhole
    <3>6. result.metrics.inMarket <= result.metrics.bars
      BY <1>3, <3>1, <3>2, <3>3, AloneMoments
    <3>7. QED
      BY <1>9, <3>3, <3>5, <3>6
  <2>2. CASE Len(sleeves) # 1
    <3>1. result = RunBasket(results)
      BY <1>3, <1>8, <2>2
    <3>2. PICK stamps : stamps = UnionStamps(results)
      OBVIOUS
    <3>3. PICK curve : curve = SumAligned(AlignedTo(results, stamps, cut), stamps)
      OBVIOUS
    <3>4. Aligned(results, stamps) = AlignedTo(results, stamps, cut)
      BY <1>3 DEF Aligned, AlignedTo, CentsOf
    <3>5. /\ t = MergeTrades(results) /\ result.metrics.tally = TallyTrades(t)
          /\ result.metrics.bars = Len(curve)
          /\ result.metrics.inMarket = Cardinality(UNION {results[i].held : i \in DOMAIN results})
      BY <1>9, <3>1, <3>2, <3>3, <3>4 DEF RunBasket, Metrics
    <3>6. LogIsWhole(t, logs, symbols)
      BY <1>4, <1>5, <3>5, MergedIsWhole
    <3>7. PICK l \in Nat : l = Len(stamps) /\ curve \in [1 .. l -> Int]
      BY <1>3, <3>2, <3>3, BasketCurveIs
    <3>8. Len(curve) = l
      BY <3>7, IsSequence
    <3>9. Cardinality(UNION {results[i].held : i \in DOMAIN results}) <= Len(stamps)
      BY <1>3, <3>2, BasketMoments
    <3>10. QED
      BY <3>5, <3>6, <3>7, <3>8, <3>9
  <2>3. QED
    BY <2>1, <2>2
<1>11. PICK n \in Nat : n = Len(t) /\ t \in [1 .. n -> Trade] /\ \A k \in 1 .. n : t[k].seq = k
  BY <1>10 DEF LogIsWhole
<1>12. TallyAgrees(t, TallyTrades(t))
  BY <1>11, TallyIsTold
<1>13. result.metrics.pnl = Total(PnlOf(t))
  BY <1>9, CurvesFollow DEF CurvesAddUp, PnlOf
<1>14. Len(result.trades) = Total([i \in DOMAIN sleeves |-> Len(sleeves[i].trades)])
  <2>1. [i \in DOMAIN logs |-> Len(logs[i])] = [i \in DOMAIN sleeves |-> Len(sleeves[i].trades)]
    BY <1>3, <1>6, <1>7
  <2>2. QED
    BY <1>9, <1>10, <2>1 DEF LogIsWhole
<1>15. ASSUME NEW i \in DOMAIN sleeves
       PROVE  /\ Cardinality(MineIn(result.trades, request.instruments[i].symbol)) = Len(sleeves[i].trades)
              /\ \A k \in MineIn(result.trades, request.instruments[i].symbol) :
                   WithoutSeq(result.trades[k])
                     = WithoutSeq(sleeves[i].trades[Rank(k, MineIn(result.trades, request.instruments[i].symbol))])
  <2>1. i \in 1 .. m /\ logs[i] = sleeves[i].trades
    BY <1>3, <1>6, <1>7
  <2>2. symbols[i] = request.instruments[i].symbol
    <3>1. i \in DOMAIN request.instruments
      <4>1. request \in Requests
        BY DEF SleevesInv
      <4>2. request.instruments \in Seq([symbol : Nat, candles : Seq(Listing)])
        BY <4>1, SleevesAssumption DEF IsRequest
      <4>3. DOMAIN request.instruments = 1 .. m
        BY <1>2, <1>3, <1>6, <4>2
      <4>4. QED
        BY <2>1, <4>3
    <3>2. QED
      BY <1>3, <1>5, <3>1 DEF SymbolsOf
  <2>3. PICK mine : mine = MineIn(t, symbols[i])
    OBVIOUS
  <2>4. mine = MineIn(result.trades, request.instruments[i].symbol)
    BY <1>9, <2>2, <2>3
  <2>5. /\ Cardinality(mine) = Len(logs[i])
        /\ \A k \in mine : WithoutSeq(t[k]) = WithoutSeq(logs[i][Rank(k, mine)])
    BY <1>7, <1>10, <2>1, <2>3 DEF LogIsWhole
  <2>6. QED
    BY <1>9, <2>1, <2>4, <2>5
<1>16. /\ \A k \in 1 .. Len(result.trades) : result.trades[k].seq = k
       /\ result.metrics.inMarket <= result.metrics.bars
  BY <1>9, <1>10 DEF LogIsWhole
<1>17. TallyAgrees(result.trades, result.metrics.tally)
  BY <1>9, <1>10, <1>12
<1>18. QED
  BY <1>9, <1>13, <1>14, <1>15, <1>16, <1>17
  DEF MergedLogIsTheSleevesLogs, TallyAgrees, StreaksOf, LosingRun, MineIn, Rank

-----------------------------------------------------------------------------
(* The curve a basket reports (basket.go, alignSleeve and sumAligned) is at *)
(* every stamp the sum of what its sleeves are worth, from the capital of   *)
(* the run to that plus everything the merged log made; and a benchmark is  *)
(* left out exactly when a sleeve has none, and else starts from the same   *)
(* capital and is as long.                                                  *)
THEOREM CurvesAlwaysAddUp == SleevesSpec => []CurvesAddUp
<1>1. QED
  BY SleevesInvariant, CurvesFollow, PTL

(* The merged log (basket.go, mergeTrades) has every sleeve's trades once,  *)
(* in their order and under numbers of its own, for any number of sleeves;  *)
(* and wins, losses, gross amounts, the worst losing streak and the time in *)
(* the market (stats.go) are those of the log.                              *)
THEOREM MergedLogIsWhole == SleevesSpec => []MergedLogIsTheSleevesLogs
<1>1. QED
  BY SleevesInvariant, LogFollows, PTL

=============================================================================
