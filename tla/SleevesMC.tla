------------------------------ MODULE SleevesMC ------------------------------
(***************************************************************************)
(* Two symbols on a calendar of four bars: listed all along, late, with a  *)
(* day missing, delisted early, too short to run.                          *)
(***************************************************************************)
EXTENDS Sleeves

Bar(ts, open, close) ==
  [ts |-> ts, open |-> open, close |-> close, dividend |-> 0, split |-> [num |-> 1, den |-> 1]]

Paying(b)      == [b EXCEPT !.dividend = 1]
Split(b, n, d) == [b EXCEPT !.split = [num |-> n, den |-> d]]

Throughout == <<Bar(1, 4, 4), Bar(2, 4, 5), Paying(Bar(3, 5, 3)), Bar(4, 3, 6)>>
Halted     == <<Bar(1, 4, 4), Bar(2, 4, 5), Bar(4, 5, 3)>>
Late       == <<Bar(3, 9, 9), Bar(4, 9, 11)>>
Delisted   == <<Bar(1, 6, 6), Bar(2, 7, 6), Split(Bar(3, 15, 14), 1, 2)>>
TooShort   == <<Bar(4, 6, 6)>>

Index == [t \in {1, 2, 4} |-> 2 + t]
NoIndex == [t \in {} |-> 0]

Of(symbol, candles) == [symbol |-> symbol, candles |-> candles]

AnyRequest ==
  [capital : {1, 31}, index : {Index, NoIndex},
   instruments : {<<>>, <<Of(1, Throughout)>>, <<Of(2, Delisted), Of(1, Halted)>>,
                  <<Of(1, Throughout), Of(2, Delisted)>>, <<Of(3, Late), Of(2, Delisted), Of(1, Halted)>>,
                  <<Of(1, Late), Of(2, Delisted)>>, <<Of(2, Late), Of(1, Throughout)>>,
                  <<Of(1, Throughout), Of(2, TooShort)>>}]

AnyOutcome == {[pnl |-> -6, drift |-> 3], [pnl |-> 0, drift |-> -40], [pnl |-> 40, drift |-> -5]}
=============================================================================
