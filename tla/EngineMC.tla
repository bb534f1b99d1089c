------------------------------ MODULE EngineMC ------------------------------
(***************************************************************************)
(* Small markets for Engine.                                               *)
(***************************************************************************)
EXTENDS Engine

Bar(o, h, l, c) ==
  [open |-> o, high |-> h, low |-> l, close |-> c,
   dividend |-> 0, split |-> NoSplit, lendable |-> TRUE]

(* A quiet bar, one that gaps up, one that gaps down and one that reaches   *)
(* everything.                                                              *)
Quiet == Bar(100, 110, 90, 100)
Wild  == Bar(100, 160, 60, 110)
Up    == Bar(150, 160, 140, 150)
Down  == Bar(60, 80, 50, 70)

Paying(b, cents) == [b EXCEPT !.dividend = cents]
Recalled(b)      == [b EXCEPT !.lendable = FALSE]
Split(b, n, d)   == [b EXCEPT !.split = [num |-> n, den |-> d]]

Market == {Recalled(Quiet), Wild, Up, Paying(Down, 30),
           Split(Bar(50, 60, 40, 50), 2, 1), Split(Bar(300, 310, 290, 300), 1, 3)}

NoBracket == [kind |-> "none", value |-> 0]
Pct(n)    == [kind |-> "pct", value |-> n]
Atr(n)    == [kind |-> "atr", value |-> n]

AnyStop   == {NoBracket, Atr(33)}
AnyTarget == {NoBracket, Pct(20)}

By(type, n) == [type |-> type, value |-> n]
AnySizing == {By("fixed_qty", 2), By("pct_equity", 100), By("fixed_cash", 900), By("risk_pct", 10)}
=============================================================================
