----------------------------- MODULE StrategyMC ------------------------------
(***************************************************************************)
(* Drafts for the language: graphs of inputs under one rule, rules over one*)
(* graph, and exits with their brackets.                                   *)
(***************************************************************************)
EXTENDS SweepPlan

Raw(indicator, period, source, output) ==
  [indicator |-> indicator, period |-> period, source |-> source, output |-> output]
Operand(name, line, back) == [name |-> name, line |-> line, value |-> 0, back |-> back]
Value(v) == [name |-> None, line |-> None, value |-> v, back |-> 0]
Node(key, of) == [key |-> key, of |-> of]
Pct(v) == [type |-> "pct", value |-> v, period |-> None, mult |-> None]
Atr(n) == [type |-> "atr", value |-> None, period |-> n, mult |-> 2]

Draft(inputs, rules, entry, exit, sizing) ==
  [version |-> None, inputs |-> inputs, rules |-> rules, entry |-> entry, exit |-> exit,
   sizing |-> [type |-> sizing, value |-> 10],
   costs |-> [brokerage |-> None, fee |-> None, slippage |-> 0]]

Sides(long, short) == [long |-> long, short |-> short]

-----------------------------------------------------------------------------
(* Graphs of three inputs: shared units, chains against the alphabet, loops.*)
Firsts  == {Raw("sma", 2, s, None) : s \in {"close", "b", "c"}} \cup {Raw("sma", 0, None, None)}
Seconds == {Raw("bbands", None, s, "upper") : s \in {None, "a", "b"}} \cup {Raw("atr", 2, "close", None)}
Thirds  == {Raw("sma", 2, s, None) : s \in {"a", "b", "open"}} \cup {Raw("atr", 2, None, None)}

GraphRules == <<Node("crosses_above", <<Operand("a", None, 0), Operand("c", None, 0)>>),
                Node("gt", <<Operand("b", "middle", 1), Operand("b", None, 1)>>),
                Node("any", <<1, 2>>)>>
GraphDrafts ==
  {Draft([a |-> a, b |-> b, c |-> c], GraphRules, Sides(3, 0), Absent, "fixed_qty") :
     a \in Firsts, b \in Seconds, c \in Thirds}

-----------------------------------------------------------------------------
(* Rules over one graph.                                                    *)
Pair == [a |-> Raw("sma", 1, "open", None), b |-> Raw("bbands", 2, "a", "middle")]

Comparisons ==
  {Node("gt", <<Operand("close", None, 0), Operand("a", None, 2)>>),
   Node("lte", <<Operand("volume", None, 0), Value(9)>>),
   Node("between", <<Operand("b", "upper", 0), Value(2), Value(6)>>),
   Node("between", <<Operand("b", "upper", 0), Value(6), Value(2)>>),
   Node("crosses_below", <<Operand("close", None, 1), Operand("a", "sma", 0)>>),
   Node("rising", <<Operand("close", None, 0), Value(2)>>),
   Node("falling", <<Operand("b", None, 0)>>),
   Node("rising", <<Operand("a", None, 0), Operand("close", None, 0)>>),
   Node("eq", <<Operand("c", None, 0), Value(1)>>)}
Second == Node("gt", <<Operand("b", "upper", 0), Value(6)>>)

Combinations == {<<Node("not", <<1>>)>>, <<Node("all", <<1, 2>>)>>, <<Node("any", <<1, 2>>), Node("not", <<3>>)>>}

RuleDrafts ==
  {Draft(Pair, <<leaf, Second>> \o tree, Sides(Len(tree) + 2, IF tree[1].key = "all" THEN 1 ELSE 0), Absent, "pct_equity") :
     leaf \in Comparisons, tree \in Combinations}

-----------------------------------------------------------------------------
(* Exits: brackets at the top, under an any, under two, where they may not  *)
(* stand, twice, for one leg or for both.                                   *)
Solo == [a |-> Raw("sma", 1, None, None)]
ExitTrees ==
  LET base  == <<Node("gt", <<Operand("a", None, 0), Value(4)>>), Node("falling", <<Operand("close", None, 0)>>)>>
      stop  == Node("stop_loss", Atr(2))
      target == Node("take_profit", Pct(5))
  IN  {base \o t : t \in {<<stop>>,
                          <<stop, target, Node("any", <<3, 4>>)>>,
                          <<stop, target, Node("any", <<4, 2>>), Node("any", <<3, 5>>)>>,
                          <<stop, Node("any", <<3, 2>>), Node("all", <<4, 2>>)>>,
                          <<stop, stop, Node("any", <<3, 4>>)>>,
                          <<stop, Node("any", <<3>>), Node("any", <<2, 4>>)>>,
                          <<Node("stop_loss", Pct(0)), Node("any", <<2, 3>>)>>,
                          <<Node("not", <<2>>)>>}}

ExitDrafts ==
  {Draft(Solo, rules, entry, exit, sizing) :
     rules \in ExitTrees, entry \in {Sides(1, 0), Sides(1, 1)},
     exit \in {Sides(k, s) : k \in {3, 5}, s \in {0, 2}} \cup {Sides(6, 0), Sides(5, 5)},
     sizing \in {"risk_pct", "fixed_cash"}}

MCDrafts ==
  GraphDrafts \cup RuleDrafts
  \cup {d \in ExitDrafts : {d.exit.long, d.exit.short} \ {0} \subseteq DOMAIN d.rules}
MCNames == <<"a", "b", "c">>

-----------------------------------------------------------------------------
(* Sweeps of whatever was saved: one or two axes, over the range or in folds*)
Stepped(path, from, to, step) == [path |-> path, from |-> from, to |-> to, step |-> step, values |-> <<>>]
Chosen(path, values) == [path |-> path, from |-> None, to |-> None, step |-> None, values |-> values]

Period == <<"inputs", "a", "params", "period">>
Axes ==
  {<<Stepped(Period, 10, 30, 10)>>,
   <<Stepped(Period, 20, 40, 10)>>,
   <<Stepped(<<"sizing", "value">>, 100, 120, 7), Stepped(Period, 10, 29, 10)>>,
   <<Chosen(<<"costs", "fee">>, <<70, 0, 2>>), Chosen(<<"sizing", "value">>, <<100, 90>>), Chosen(Period, <<20>>)>>,
   <<Chosen(<<"sizing", "value">>, <<100>>), Chosen(<<"sizing", "value">>, <<90>>)>>,
   <<Chosen(<<"entry", "long">>, <<10>>)>>, <<Stepped(Period, 30, 10, 10)>>}

MCRequests ==
  {[kind |-> kind, axes |-> axes, tickers |-> tickers, capital |-> 0,
    first |-> 1, last |-> last, lost |-> lost, in |-> in, out |-> 2] :
     kind \in {None, "walk_forward"}, axes \in Axes, tickers \in {<<"x">>, <<"y", "x", "y">>},
     last \in {4, 9}, lost \in {0, 1}, in \in {2, 3}}
=============================================================================
