---------------------------- MODULE StrategySpec -----------------------------
(***************************************************************************)
(* The language of strategies, internal/strategy: which specs parse.go     *)
(* accepts, the canonical form spec.go writes back, and the plan           *)
(* compile.go makes of it.                                                 *)
(*                                                                         *)
(* A rule tree is a sequence of nodes: a node names its children by        *)
(* position, children come before their parent, and 0 is no rule at all.   *)
(* A spec that is refused is Fault; where the fault points is left out.    *)
(*                                                                         *)
(* "Bug:" introduces a wrong version of the definition after it, kept to   *)
(* show that the properties notice.                                        *)
(***************************************************************************)
EXTENDS Integers, SequencesExt

CONSTANTS
  Names,       \* the names an input may have, as a sequence in alphabetical order
  MaxInputs, MaxNodes, MaxDepth, MaxBack, MaxPeriod,
  MaxQuantity, MaxCash, MaxBrokerageCents,
  Fault,       \* what is not accepted
  None         \* a field that was not given

Sources == {"close", "open"}             \* price fields an indicator can read
Fields  == Sources \cup {"volume"}       \* and those a rule can read
Combinators == {"all", "any", "not"}
Brackets    == {"stop_loss", "take_profit"}
Trends      == {"rising", "falling"}
Crossings   == {"crosses_above", "crosses_below"}
Plain       == {"gt", "lt", "gte", "lte", "eq"}
Comparators == Plain \cup Crossings \cup Trends \cup {"between"}

(* Three of the registered indicators stand for all of them: one line, two  *)
(* lines, and one that reads whole candles.  Each needs so many bars before *)
(* the first it has a value for.                                            *)
Registry == [sma    |-> [lines |-> <<"sma">>, sourced |-> TRUE, least |-> 1],
             bbands |-> [lines |-> <<"middle", "upper">>, sourced |-> TRUE, least |-> 2],
             atr    |-> [lines |-> <<"atr">>, sourced |-> FALSE, least |-> 1]]

(* None is no number and no name; those of the language are named, for to   *)
(* the provers a text is not yet a member of STRING.                        *)
ASSUME LanguageAssumption ==
  /\ Names \in Seq(STRING)
  /\ MaxInputs \in Nat /\ MaxNodes \in Nat /\ MaxDepth \in Nat
  /\ MaxBack \in Nat /\ MaxPeriod \in Nat \ {0}
  /\ MaxQuantity \in Nat /\ MaxCash \in Nat /\ MaxBrokerageCents \in Nat
  /\ None \notin STRING \cup Int \cup Sources
  /\ \A i \in DOMAIN Registry : None \notin ToSet(Registry[i].lines)

DefaultPeriod == 2
IndicatorWarmup(key) == IF key.indicator = "atr" THEN key.period ELSE key.period - 1

-----------------------------------------------------------------------------
(* Inputs.                                                                  *)

(* Names of price fields are taken.                                         *)
UsableName(name) == name \in ToSet(Names) /\ name \notin Fields

Chains(raws) ==
  [n \in {m \in DOMAIN raws : raws[m].source \notin Sources \cup {None}} |-> raws[n].source]

(* The names from n upstream; every name is fed by one other at most.       *)
Upstream(chains, n) ==
  LET up[k \in 0 .. Cardinality(DOMAIN chains) + 1] ==
        IF k = 0 THEN n
        ELSE IF up[k - 1] \in DOMAIN chains THEN chains[up[k - 1]] ELSE None
  IN  up

FindCycle(chains) ==
  \E n \in DOMAIN chains :
    \E k \in 1 .. Cardinality(DOMAIN chains) + 1 : Upstream(chains, n)[k] = n

SourceFault(raws, n) ==
  LET source == raws[n].source
  IN  source \notin Sources \cup {None} /\ (source = n \/ source \notin DOMAIN raws)

(* An input with everything that was implied spelt out.                     *)
Build(raw) ==
  LET spec   == Registry[raw.indicator]
      period == IF raw.period = None THEN DefaultPeriod ELSE raw.period
      output == IF raw.output = None THEN spec.lines[1] ELSE raw.output
      source == IF raw.source = None THEN "close" ELSE raw.source
  IN  IF \/ raw.indicator \notin DOMAIN Registry
         \/ raw.source # None /\ ~spec.sourced
         \/ period \notin spec.least .. MaxPeriod
         \/ ~Contains(spec.lines, output)
      THEN Fault
      ELSE [indicator |-> raw.indicator, period |-> period, output |-> output,
            source |-> IF spec.sourced THEN source ELSE None]

ReadInputs(raws) ==
  IF \/ Cardinality(DOMAIN raws) \notin 1 .. MaxInputs
     \/ \E n \in DOMAIN raws : ~UsableName(n) \/ SourceFault(raws, n) \/ Build(raws[n]) = Fault
     \/ FindCycle(Chains(raws))
  THEN Fault
  ELSE [n \in DOMAIN raws |-> Build(raws[n])]

-----------------------------------------------------------------------------
(* Operands and comparisons.                                                *)

Literal(v) == [kind |-> "literal", name |-> None, line |-> None, value |-> v, back |-> 0]

(* The dotted name of a line collapses when the indicator has one line only.*)
DottedLine(inputs, o) ==
  IF o.name \notin DOMAIN inputs THEN Fault
  ELSE LET lines == Registry[inputs[o.name].indicator].lines
       IN  IF ~Contains(lines, o.line) THEN Fault
           ELSE [kind |-> "input", name |-> o.name, value |-> 0, back |-> o.back,
                 line |-> IF Len(lines) = 1 THEN None ELSE o.line]

(* An input shadows nothing: its name is never that of a field.             *)
Named(inputs, o) ==
  IF o.line # None THEN DottedLine(inputs, o)
  ELSE IF o.name \in DOMAIN inputs
       THEN [kind |-> "input", name |-> o.name, line |-> None, value |-> 0, back |-> o.back]
  ELSE IF o.name \in Fields
       THEN [kind |-> "field", name |-> o.name, line |-> None, value |-> 0, back |-> o.back]
  ELSE Fault

ReadOperand(inputs, o) ==
  IF o.name = None THEN Literal(o.value)
  ELSE IF o.back \notin 0 .. MaxBack THEN Fault
  ELSE Named(inputs, o)

Arity(op) == IF op \in Trends THEN 1 .. 2 ELSE IF op = "between" THEN {3} ELSE {2}

Comparable(key, of) ==
  /\ \A k \in DOMAIN of : of[k] # Fault
  /\ (key = "between" /\ of[2].kind = "literal" /\ of[3].kind = "literal") => of[2].value <= of[3].value
  /\ key \in Trends => of[2].kind = "literal" /\ of[2].value \in 1 .. MaxBack

(* Rising and falling count bars: one, unless a literal says otherwise.     *)
ReadCompare(inputs, node) ==
  LET bars == IF node.key \in Trends /\ Len(node.of) = 1 THEN <<Literal(1)>> ELSE <<>>
      of   == [k \in DOMAIN node.of |-> ReadOperand(inputs, node.of[k])] \o bars
  IN  IF Len(node.of) \in Arity(node.key) /\ Comparable(node.key, of)
      THEN [key |-> node.key, of |-> of] ELSE Fault

-----------------------------------------------------------------------------
(* Rules.                                                                   *)

(* A bracket's distance: a fraction of the price, in percent, or a multiple *)
(* of the average range.                                                    *)
ReadLevel(l) ==
  CASE l.type = "pct" -> IF l.value \in 1 .. 99 /\ l.period = None /\ l.mult = None THEN l ELSE Fault
    [] l.type = "atr" -> IF l.period \in 1 .. MaxPeriod /\ l.mult \in 1 .. 100 /\ l.value = None
                         THEN l ELSE Fault
    [] OTHER -> Fault

ReadNode(inputs, node) ==
  CASE node.key \in Comparators -> ReadCompare(inputs, node)
    [] node.key \in Brackets    -> IF ReadLevel(node.of) = Fault THEN Fault ELSE node
    [] node.key \in Combinators -> IF node.of = <<>> THEN Fault ELSE node
    [] OTHER -> Fault

Children(node) == IF node.key \in Combinators THEN ToSet(node.of) ELSE {}

Under(rules, root) ==
  LET sub[i \in 1 .. Len(rules)] == {i} \cup UNION {sub[k] : k \in Children(rules[i])}
  IN  IF root = 0 THEN {} ELSE sub[root]

Having(rules, root, key) == {i \in Under(rules, root) : rules[i].key = key}

(* The depths a node may stand at, as a condition and at the top of an exit *)
(* or in an any that does: a bracket is a resting order, no condition, and  *)
(* stands only there.                                                       *)
(* Bug: in an all as well.                                                  *)
ReadableBracketsAnywhere(rules, root, brackets) ==
  LET rule[i \in 1 .. Len(rules)] ==
        {depth \in 1 .. MaxDepth :
           rules[i].key \notin Brackets /\ \A k \in Children(rules[i]) : depth + 1 \in rule[k]}
      exit[i \in 1 .. Len(rules)] ==
        {depth \in 1 .. MaxDepth : \A k \in Children(rules[i]) :
           depth + 1 \in IF rules[i].key # "not" THEN exit[k] ELSE rule[k]}
  IN  1 \in IF brackets THEN exit[root] ELSE rule[root]

Readable(rules, root, brackets) ==
  LET rule[i \in 1 .. Len(rules)] ==
        {depth \in 1 .. MaxDepth :
           rules[i].key \notin Brackets /\ \A k \in Children(rules[i]) : depth + 1 \in rule[k]}
      exit[i \in 1 .. Len(rules)] ==
        {depth \in 1 .. MaxDepth : \A k \in Children(rules[i]) :
           depth + 1 \in IF rules[i].key = "any" THEN exit[k] ELSE rule[k]}
  IN  1 \in IF brackets THEN exit[root] ELSE rule[root]

(* One stop and one target for each leg.                                    *)
ReadLeg(rules, root, brackets) ==
  root = 0 \/ /\ Readable(rules, root, brackets)
              /\ \A key \in Brackets : Cardinality(Having(rules, root, key)) <= 1

(* An entry or an exit is about one direction at least.                     *)
ReadSide(rules, side, brackets) ==
  /\ side.long # 0 \/ side.short # 0
  /\ ReadLeg(rules, side.long, brackets) /\ ReadLeg(rules, side.short, brackets)

ReadSizing(sizing) ==
  CASE sizing.type = "fixed_qty"  -> sizing.value \in 1 .. MaxQuantity
    [] sizing.type = "fixed_cash" -> sizing.value \in 1 .. MaxCash
    [] sizing.type \in {"pct_equity", "risk_pct"} -> sizing.value \in 1 .. 100   \* percent
    [] OTHER -> FALSE

Absent == [long |-> 0, short |-> 0]      \* a side that was not given

(* Risk sizing divides by the distance to the stop, so each leg needs one.  *)
(* Bug: one stop is enough for both.                                        *)
RiskHasStopsSomewhere(rules, d) ==
  (d.sizing.type = "risk_pct") =>
    \E leg \in {"long", "short"} : Having(rules, d.exit[leg], "stop_loss") # {}

RiskHasStops(rules, d) ==
  (d.sizing.type = "risk_pct") =>
    \A leg \in {"long", "short"} :
      d.entry[leg] # 0 => Having(rules, d.exit[leg], "stop_loss") # {}

(* Costs that were not given are what the exchange charges.                 *)
ReadCosts(costs) ==
  LET or(v, default) == IF v = None THEN default ELSE v
      read == [brokerage |-> or(costs.brokerage, 0), fee |-> or(costs.fee, 3), slippage |-> or(costs.slippage, 5)]
  IN  IF \/ read.brokerage \notin 0 .. MaxBrokerageCents
         \/ read.fee \notin 0 .. 1000 \/ read.slippage \notin 0 .. 1000
      THEN Fault ELSE read

(* The guards in the code's order; any of them refuses the whole.           *)
Accepted(d, inputs, rules, costs) ==
  LET nodes(side) == Cardinality(Under(d.rules, side.long)) + Cardinality(Under(d.rules, side.short))
  IN  /\ d.version \in {None, 1}
      /\ inputs # Fault
      /\ \A i \in DOMAIN rules : rules[i] # Fault
      /\ nodes(d.entry) + nodes(d.exit) <= MaxNodes
      /\ ReadSide(rules, d.entry, FALSE)
      /\ d.exit # Absent => ReadSide(rules, d.exit, TRUE)
      /\ \A leg \in {"long", "short"} : d.exit[leg] # 0 => d.entry[leg] # 0
      /\ ReadSizing(d.sizing)
      /\ RiskHasStops(rules, d)
      /\ costs # Fault

ParseWith(d, inputs, rules, costs) ==
  IF Accepted(d, inputs, rules, costs)
  THEN [d EXCEPT !.version = 1, !.inputs = inputs, !.rules = rules, !.costs = costs] ELSE Fault

ReadRules(inputs, rules) == [i \in DOMAIN rules |-> ReadNode(inputs, rules[i])]

Parse(d) ==
  LET inputs == ReadInputs(d.inputs)
  IN  ParseWith(d, inputs, ReadRules(inputs, d.rules), ReadCosts(d.costs))

-----------------------------------------------------------------------------
(* The canonical form, which is what is stored and parsed again before      *)
(* every run.  Bars back and lines that say nothing are left out.           *)

EncodeInput(input) ==
  LET spec == Registry[input.indicator]
  IN  [indicator |-> input.indicator, period |-> input.period,
       source |-> IF spec.sourced THEN input.source ELSE None,
       output |-> IF Len(spec.lines) > 1 THEN input.output ELSE None]

EncodeOperand(o) ==
  [name |-> IF o.kind = "literal" THEN None ELSE o.name, line |-> o.line,
   value |-> o.value, back |-> o.back]

EncodeNode(node) ==
  IF node.key \in Comparators
  THEN [node EXCEPT !.of = [k \in DOMAIN node.of |-> EncodeOperand(node.of[k])]]
  ELSE node

Encode(spec) ==
  [spec EXCEPT !.inputs = [n \in DOMAIN spec.inputs |-> EncodeInput(spec.inputs[n])],
               !.rules  = [i \in DOMAIN spec.rules |-> EncodeNode(spec.rules[i])]]
=============================================================================
