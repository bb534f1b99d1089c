---------------------------- MODULE StrategyPlan -----------------------------
(***************************************************************************)
(* internal/strategy/compile.go: the plan of a parsed spec.  Indicators    *)
(* become units, shared by every input that asks for the same one; their   *)
(* lines become slots; brackets leave the exit rule for the leg; and the   *)
(* plan knows how far back its rules read and how many bars must pass      *)
(* before they can.                                                        *)
(***************************************************************************)
EXTENDS StrategySpec

CONSTANT MaxPrimeBars     \* the most bars anything is primed with

Pos(seq, e) == CHOOSE k \in DOMAIN seq : seq[k] = e

(* What makes two inputs the same unit.  What a chained input reads is its  *)
(* feed and not part of the key.                                            *)
Key(input) ==
  [indicator |-> input.indicator, period |-> input.period,
   source |-> IF input.source \in Sources THEN input.source ELSE "close"]

AtrKey(level) == [indicator |-> "atr", period |-> level.period, source |-> "close"]

-----------------------------------------------------------------------------
(* Units and slots, in the order they are first needed; feed 0 is the bar.  *)

Place(seq, e) == LET at == {k \in DOMAIN seq : seq[k] = e} IN IF at = {} THEN 0 ELSE Min(at)

Added(seq, e) == IF Place(seq, e) = 0 THEN Append(seq, e) ELSE seq

UnitOf(b, key, feed) == Place(b.units, [key |-> key, feed |-> feed])
SlotOf(b, unit, output) == Place(b.slots, [unit |-> unit, output |-> output])

Attach(b, key, feed, output) ==
  LET units == Added(b.units, [key |-> key, feed |-> feed])
      unit  == Place(units, [key |-> key, feed |-> feed])
  IN  [b EXCEPT !.units = units, !.slots = Added(b.slots, [unit |-> unit, output |-> output])]

LineSlot(b, key, feed, output) == SlotOf(b, UnitOf(b, key, feed), output)

InputChains(spec) ==
  LET chained == {n \in DOMAIN spec.inputs : spec.inputs[n].source \notin Sources \cup {None}}
  IN  [n \in chained |-> spec.inputs[n].source]

(* An input comes after the one it reads, otherwise by name.                *)
Visit(chains, out, n) ==
  LET far == Cardinality(DOMAIN chains) + 1
      once(seq, m) == IF m = None \/ Contains(seq, m) THEN seq ELSE Append(seq, m)
      from[k \in 0 .. far + 1] ==
        IF k = 0 THEN out ELSE once(from[k - 1], Upstream(chains, n)[far + 1 - k])
  IN  from[far + 1]

Order(spec) ==
  LET upTo[k \in 0 .. Len(Names)] ==
        IF k = 0 THEN <<>>
        ELSE IF Names[k] \in DOMAIN spec.inputs THEN Visit(InputChains(spec), upTo[k - 1], Names[k])
        ELSE upTo[k - 1]
  IN  upTo[Len(Names)]

FeedOf(b, spec, n) ==
  IF n \in DOMAIN InputChains(spec) THEN b.index[InputChains(spec)[n]] ELSE 0

AddInput(b, spec, n) ==
  LET input  == spec.inputs[n]
      feed   == FeedOf(b, spec, n)
      output == Pos(Registry[input.indicator].lines, input.output)
      c      == Attach(b, Key(input), feed, output)
  IN  [c EXCEPT !.index[n] = LineSlot(c, Key(input), feed, output)]

Inputs(b, spec) ==
  LET added[k \in 0 .. Len(Order(spec))] ==
        IF k = 0 THEN b ELSE AddInput(added[k - 1], spec, Order(spec)[k])
  IN  added[Len(Order(spec))]

(* The slot an operand reads: its input's own, or another of its lines.     *)
Line(b, spec, o) ==
  IF o.line = None THEN b.index[o.name]
  ELSE LET input == spec.inputs[o.name]
       IN  LineSlot(b, Key(input), FeedOf(b, spec, o.name),
                    Pos(Registry[input.indicator].lines, o.line))

(* The slots that only the rules ask for: lines, and ranges of brackets.    *)
AddLine(b, spec, o) ==
  IF o.kind # "input" \/ o.line = None THEN b
  ELSE LET input == spec.inputs[o.name]
       IN  Attach(b, Key(input), FeedOf(b, spec, o.name), Pos(Registry[input.indicator].lines, o.line))

AddNode(b, spec, node) ==
  LET lines[k \in 0 .. Len(node.of)] ==
        IF k = 0 THEN b ELSE AddLine(lines[k - 1], spec, node.of[k])
  IN  CASE node.key \in Comparators -> lines[Len(node.of)]
        [] node.key \in Brackets /\ node.of.type = "atr" -> Attach(b, AtrKey(node.of), 0, 1)
        [] OTHER -> b

Reached(spec) ==
  UNION {Under(spec.rules, r) : r \in {spec.entry.long, spec.entry.short, spec.exit.long, spec.exit.short}}

RuleSlots(b, spec) ==
  LET upTo[i \in 0 .. Len(spec.rules)] ==
        IF i = 0 THEN b
        ELSE IF i \in Reached(spec) THEN AddNode(upTo[i - 1], spec, spec.rules[i]) ELSE upTo[i - 1]
  IN  upTo[Len(spec.rules)]

-----------------------------------------------------------------------------
(* Rules.                                                                   *)

(* The nodes of a sequence that are there.                                  *)
Present(nodes) ==
  LET kept[k \in 0 .. Len(nodes)] ==
        IF k = 0 THEN <<>> ELSE IF nodes[k] = 0 THEN kept[k - 1] ELSE Append(kept[k - 1], nodes[k])
  IN  kept[Len(nodes)]

(* What is left of an exit once its brackets are hoisted: the node to       *)
(* evaluate, or none; an any keeps the alternatives that are left.          *)
Residual(rules) ==
  LET left[i \in 1 .. Len(rules)] ==
        LET kept == Present([k \in DOMAIN rules[i].of |-> left[rules[i].of[k]]])
        IN  CASE rules[i].key \in Brackets -> 0
              [] rules[i].key = "any" -> IF kept = <<>> THEN 0
                                         ELSE IF Len(kept) = 1 THEN kept[1] ELSE i
              [] OTHER -> i
  IN  left

(* The nodes that hoist visits: the root of an exit and what its anys hold. *)
Visited(rules, root) ==
  LET sub[i \in 1 .. Len(rules)] ==
        {i} \cup (IF rules[i].key = "any" THEN UNION {sub[k] : k \in ToSet(rules[i].of)} ELSE {})
  IN  IF root = 0 THEN {} ELSE sub[root]

Hoisted(rules, exits) ==
  LET left == Residual(rules)
      visited == UNION {Visited(rules, r) : r \in exits}
  IN  [i \in DOMAIN rules |->
         IF i \notin visited \/ rules[i].key # "any" THEN rules[i]
         ELSE [rules[i] EXCEPT !.of = Present([k \in DOMAIN rules[i].of |-> left[rules[i].of[k]]])]]

(* The bracket of an exit, if there is one.                                 *)
Bracket(b, rules, root, key) ==
  LET found == Having(rules, root, key)
      level == rules[CHOOSE i \in found : TRUE].of
  IN  IF root = 0 \/ found = {} THEN {}
      ELSE {[level |-> level, slot |-> IF level.type = "atr" THEN LineSlot(b, AtrKey(level), 0, 1) ELSE 0]}

(* A leg without an entry keeps nothing of its exit.                        *)
ExitOf(spec, leg) == IF spec.entry[leg] = 0 THEN 0 ELSE spec.exit[leg]

LeftOf(rules, root) == IF root = 0 THEN 0 ELSE Residual(rules)[root]

Leg(b, spec, leg) ==
  LET exit == ExitOf(spec, leg)
  IN  [entry |-> spec.entry[leg], exit |-> LeftOf(spec.rules, exit),
       stop |-> Bracket(b, spec.rules, exit, "stop_loss"),
       target |-> Bracket(b, spec.rules, exit, "take_profit")]

Compare(b, spec, node) ==
  LET of   == IF node.key \in Trends THEN SubSeq(node.of, 1, 1) ELSE node.of
      term(o) == [kind |-> o.kind, field |-> o.name, value |-> o.value, back |-> o.back,
                  slot |-> IF o.kind = "input" THEN Line(b, spec, o) ELSE 0]
  IN  [op |-> node.key, bars |-> IF node.key \in Trends THEN node.of[2].value ELSE 1,
       of |-> [k \in DOMAIN of |-> term(of[k])]]

(* Nothing is compiled for a bracket.                                       *)
Rules(b, spec, rules) ==
  [i \in DOMAIN rules |->
     IF rules[i].key \in Comparators THEN Compare(b, spec, rules[i])
     ELSE [op |-> rules[i].key, bars |-> 1, of |-> IF rules[i].key \in Brackets THEN <<>> ELSE rules[i].of]]

(* A bracket that is still in a rule cannot be compiled.                    *)
Compilable(rules, root) == \A i \in Under(rules, root) : rules[i].key \notin Brackets

HoistedRules(spec) == Hoisted(spec.rules, {spec.exit.long, spec.exit.short} \ {0})

Compiles(spec) ==
  \A leg \in {"long", "short"} :
    \A root \in {spec.entry[leg], LeftOf(spec.rules, ExitOf(spec, leg))} \ {0} :
      Compilable(HoistedRules(spec), root)

-----------------------------------------------------------------------------
(* How far back a rule reads.                                               *)
Depth(rule) ==
  LET extra == CASE rule.op \in Crossings -> 1 [] rule.op \in Trends -> rule.bars [] OTHER -> 0
  IN  Max({0} \cup {rule.of[k].back + extra : k \in {k \in DOMAIN rule.of : rule.of[k].kind # "literal"}})

(* A unit that is fed by another starts when that one does.                 *)
(* Bug: it starts at once.                                                  *)
WarmupsUnchained(b) == [u \in DOMAIN b.units |-> IndicatorWarmup(b.units[u].key)]

Warmups(b) ==
  LET warm[u \in DOMAIN b.units] ==
        IndicatorWarmup(b.units[u].key)
        + (IF b.units[u].feed = 0 THEN 0 ELSE warm[b.slots[b.units[u].feed].unit])
  IN  warm

(* For an indicator over a window, priming it and warming it are the same.  *)
Measure(b, depth) ==
  LET most == Max({0} \cup {Warmups(b)[u] : u \in DOMAIN b.units})
  IN  [warmup |-> most + depth,
       prime |-> IF most + depth > MaxPrimeBars THEN MaxPrimeBars ELSE most + depth]

(* Every rule the legs evaluate is one that is reached from a root.         *)
Deepest(rules, reached) ==
  Max({0} \cup {Depth(rules[i]) : i \in {i \in reached : rules[i].op \in Comparators}})

PlanOf(b, hoisted, rules, long, short) ==
  LET roots == {long.entry, long.exit, short.entry, short.exit} \ {0}
      depth == Deepest(rules, UNION {Under(hoisted, r) : r \in roots})
      measured == Measure(b, depth)
  IN  [units |-> b.units, slots |-> b.slots, index |-> b.index, rules |-> rules,
       long |-> long, short |-> short, depth |-> depth,
       warmup |-> measured.warmup, prime |-> measured.prime]

Builder(spec) ==
  LET empty == [units |-> <<>>, slots |-> <<>>, index |-> [n \in DOMAIN spec.inputs |-> 0]]
  IN  RuleSlots(Inputs(empty, spec), spec)

Compile(spec) ==
  LET b == Builder(spec)
  IN  IF ~Compiles(spec) THEN Fault
      ELSE PlanOf(b, HoistedRules(spec), Rules(b, spec, HoistedRules(spec)),
                  Leg(b, spec, "long"), Leg(b, spec, "short"))
=============================================================================
