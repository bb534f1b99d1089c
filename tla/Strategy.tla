------------------------------ MODULE Strategy -------------------------------
(***************************************************************************)
(* A strategy from its draft to its signals: saved (StrategySpec), compiled*)
(* (StrategyPlan), and run over bars that arrive one by one on the tape of *)
(* internal/strategy/eval.go.  The tape keeps the last bars and the last   *)
(* values of every slot in rings; rules read it in three-valued logic, for *)
(* an indicator has no value until enough bars have passed.                *)
(*                                                                         *)
(* Indicators are windows here: one of period p is a function of the last  *)
(* p values it was fed (the average of p ranges, of p + 1 closes).         *)
(***************************************************************************)
EXTENDS StrategyPlan

CONSTANTS
  Drafts,      \* what users may try to save
  Closes,      \* of a bar; its open and its volume follow from it
  MaxBars,
  Unknown      \* no value yet: NaN in a slot, or further back than the tape goes

(* A draft as it was decoded: the children of a node come before it.        *)
IsNode(node, i) ==
  /\ node = [key |-> node.key, of |-> node.of]
  /\ node.key \in Comparators \cup Combinators => node.of = [k \in 1 .. Len(node.of) |-> node.of[k]]
  /\ node.key \in Comparators \cup Combinators => Len(node.of) \in Nat
  /\ node.key \in Comparators => \A k \in DOMAIN node.of : node.of[k].value \in Int
  /\ node.key \in Combinators => ToSet(node.of) \subseteq 1 .. i - 1
  /\ node.key = "not" => Len(node.of) <= 1

IsDraft(d) ==
  /\ d = [version |-> d.version, inputs |-> d.inputs, rules |-> d.rules, entry |-> d.entry,
          exit |-> d.exit, sizing |-> d.sizing, costs |-> d.costs]
  /\ Len(d.rules) \in Nat
  /\ d.rules = [i \in 1 .. Len(d.rules) |-> d.rules[i]]
  /\ \A i \in 1 .. Len(d.rules) : IsNode(d.rules[i], i)
  /\ d.sizing = [type |-> d.sizing.type, value |-> d.sizing.value]
  /\ {d.entry, d.exit} \subseteq [long : 0 .. Len(d.rules), short : 0 .. Len(d.rules)]

ASSUME StrategyAssumption ==
  /\ Closes \subseteq Nat /\ MaxBars \in Nat /\ Unknown \notin Int
  /\ \A d \in Drafts : IsDraft(d)

VARIABLES
  spec,        \* what was parsed, None before
  plan,        \* what was compiled, None before
  tape,
  seen         \* every bar so far: what the rings forget

strategyVars == <<spec, plan, tape, seen>>

Bar(close) == [close |-> close, open |-> (5 * close) % 12, volume |-> close + 1]

-----------------------------------------------------------------------------
(* One indicator: the window of what it was fed.                            *)

Span(key) == IndicatorWarmup(key) + 1

Total(window) ==
  LET sum[k \in 0 .. Len(window)] == IF k = 0 THEN 0 ELSE sum[k - 1] + window[k]
  IN  sum[Len(window)]

TotalRange(window) ==
  LET step(k) == IF window[k] > window[k + 1] THEN window[k] - window[k + 1] ELSE window[k + 1] - window[k]
  IN  Total([k \in 1 .. Len(window) - 1 |-> step(k)])

(* The value of a line over a full window; a band's edge is its extreme.    *)
LineOf(key, output, window) ==
  IF key.indicator = "atr" THEN TotalRange(window)
  ELSE IF output = 2 THEN Max(ToSet(window)) ELSE Total(window) \div Len(window)

Update(key, window, value) ==
  LET longer == Append(window, value)
  IN  IF Len(longer) > Span(key) THEN Tail(longer) ELSE longer

Ready(key, window) == Len(window) = Span(key)

-----------------------------------------------------------------------------
(* The tape.                                                                *)

Size(p) == Max({p.depth + 1, 2})

NewTape(p) ==
  [at |-> -1, filled |-> 0,
   bars |-> [k \in 0 .. Size(p) - 1 |-> Unknown],
   values |-> [s \in DOMAIN p.slots |-> [k \in 0 .. Size(p) - 1 |-> Unknown]],
   windows |-> [u \in DOMAIN p.units |-> <<>>]]       \* NewTape resets the indicators

Index(p, t, back) == (t.at - back + Size(p)) % Size(p)

Reachable(p, t, back) == back < Size(p) /\ back < t.filled

Slot(p, t, s, back) ==
  IF Reachable(p, t, back) THEN t.values[s][Index(p, t, back)] ELSE Unknown

Field(p, t, field, back) ==
  IF Reachable(p, t, back) THEN t.bars[Index(p, t, back)][field] ELSE Unknown

(* One unit takes the bar, or the value of the slot that feeds it, and its  *)
(* slots the values it then has.  A unit whose feed is unknown takes        *)
(* nothing.                                                                 *)
FeedUnit(p, t, u, bar) ==
  LET unit == p.units[u]
      fed  == IF unit.feed = 0 THEN bar[unit.key.source] ELSE Slot(p, t, unit.feed, 0)
      window == IF fed = Unknown THEN t.windows[u] ELSE Update(unit.key, t.windows[u], fed)
      value(s) == IF fed = Unknown \/ ~Ready(unit.key, window) THEN Unknown
                  ELSE LineOf(unit.key, p.slots[s].output, window)
  IN  [t EXCEPT !.windows[u] = window,
                !.values = [s \in DOMAIN t.values |->
                              IF p.slots[s].unit # u THEN t.values[s]
                              ELSE [t.values[s] EXCEPT ![t.at] = value(s)]]]

PushTape(p, t, bar) ==
  LET at == (t.at + 1) % Size(p)
      moved == [t EXCEPT !.at = at, !.filled = @ + 1, !.bars[at] = bar]
      upTo[u \in 0 .. Len(p.units)] == IF u = 0 THEN moved ELSE FeedUnit(p, upTo[u - 1], u, bar)
  IN  upTo[Len(p.units)]

Prime(p, bars) ==
  LET upTo[k \in 0 .. Len(bars)] == IF k = 0 THEN NewTape(p) ELSE PushTape(p, upTo[k - 1], bars[k])
  IN  upTo[Len(bars)]

-----------------------------------------------------------------------------
(* Rules over a tape: "true", "false" or "unknown".                         *)

Verdict(known, holds) == IF ~known THEN "unknown" ELSE IF holds THEN "true" ELSE "false"

TermAt(p, t, term, extra) ==
  CASE term.kind = "literal" -> term.value
    [] term.kind = "field"   -> Field(p, t, term.field, term.back + extra)
    [] OTHER                 -> Slot(p, t, term.slot, term.back + extra)

Holds(op, a, b) ==
  CASE op = "gt" -> a > b [] op = "lt" -> a < b [] op = "gte" -> a >= b
    [] op = "lte" -> a <= b [] op = "eq" -> a = b

Cross(p, t, rule) ==
  LET now == TermAt(p, t, rule.of[1], 0)    against == TermAt(p, t, rule.of[2], 0)
      was == TermAt(p, t, rule.of[1], 1)    before  == TermAt(p, t, rule.of[2], 1)
  IN  Verdict(Unknown \notin {now, against, was, before},
              IF rule.op = "crosses_above" THEN now > against /\ was <= before
                                           ELSE now < against /\ was >= before)

(* Steps are tried from the newest: the first that is unknown or fails      *)
(* decides.                                                                 *)
Trend(p, t, rule) ==
  LET at(k) == TermAt(p, t, rule.of[1], k)
      known(k) == Unknown \notin {at(k), at(k + 1)}
      rose(k) == IF rule.op = "rising" THEN at(k) > at(k + 1) ELSE at(k) < at(k + 1)
      stop == {k \in 0 .. rule.bars - 1 : ~known(k) \/ ~rose(k)}
  IN  IF stop = {} THEN "true" ELSE Verdict(known(Min(stop)), FALSE)

Between(p, t, rule) ==
  LET v(k) == TermAt(p, t, rule.of[k], 0)
  IN  Verdict(\A k \in 1 .. 3 : v(k) # Unknown, v(1) >= v(2) /\ v(1) <= v(3))

EvalCompare(p, t, rule) ==
  CASE rule.op \in Crossings   -> Cross(p, t, rule)
    [] rule.op \in Trends      -> Trend(p, t, rule)
    [] rule.op = "between"     -> Between(p, t, rule)
    [] OTHER -> LET v(k) == TermAt(p, t, rule.of[k], 0)
                IN  Verdict(Unknown \notin {v(1), v(2)}, Holds(rule.op, v(1), v(2)))

(* All, any and not.                                                        *)
(* Bug: not of what is unknown holds.                                       *)
CombineNotUnknown(op, of) ==
  CASE op = "all" -> IF "false" \in of THEN "false" ELSE IF "unknown" \in of THEN "unknown" ELSE "true"
    [] op = "any" -> IF "true" \in of THEN "true" ELSE IF "unknown" \in of THEN "unknown" ELSE "false"
    [] OTHER -> IF "true" \in of THEN "false" ELSE "true"

Combine(op, of) ==
  CASE op = "all" -> IF "false" \in of THEN "false" ELSE IF "unknown" \in of THEN "unknown" ELSE "true"
    [] op = "any" -> IF "true" \in of THEN "true" ELSE IF "unknown" \in of THEN "unknown" ELSE "false"
    [] OTHER -> IF "unknown" \in of THEN "unknown" ELSE IF "true" \in of THEN "false" ELSE "true"

Eval(p, t, root) ==
  LET v[i \in DOMAIN p.rules] ==
        IF p.rules[i].op \in Comparators THEN EvalCompare(p, t, p.rules[i])
        ELSE Combine(p.rules[i].op, {v[k] : k \in ToSet(p.rules[i].of)})
  IN  v[root]

(* A leg without a rule never fires.                                        *)
Fires(p, t, root) == root # 0 /\ Eval(p, t, root) = "true"

-----------------------------------------------------------------------------
(* A draft is saved and parsed; a run compiles what was saved and pushes    *)
(* one bar after the other.                                                 *)

StrategyInit == spec = None /\ plan = None /\ tape = None /\ seen = <<>>

(* What parses but does not compile is an internal error and not saved.     *)
SaveDraft(d) ==
  /\ spec = None
  /\ spec' = Parse(d)
  /\ plan' = IF spec' # Fault /\ ~Compiles(spec') THEN Fault ELSE None
  /\ UNCHANGED <<tape, seen>>

CompileSpec ==
  /\ spec \notin {None, Fault} /\ plan = None
  /\ plan' = Compile(Parse(Encode(spec)))
  /\ tape' = IF plan' = Fault THEN None ELSE NewTape(plan')
  /\ UNCHANGED <<spec, seen>>

Push(close) ==
  /\ plan \notin {None, Fault} /\ Len(seen) < MaxBars
  /\ tape' = PushTape(plan, tape, Bar(close))
  /\ seen' = Append(seen, Bar(close))
  /\ UNCHANGED <<spec, plan>>

StrategyNext ==
  \/ \E d \in Drafts : SaveDraft(d)
  \/ CompileSpec
  \/ \E close \in Closes : Push(close)

StrategySpecification == StrategyInit /\ [][StrategyNext]_strategyVars

-----------------------------------------------------------------------------
(* What a rule means, without tape, units, slots or hoisting: over the bars *)
(* seen so far, a value is known or not, and a rule is settled only when    *)
(* nothing that is unknown could change it.                                 *)

(* How many bars go by before an input's line has a value.                  *)
SettledAfter ==
  LET input(n) == spec.inputs[n]
      settled[n \in DOMAIN spec.inputs] ==
        Span(Key(input(n))) - 1
        + (IF input(n).source \notin Sources \cup {None} THEN settled[input(n).source] ELSE 0)
  IN  settled

(* Every line of every input at every bar so far: defined through the input *)
(* that feeds it.                                                           *)
LinesMeant ==
  LET input(n) == spec.inputs[n]
      span(n)  == Span(Key(input(n)))
      fed(n)   == input(n).source \notin Sources \cup {None}
      settled  == SettledAfter
      output(n) == Pos(Registry[input(n).indicator].lines, input(n).output)
      value[n \in DOMAIN spec.inputs] ==
        [o \in 1 .. 2 |-> [k \in 1 .. Len(seen) |->
           IF k <= settled[n] THEN Unknown
           ELSE LineOf(Key(input(n)), o,
                       [j \in 1 .. span(n) |->
                          IF fed(n) THEN value[input(n).source][output(input(n).source)][k - span(n) + j]
                          ELSE seen[k - span(n) + j][Key(input(n)).source]])]]
  IN  value

(* An input's own line, or another of its lines, at one bar.                *)
ValueOf(name, line, now) ==
  LET lines == Registry[spec.inputs[name].indicator].lines
  IN  IF now < 1 THEN Unknown
      ELSE LinesMeant[name][Pos(lines, IF line = None THEN spec.inputs[name].output ELSE line)][now]

OperandAt(o, back) ==
  LET now == Len(seen) - o.back - back
  IN  CASE o.kind = "literal" -> o.value
        [] o.kind = "field"   -> IF now < 1 THEN Unknown ELSE seen[now][o.name]
        [] OTHER              -> ValueOf(o.name, o.line, now)

(* The truth values a comparison may turn out to have.                      *)
Outcomes(vs, holds) == IF Unknown \in vs THEN BOOLEAN ELSE {holds}

CompareMeans(node) ==
  LET o == node.of
      now(k) == OperandAt(o[k], 0)
      was(k) == OperandAt(o[k], 1)
      moved(b) == IF node.key = "rising" THEN OperandAt(o[1], b) > OperandAt(o[1], b + 1)
                                         ELSE OperandAt(o[1], b) < OperandAt(o[1], b + 1)
      steps == {Outcomes({OperandAt(o[1], b), OperandAt(o[1], b + 1)}, moved(b)) : b \in 0 .. o[2].value - 1}
  IN  CASE node.key \in Plain -> Outcomes({now(1), now(2)}, Holds(node.key, now(1), now(2)))
        [] node.key = "between" ->
             Outcomes({now(1), now(2), now(3)}, now(2) <= now(1) /\ now(1) <= now(3))
        [] node.key = "crosses_above" ->
             Outcomes({now(1), now(2), was(1), was(2)}, now(1) > now(2) /\ ~(was(1) > was(2)))
        [] node.key = "crosses_below" ->
             Outcomes({now(1), now(2), was(1), was(2)}, now(1) < now(2) /\ ~(was(1) < was(2)))
        [] OTHER -> {b \in BOOLEAN : IF b THEN \A s \in steps : TRUE \in s ELSE \E s \in steps : FALSE \in s}

(* The truth values of what is joined, from those of its parts.             *)
Joined(key, kids) ==
  CASE key = "all" -> {b \in BOOLEAN : IF b THEN \A s \in kids : TRUE \in s ELSE \E s \in kids : FALSE \in s}
    [] key = "any" -> {b \in BOOLEAN : IF b THEN \E s \in kids : TRUE \in s ELSE \A s \in kids : FALSE \in s}
    [] OTHER -> {~b : b \in UNION kids}

(* A bracket is not a condition: it never lets an exit fire by itself.      *)
Means(root) ==
  LET m[i \in DOMAIN spec.rules] ==
        LET node == spec.rules[i]
        IN  IF node.key \in Combinators THEN Joined(node.key, {m[k] : k \in Children(node)})
            ELSE IF node.key \in Brackets THEN {FALSE}
            ELSE CompareMeans(node)
  IN  m[root]

Certainly(root) == root # 0 /\ Means(root) = {TRUE}

Running == plan \notin {None, Fault}
Legs == {"long", "short"}
PlanLeg(leg) == IF leg = "long" THEN plan.long ELSE plan.short

-----------------------------------------------------------------------------
(* Shapes.                                                                  *)
StrategyTypeOK ==
  /\ spec \in {None, Fault} \/ DOMAIN spec.inputs \subseteq ToSet(Names)
  /\ seen \in Seq([close : Nat, open : Nat, volume : Nat]) /\ Len(seen) <= MaxBars
  /\ Running => /\ tape.at \in -1 .. Size(plan) - 1 /\ tape.filled = Len(seen)
                /\ DOMAIN tape.values = DOMAIN plan.slots
                /\ \A s \in DOMAIN plan.slots : plan.slots[s].unit \in DOMAIN plan.units

(* What parses compiles, when it is saved and again before every run (no    *)
(* bracket is left where a condition is wanted); and a run compiles what    *)
(* its author saved: writing a spec and reading it again changes nothing.   *)
SavedSpecsCompile ==
  spec \notin {None, Fault} => Compiles(spec) /\ Parse(Encode(spec)) = spec

(* On every bar each leg's entry and exit fire exactly when their rule      *)
(* certainly holds of the bars seen: rings, shared units, the order of      *)
(* updates, hoisting and short circuits are invisible.                      *)
SignalsFollowTheRules ==
  Running => \A leg \in Legs :
    /\ Fires(plan, tape, PlanLeg(leg).entry) = Certainly(spec.entry[leg])
    /\ Fires(plan, tape, PlanLeg(leg).exit) = Certainly(spec.exit[leg])

(* The plan asks for enough: after its warm-up nothing is unknown any more. *)
(* A run primed with fewer bars than there have been, wherever they begin,  *)
(* may not know a verdict yet, but it never gives another one; and with as  *)
(* many as the plan asks for it knows, unless the cap on priming cut that.  *)
PrimingIsEnough ==
  Running => \A leg \in Legs : \A root \in {PlanLeg(leg).entry, PlanLeg(leg).exit} \ {0} :
    /\ Len(seen) > plan.warmup => Eval(plan, tape, root) # "unknown"
    /\ \A from \in 1 .. Len(seen) :
         LET primed == Eval(plan, Prime(plan, SubSeq(seen, from, Len(seen))), root)
         IN  /\ primed \in {"unknown", Eval(plan, tape, root)}
             /\ (plan.prime = plan.warmup /\ Len(seen) - from >= plan.prime) => primed # "unknown"

(* Each leg carries the brackets of its own exit, and one that sizes by     *)
(* risk has a stop; a range bracket finds its range among the slots.        *)
LegsCarryTheirBrackets ==
  Running => \A leg \in Legs :
    /\ (spec.sizing.type = "risk_pct" /\ PlanLeg(leg).entry # 0) => PlanLeg(leg).stop # {}
    /\ \A bracket \in PlanLeg(leg).stop \cup PlanLeg(leg).target :
         bracket.level.type = "atr" =>
           \E u \in DOMAIN plan.units :
             /\ bracket.slot \in DOMAIN plan.slots /\ plan.slots[bracket.slot] = [unit |-> u, output |-> 1]
             /\ plan.units[u] = [key |-> AtrKey(bracket.level), feed |-> 0]
=============================================================================
