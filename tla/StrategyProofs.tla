---------------------------- MODULE StrategyProofs ----------------------------
(***************************************************************************)
(* Theorems about strategies and the plans they compile to, for any drafts,*)
(* requests and caps.                                                      *)
(*                                                                         *)
(* That what is saved is read as it was is shown part by part: inputs,     *)
(* operands, comparisons, rules, costs (...IsReadAgain).  That it compiles *)
(* is about three walks over a rule tree, each from the leaves up: parse   *)
(* admits a bracket at the top of an exit or in an any that does           *)
(* (ReadableIs); hoist takes it out (ResidualIs, VisitedIs, HoistedIs);    *)
(* and compile meets none in what is left (ConditionsAreFree, ExitsAreFree)*)
(* A walk defined by recursion is one because children come before their   *)
(* parent (Recursion).                                                     *)
(*                                                                         *)
(* The plan a run follows is what its stored spec compiles to.  Its inputs *)
(* are built in an order in which each comes after the one it reads (the   *)
(* chain from an input ends, or it would return to where it was), so that  *)
(* units and slots stand together (Sound) and every input, rule and        *)
(* bracket has its slot among them (AllBuilt, Placed).                     *)
(*                                                                         *)
(* A tape holds, at every bar, what its units compute of the bars so far   *)
(* (IsTape, kept by every advance: PushedIs): its ring the last bars, a    *)
(* unit's window the last values it was fed, a slot's ring the last values *)
(* of its line.  So a term of the plan reads over the tape what the rule's *)
(* operand means over the bars (TermMeans), a comparison's verdict admits  *)
(* what the comparison means (ComparisonMeans) and no combination loses a  *)
(* truth value (RulesMean); hoisting the brackets of an exit away keeps    *)
(* what it means.                                                          *)
(*                                                                         *)
(* A tape that was primed with the last bars alone has the values that the *)
(* whole history gives, or none yet (ValuesLater), and has one once the    *)
(* unit's warm-up has passed; a verdict over it is that over the whole, or *)
(* is not known (WeakerRules).                                             *)
(***************************************************************************)
EXTENDS SweepPlan, FiniteSetTheorems, WellFoundedInduction, TLAPS

-----------------------------------------------------------------------------
(* What is written is read as it was.                                       *)

LEMMA RegistryIs ==
  ASSUME NEW i \in DOMAIN Registry
  PROVE  Registry[i].sourced \in BOOLEAN /\ Len(Registry[i].lines) \in 1 .. 2
<1>1. DOMAIN Registry = {"sma", "bbands", "atr"}
  BY DEF Registry
<1>2. /\ Registry["sma"] = [lines |-> <<"sma">>, sourced |-> TRUE, least |-> 1]
      /\ Registry["bbands"] = [lines |-> <<"middle", "upper">>, sourced |-> TRUE, least |-> 2]
      /\ Registry["atr"] = [lines |-> <<"atr">>, sourced |-> FALSE, least |-> 1]
  BY DEF Registry
<1>3. Len(<<"sma">>) = 1 /\ Len(<<"middle", "upper">>) = 2 /\ Len(<<"atr">>) = 1
  OBVIOUS
<1>4. CASE i = "sma"
  <2>1. Registry[i].lines = <<"sma">> /\ Registry[i].sourced = TRUE
    BY <1>2, <1>4
  <2>2. Len(Registry[i].lines) \in 1 .. 2
    BY <1>3, <2>1
  <2>3. Registry[i].sourced \in BOOLEAN
    BY <2>1, Zenon
  <2>4. QED
    BY <2>2, <2>3
<1>5. CASE i = "bbands"
  <2>1. Registry[i].lines = <<"middle", "upper">> /\ Registry[i].sourced = TRUE
    BY <1>2, <1>5
  <2>2. Len(Registry[i].lines) \in 1 .. 2
    BY <1>3, <2>1
  <2>3. Registry[i].sourced \in BOOLEAN
    BY <2>1, Zenon
  <2>4. QED
    BY <2>2, <2>3
<1>6. CASE i = "atr"
  <2>1. Registry[i].lines = <<"atr">> /\ Registry[i].sourced = FALSE
    BY <1>2, <1>6
  <2>2. Len(Registry[i].lines) \in 1 .. 2
    BY <1>3, <2>1
  <2>3. Registry[i].sourced \in BOOLEAN
    BY <2>1, Zenon
  <2>4. QED
    BY <2>2, <2>3
<1>7. QED
  BY <1>1, <1>4, <1>5, <1>6

(* An input.                                                                *)
LEMMA InputIsReadAgain ==
  ASSUME NEW raw, Build(raw) # Fault
  PROVE  /\ Build(raw).indicator \in DOMAIN Registry
         /\ Build(EncodeInput(Build(raw))) = Build(raw)
         /\ EncodeInput(Build(raw)).source \notin Sources \cup {None}
              => EncodeInput(Build(raw)).source = raw.source
         /\ raw.source \notin Sources \cup {None}
              => EncodeInput(Build(raw)).source = raw.source
<1>1. PICK ind : ind = raw.indicator
  OBVIOUS
<1>2. PICK lines, sourced, least :
        lines = Registry[ind].lines /\ sourced = Registry[ind].sourced /\ least = Registry[ind].least
  OBVIOUS
<1>3. PICK period : period = IF raw.period = None THEN DefaultPeriod ELSE raw.period
  OBVIOUS
<1>4. PICK output : output = IF raw.output = None THEN lines[1] ELSE raw.output
  OBVIOUS
<1>5. PICK source : source = IF raw.source = None THEN "close" ELSE raw.source
  OBVIOUS
<1>6. /\ ind \in DOMAIN Registry
      /\ ~(raw.source # None /\ ~sourced)
      /\ period \in least .. MaxPeriod
      /\ Contains(lines, output)
      /\ Build(raw) = [indicator |-> ind, period |-> period, output |-> output,
                       source |-> IF sourced THEN source ELSE None]
  BY <1>1, <1>2, <1>3, <1>4, <1>5 DEF Build
<1>7. sourced \in BOOLEAN /\ Len(lines) \in 1 .. 2
  BY <1>2, <1>6, RegistryIs
<1>8. PICK stored : stored = [indicator |-> ind, period |-> period,
                              source |-> IF sourced THEN source ELSE None,
                              output |-> IF Len(lines) > 1 THEN output ELSE None]
  OBVIOUS
<1>9. EncodeInput(Build(raw)) = stored
  BY <1>2, <1>6, <1>8 DEF EncodeInput
<1>10. period = IF stored.period = None THEN DefaultPeriod ELSE stored.period
  BY <1>3, <1>8
<1>11. output = IF stored.output = None THEN lines[1] ELSE stored.output
  <2>1. CASE Len(lines) = 1
    <3>1. lines[1] = output
      BY <1>6, <1>7, <2>1 DEF Contains
    <3>2. QED
      BY <1>8, <2>1, <3>1
  <2>2. CASE Len(lines) # 1
    <3>1. stored.output = output
      BY <1>7, <1>8, <2>2
    <3>2. QED
      BY <1>4, <3>1
  <2>3. QED
    BY <2>1, <2>2
<1>12. (IF sourced THEN IF stored.source = None THEN "close" ELSE stored.source ELSE None)
         = IF sourced THEN source ELSE None
  BY <1>5, <1>8
<1>13. ~(stored.source # None /\ ~sourced)
  BY <1>8
<1>14. Build(stored) = Build(raw)
  BY <1>2, <1>6, <1>8, <1>10, <1>11, <1>12, <1>13 DEF Build
<1>15. QED
  BY <1>5, <1>6, <1>8, <1>9, <1>14 DEF Sources

LEMMA InputsAreReadAgain ==
  ASSUME NEW raws, ReadInputs(raws) # Fault, NEW written,
         written = [n \in DOMAIN raws |-> EncodeInput(ReadInputs(raws)[n])]
  PROVE  /\ ReadInputs(written) = ReadInputs(raws)
         /\ \A n \in DOMAIN ReadInputs(raws) : ReadInputs(raws)[n].indicator \in DOMAIN Registry
         /\ DOMAIN ReadInputs(raws) = DOMAIN raws
<1>1. /\ Cardinality(DOMAIN raws) \in 1 .. MaxInputs
      /\ \A n \in DOMAIN raws : UsableName(n) /\ ~SourceFault(raws, n) /\ Build(raws[n]) # Fault
      /\ ~FindCycle(Chains(raws))
      /\ ReadInputs(raws) = [n \in DOMAIN raws |-> Build(raws[n])]
  BY DEF ReadInputs
<1>2. /\ DOMAIN written = DOMAIN raws
      /\ \A n \in DOMAIN raws : written[n] = EncodeInput(Build(raws[n]))
  BY <1>1
<1>3. \A n \in DOMAIN raws :
        /\ Build(raws[n]).indicator \in DOMAIN Registry
        /\ Build(written[n]) = Build(raws[n])
        /\ written[n].source \notin Sources \cup {None} => written[n].source = raws[n].source
        /\ raws[n].source \notin Sources \cup {None} => written[n].source = raws[n].source
  BY <1>1, <1>2, InputIsReadAgain
<1>4. Chains(written) = Chains(raws)
  BY <1>2, <1>3 DEF Chains
<1>5. \A n \in DOMAIN raws : ~SourceFault(written, n)
  BY <1>1, <1>2, <1>3 DEF SourceFault
<1>6. ReadInputs(written) = [n \in DOMAIN raws |-> Build(written[n])]
  BY <1>1, <1>2, <1>3, <1>4, <1>5 DEF ReadInputs
<1>7. QED
  BY <1>1, <1>3, <1>6

(* An operand: what a name or a number stands for.                          *)
LEMMA OperandIsReadAgain ==
  ASSUME NEW inputs, NEW raw, ReadOperand(inputs, raw) # Fault
  PROVE  ReadOperand(inputs, EncodeOperand(ReadOperand(inputs, raw))) = ReadOperand(inputs, raw)
<1>1. PICK o : o = ReadOperand(inputs, raw)
  OBVIOUS
<1>2. CASE raw.name = None
  <2>1. o = [kind |-> "literal", name |-> None, line |-> None, value |-> raw.value, back |-> 0]
    BY <1>1, <1>2 DEF ReadOperand, Literal
  <2>2. EncodeOperand(o) = [name |-> None, line |-> None, value |-> raw.value, back |-> 0]
    BY <2>1 DEF EncodeOperand
  <2>3. QED
    BY <1>1, <2>1, <2>2 DEF ReadOperand, Literal
<1>3. CASE raw.name # None
  <2>1. raw.back \in 0 .. MaxBack /\ o = Named(inputs, raw) /\ o # Fault
    BY <1>1, <1>3 DEF ReadOperand
  <2>2. \A again : again.name = raw.name /\ again.back = raw.back /\ Named(inputs, again) = o
                     => ReadOperand(inputs, again) = o
    BY <1>3, <2>1 DEF ReadOperand
  <2>3. CASE raw.line # None
    <3>1. PICK lines : lines = Registry[inputs[raw.name].indicator].lines
      OBVIOUS
    <3>2. /\ raw.name \in DOMAIN inputs /\ Contains(lines, raw.line)
          /\ o = [kind |-> "input", name |-> raw.name, value |-> 0, back |-> raw.back,
                  line |-> IF Len(lines) = 1 THEN None ELSE raw.line]
      BY <2>1, <2>3, <3>1 DEF Named, DottedLine
    <3>3. PICK again : again = [name |-> raw.name, line |-> IF Len(lines) = 1 THEN None ELSE raw.line,
                                value |-> 0, back |-> raw.back]
      OBVIOUS
    <3>4. EncodeOperand(o) = again
      BY <3>2, <3>3 DEF EncodeOperand
    <3>5. Named(inputs, again) = o
      BY <2>3, <3>1, <3>2, <3>3 DEF Named, DottedLine
    <3>6. QED
      BY <1>1, <2>2, <3>3, <3>4, <3>5
  <2>4. CASE raw.line = None
    <3>1. PICK kind \in {"input", "field"} :
            /\ kind = IF raw.name \in DOMAIN inputs THEN "input" ELSE "field"
            /\ raw.name \in DOMAIN inputs \/ raw.name \in Fields
            /\ o = [kind |-> kind, name |-> raw.name, line |-> None, value |-> 0, back |-> raw.back]
      BY <2>1, <2>4 DEF Named
    <3>2. PICK again : again = [name |-> raw.name, line |-> None, value |-> 0, back |-> raw.back]
      OBVIOUS
    <3>3. EncodeOperand(o) = again
      BY <3>1, <3>2 DEF EncodeOperand
    <3>4. Named(inputs, again) = o
      BY <3>1, <3>2 DEF Named
    <3>5. QED
      BY <1>1, <2>2, <3>2, <3>3, <3>4
  <2>5. QED
    BY <2>3, <2>4
<1>4. QED
  BY <1>2, <1>3

LEMMA PairJoined ==
  ASSUME NEW x, NEW y
  PROVE  <<x>> \o <<y>> = <<x, y>>
<1>1. <<x>> \in Seq({x, y}) /\ <<y>> \in Seq({x, y})
  OBVIOUS
<1>2. PICK s, t, u : /\ s \in Seq({x, y}) /\ t \in Seq({x, y})
                     /\ s = <<x>> /\ t = <<y>> /\ u = s \o t
  BY <1>1
<1>3. u \in Seq({x, y}) /\ Len(u) = 2 /\ u[1] = x /\ u[2] = y
  BY <1>2
<1>4. u = [i \in 1 .. 2 |-> u[i]]
  BY <1>3
<1>5. <<x, y>> = [i \in 1 .. 2 |-> IF i = 1 THEN x ELSE y]
  OBVIOUS
<1>6. [i \in 1 .. 2 |-> u[i]] = [i \in 1 .. 2 |-> IF i = 1 THEN x ELSE y]
  BY <1>3
<1>7. QED
  BY <1>2, <1>4, <1>5, <1>6

(* A comparison.  What it counts is spelt out when it is read, so a second  *)
(* reading adds nothing.                                                    *)
LEMMA CompareIsReadAgain ==
  ASSUME NEW inputs, NEW node, node.key \in Comparators,
         Len(node.of) \in Nat, node.of = [k \in 1 .. Len(node.of) |-> node.of[k]],
         ReadCompare(inputs, node) # Fault
  PROVE  /\ ReadCompare(inputs, EncodeNode(ReadCompare(inputs, node))) = ReadCompare(inputs, node)
         /\ ReadCompare(inputs, node).key = node.key
         /\ EncodeNode(ReadCompare(inputs, node)).key = node.key
<1>1. PICK size \in Nat : size = Len(node.of)
  OBVIOUS
<1>2. PICK read : read = [k \in 1 .. size |-> ReadOperand(inputs, node.of[k])]
  OBVIOUS
<1>3. PICK bars : bars = IF node.key \in Trends /\ size = 1 THEN <<Literal(1)>> ELSE <<>>
  OBVIOUS
<1>4. PICK of : of = read \o bars
  OBVIOUS
<1>5. DOMAIN node.of = 1 .. size
  BY <1>1
<1>6. /\ size \in Arity(node.key) /\ Comparable(node.key, of)
      /\ ReadCompare(inputs, node) = [key |-> node.key, of |-> of]
  BY <1>1, <1>2, <1>3, <1>4, <1>5 DEF ReadCompare
<1>7. PICK total \in Nat : total = size + Len(bars) /\ (bars = <<>> \/ (total = 2 /\ size = 1))
  BY <1>3
<1>8. /\ of = [k \in 1 .. total |-> of[k]] /\ Len(of) = total
      /\ \A k \in 1 .. size : of[k] = read[k]
      /\ size = 1 /\ total = 2 => of[2] = Literal(1)
  <2>1. read \in Seq(Range(read)) /\ Len(read) = size
    BY <1>2 DEF Range
  <2>2. CASE bars = <<>>
    <3>1. of = read
      BY <1>4, <2>1, <2>2
    <3>2. total = size
      BY <1>7, <2>2
    <3>3. QED
      BY <1>2, <2>1, <3>1, <3>2
  <2>3. CASE bars # <<>>
    <3>1. bars = <<Literal(1)>> /\ total = 2 /\ size = 1
      BY <1>3, <1>7, <2>3
    <3>2. read = <<read[1]>>
      BY <1>2, <2>1, <3>1
    <3>3. of = <<read[1], Literal(1)>>
      BY <1>4, <3>1, <3>2, PairJoined
    <3>4. QED
      BY <3>1, <3>3
  <2>4. QED
    BY <2>2, <2>3
<1>9. \A k \in 1 .. total : of[k] # Fault
  BY <1>6, <1>8 DEF Comparable
<1>10. \A k \in 1 .. total : ReadOperand(inputs, EncodeOperand(of[k])) = of[k]
  <2> SUFFICES ASSUME NEW k \in 1 .. total
               PROVE  ReadOperand(inputs, EncodeOperand(of[k])) = of[k]
    OBVIOUS
  <2>1. CASE k \in 1 .. size
    <3>1. of[k] = ReadOperand(inputs, node.of[k]) /\ of[k] # Fault
      BY <1>2, <1>8, <1>9, <2>1
    <3>2. QED
      BY <3>1, OperandIsReadAgain
  <2>2. CASE k \notin 1 .. size
    <3>1. k = 2 /\ size = 1 /\ total = 2
      BY <1>7, <2>2
    <3>2. of[k] = [kind |-> "literal", name |-> None, line |-> None, value |-> 1, back |-> 0]
      BY <1>8, <3>1 DEF Literal
    <3>3. EncodeOperand(of[k]) = [name |-> None, line |-> None, value |-> 1, back |-> 0]
      BY <3>2 DEF EncodeOperand
    <3>4. QED
      BY <3>2, <3>3 DEF ReadOperand, Literal
  <2>3. QED
    BY <2>1, <2>2
<1>11. PICK written : written = [key |-> node.key, of |-> [k \in 1 .. total |-> EncodeOperand(of[k])]]
  OBVIOUS
<1>12. EncodeNode(ReadCompare(inputs, node)) = written
  <2>1. PICK result : result = [key |-> node.key, of |-> of]
    OBVIOUS
  <2>2. result.key \in Comparators /\ result.of = of /\ DOMAIN of = 1 .. total
    BY <1>8, <2>1
  <2>3. EncodeNode(result) = [result EXCEPT !.of = [k \in 1 .. total |-> EncodeOperand(of[k])]]
    BY <2>2 DEF EncodeNode
  <2>4. [result EXCEPT !.of = [k \in 1 .. total |-> EncodeOperand(of[k])]] = written
    <3>1. \A key, x, y : [[key |-> key, of |-> x] EXCEPT !.of = y] = [key |-> key, of |-> y]
      OBVIOUS
    <3>2. QED
      BY <1>11, <2>1, <3>1
  <2>5. QED
    BY <1>6, <2>1, <2>3, <2>4
<1>13. Len(written.of) = total /\ DOMAIN written.of = 1 .. total /\ written.key = node.key
  BY <1>11
<1>14. [k \in 1 .. total |-> ReadOperand(inputs, written.of[k])] = of
  BY <1>8, <1>10, <1>11
<1>15. total \in Arity(node.key) /\ ~(node.key \in Trends /\ total = 1)
  <2>1. CASE node.key \in Trends
    BY <1>3, <1>6, <1>7, <2>1 DEF Arity
  <2>2. CASE node.key \notin Trends
    BY <1>3, <1>6, <1>7, <2>2
  <2>3. QED
    BY <2>1, <2>2
<1>16. of \o <<>> = of
  BY <1>8
<1>17. ReadCompare(inputs, written) = [key |-> node.key, of |-> of]
  BY <1>6, <1>13, <1>14, <1>15, <1>16 DEF ReadCompare
<1>18. QED
  BY <1>6, <1>12, <1>13, <1>17

LEMMA NodeIsReadAgain ==
  ASSUME NEW inputs, NEW i, NEW node, IsNode(node, i), ReadNode(inputs, node) # Fault
  PROVE  /\ ReadNode(inputs, EncodeNode(ReadNode(inputs, node))) = ReadNode(inputs, node)
         /\ ReadNode(inputs, node).key = node.key
         /\ EncodeNode(ReadNode(inputs, node)).key = node.key
         /\ node.key \notin Comparators =>
              ReadNode(inputs, node) = node /\ EncodeNode(ReadNode(inputs, node)) = node
         /\ node.key \in Comparators \cup Brackets \cup Combinators
<1>1. CASE node.key \in Comparators
  <2>1. ReadNode(inputs, node) = ReadCompare(inputs, node)
    BY <1>1 DEF ReadNode, Comparators, Plain, Crossings, Trends, Brackets, Combinators
  <2>2. /\ Len(node.of) \in Nat /\ node.of = [k \in 1 .. Len(node.of) |-> node.of[k]]
    BY <1>1 DEF IsNode
  <2>3. /\ ReadCompare(inputs, EncodeNode(ReadCompare(inputs, node))) = ReadCompare(inputs, node)
        /\ ReadCompare(inputs, node).key = node.key
        /\ EncodeNode(ReadCompare(inputs, node)).key = node.key
    BY <1>1, <2>1, <2>2, CompareIsReadAgain
  <2>4. \A again : again.key = node.key => ReadNode(inputs, again) = ReadCompare(inputs, again)
    BY <1>1 DEF ReadNode, Comparators, Plain, Crossings, Trends, Brackets, Combinators
  <2>5. QED
    BY <1>1, <2>1, <2>3, <2>4
<1>2. CASE node.key \notin Comparators
  <2>1. ReadNode(inputs, node) = node /\ node.key \in Brackets \cup Combinators
    BY <1>2 DEF ReadNode, Brackets, Combinators
  <2>2. EncodeNode(node) = node
    BY <1>2 DEF EncodeNode
  <2>3. QED
    BY <1>2, <2>1, <2>2
<1>3. QED
  BY <1>1, <1>2

Given(v, default) == IF v = None THEN default ELSE v

CostsOf(b, f, s) ==
  IF b \notin 0 .. MaxBrokerageCents \/ f \notin 0 .. 1000 \/ s \notin 0 .. 1000
  THEN Fault ELSE [brokerage |-> b, fee |-> f, slippage |-> s]

LEMMA CostsAreReadAgain ==
  ASSUME NEW costs, ReadCosts(costs) # Fault
  PROVE  ReadCosts(ReadCosts(costs)) = ReadCosts(costs)
<1>1. \A v, default : Given(Given(v, default), default) = Given(v, default)
  BY DEF Given
<1>2. \A c : ReadCosts(c) = CostsOf(Given(c.brokerage, 0), Given(c.fee, 3), Given(c.slippage, 5))
  BY DEF ReadCosts, CostsOf, Given
<1>3. PICK b, f, s : /\ b = Given(costs.brokerage, 0)
                     /\ f = Given(costs.fee, 3)
                     /\ s = Given(costs.slippage, 5)
  OBVIOUS
<1>4. ReadCosts(costs) = CostsOf(b, f, s)
  BY <1>2, <1>3
<1>5. PICK read : read = CostsOf(b, f, s)
  OBVIOUS
<1>6. read.brokerage = b /\ read.fee = f /\ read.slippage = s
  BY <1>4, <1>5 DEF CostsOf
<1>7. b = Given(read.brokerage, 0) /\ f = Given(read.fee, 3) /\ s = Given(read.slippage, 5)
  BY <1>1, <1>3, <1>6
<1>8. ReadCosts(read) = CostsOf(b, f, s)
  BY <1>2, <1>7
<1>9. QED
  BY <1>4, <1>5, <1>8

-----------------------------------------------------------------------------
(* Functions that are defined along a sequence.                             *)

LEMMA LeastNatural ==
  ASSUME NEW S \in SUBSET Nat, S # {}
  PROVE  \E m \in S : \A n \in S : m <= n
<1> DEFINE R == OpToRel(<, Nat)
<1>1. IsWellFoundedOn(R, Nat)
  BY NatLessThanWellFounded
<1>2. \A a, b \in Nat : <<a, b>> \in R <=> a < b
  BY DEF OpToRel
<1>3. PICK m \in S : \A n \in S : ~ (<<n, m>> \in R)
  <2> HIDE DEF R
  <2>1. QED
    BY <1>1, WFMin
<1>4. ASSUME NEW n \in S PROVE m <= n
  <2> HIDE DEF R
  <2>1. m \in Nat /\ n \in Nat
    OBVIOUS
  <2>2. ~ (n < m)
    BY <1>2, <1>3, <2>1
  <2>3. QED
    BY <2>1, <2>2
<1>5. QED
  BY <1>4

(* The values before i.                                                     *)
Before(f, i) == [k \in 1 .. i - 1 |-> f[k]]

Steps(step, n, V) == \A i \in 1 .. n : \A g \in [1 .. i - 1 -> V] : step[i][g] \in V
Follows(f, step, n) == \A i \in 1 .. n : f[i] = step[i][Before(f, i)]

(* Of a sequence that is not empty, the tail.                               *)
LEMMA TailIs ==
  ASSUME NEW S, NEW s \in Seq(S), s # << >>
  PROVE  /\ Tail(s) \in Seq(S) /\ Len(Tail(s)) = Len(s) - 1
         /\ \A j \in 1 .. Len(Tail(s)) : Tail(s)[j] = s[j + 1]
OBVIOUS

LEMMA Recursion ==
  ASSUME NEW n \in Nat, NEW V, NEW step, Steps(step, n, V)
  PROVE  \E f \in [1 .. n -> V] : Follows(f, step, n)
<1> USE DEF Steps, Follows
<1> DEFINE Good(m) == \E f \in [1 .. m -> V] : \A i \in 1 .. m : f[i] = step[i][Before(f, i)]
           Bad == {m \in 0 .. n : ~Good(m)}
<1>1. Good(0)
  <2>1. PICK f : f = [k \in 1 .. 0 |-> k]
    OBVIOUS
  <2>2. \A i \in 1 .. 0 : FALSE
    OBVIOUS
  <2>3. f \in [1 .. 0 -> V]
    BY <2>1, <2>2
  <2>4. QED
    BY <2>2, <2>3
<1>2. ASSUME NEW m \in 0 .. n - 1, Good(m) PROVE Good(m + 1)
  <2>1. PICK f \in [1 .. m -> V] : \A i \in 1 .. m : f[i] = step[i][Before(f, i)]
    BY <1>2
  <2>2. PICK v : v = step[m + 1][f]
    OBVIOUS
  <2>3. v \in V
    <3>1. m + 1 \in 1 .. n /\ m + 1 - 1 = m
      OBVIOUS
    <3>2. f \in [1 .. (m + 1) - 1 -> V]
      BY <3>1
    <3>3. QED
      BY <2>2, <3>1, <3>2
  <2>4. PICK g : g = [k \in 1 .. m + 1 |-> IF k = m + 1 THEN v ELSE f[k]]
    OBVIOUS
  <2>5. g \in [1 .. m + 1 -> V]
    BY <2>3, <2>4
  <2>6. ASSUME NEW i \in 1 .. m + 1 PROVE g[i] = step[i][Before(g, i)]
    <3>1. CASE i = m + 1
      <4>1. Before(g, i) = f
        BY <2>4, <3>1 DEF Before
      <4>2. QED
        BY <2>2, <2>4, <3>1, <4>1
    <3>2. CASE i # m + 1
      <4>1. i \in 1 .. m
        BY <3>2
      <4>2. Before(g, i) = Before(f, i)
        BY <2>4, <4>1 DEF Before
      <4>3. QED
        BY <2>1, <2>4, <3>2, <4>1, <4>2
    <3>3. QED
      BY <3>1, <3>2
  <2>7. QED
    BY <2>5, <2>6
<1> HIDE DEF Good
<1>3. Bad = {}
  <2> SUFFICES ASSUME Bad # {} PROVE FALSE
    OBVIOUS
  <2>0. Bad \in SUBSET Nat
    OBVIOUS
  <2>1. PICK m \in Bad : \A k \in Bad : m <= k
    BY <2>0, LeastNatural
  <2>2. m # 0 /\ m \in 0 .. n
    BY <1>1
  <2>3. m - 1 \in 0 .. n - 1 /\ m - 1 \notin Bad
    BY <2>1, <2>2
  <2>4. Good(m - 1)
    BY <2>3
  <2>5. Good((m - 1) + 1)
    BY <1>2, <2>3, <2>4
  <2>6. QED
    BY <2>2, <2>5
<1>4. Good(n)
  BY <1>3
<1>5. QED
  BY <1>4 DEF Good

-----------------------------------------------------------------------------
(* Rule trees: children come before their parent.                           *)
Ordered(rules) ==
  /\ Len(rules) \in Nat
  /\ rules = [i \in 1 .. Len(rules) |-> rules[i]]
  /\ \A i \in 1 .. Len(rules) : Children(rules[i]) \subseteq 1 .. i - 1

(* sub is what stands under each node.                                      *)
IsUnder(rules, sub) ==
  sub = [i \in 1 .. Len(rules) |-> {i} \cup UNION {sub[k] : k \in Children(rules[i])}]

LEMMA UnderIs ==
  ASSUME NEW rules, Ordered(rules)
  PROVE  \E sub : /\ IsUnder(rules, sub)
                  /\ \A root : Under(rules, root) = IF root = 0 THEN {} ELSE sub[root]
                  /\ \A i \in 1 .. Len(rules) : sub[i] \subseteq 1 .. i
<1>1. PICK n \in Nat : n = Len(rules)
  BY DEF Ordered
<1> DEFINE V == SUBSET (1 .. n)
           kids(i) == Children(rules[i])
           step == [i \in 1 .. n |-> [g \in [1 .. i - 1 -> V] |-> {i} \cup UNION {g[k] : k \in kids(i)}]]
<1>2. \A i \in 1 .. n : kids(i) \subseteq 1 .. i - 1
  BY <1>1 DEF Ordered
<1>3. ASSUME NEW i \in 1 .. n, NEW g \in [1 .. i - 1 -> V] PROVE step[i][g] \in V
  <2>1. \A k \in kids(i) : g[k] \in V
    BY <1>2
  <2>2. {i} \cup UNION {g[k] : k \in kids(i)} \in V
    BY <2>1
  <2>3. QED
    BY <2>2
<1>4. PICK f \in [1 .. n -> V] : Follows(f, step, n)
  <2>1. Steps(step, n, V)
    BY <1>3 DEF Steps
  <2> HIDE DEF step, V
  <2>2. QED
    BY <2>1, Recursion
<1>5. ASSUME NEW i \in 1 .. n PROVE f[i] = {i} \cup UNION {f[k] : k \in kids(i)}
  <2>1. Before(f, i) \in [1 .. i - 1 -> V]
    BY DEF Before
  <2>2. PICK g \in [1 .. i - 1 -> V] : g = Before(f, i)
    BY <2>1
  <2>3. \A k \in kids(i) : g[k] = f[k]
    BY <1>2, <2>2 DEF Before
  <2>4. f[i] = {i} \cup UNION {g[k] : k \in kids(i)}
    <3>1. f[i] = step[i][g]
      BY <1>4, <2>2 DEF Follows
    <3>2. step[i][g] = {i} \cup UNION {g[k] : k \in kids(i)}
      OBVIOUS
    <3>3. QED
      BY <3>1, <3>2
  <2>5. QED
    BY <2>3, <2>4
<1>6. IsUnder(rules, f)
  <2>1. f = [i \in 1 .. n |-> f[i]]
    OBVIOUS
  <2>2. f = [i \in 1 .. n |-> {i} \cup UNION {f[k] : k \in kids(i)}]
    BY <1>5, <2>1
  <2>3. QED
    BY <1>1, <2>2 DEF IsUnder
<1>7. PICK sub : /\ sub = CHOOSE s : IsUnder(rules, s)
                 /\ IsUnder(rules, sub)
  BY <1>6
<1>8. \A root : Under(rules, root) = IF root = 0 THEN {} ELSE sub[root]
  BY <1>7 DEF Under, IsUnder
<1>9. \A i \in 1 .. n : sub[i] = {i} \cup UNION {sub[k] : k \in kids(i)}
  BY <1>1, <1>7 DEF IsUnder
<1>10. \A i \in 1 .. n : sub[i] \subseteq 1 .. i
  <2> DEFINE Bad == {i \in 1 .. n : ~(sub[i] \subseteq 1 .. i)}
  <2> SUFFICES ASSUME Bad # {} PROVE FALSE
    OBVIOUS
  <2>0. Bad \in SUBSET Nat
    OBVIOUS
  <2>1. PICK m \in Bad : \A k \in Bad : m <= k
    BY <2>0, LeastNatural
  <2>2. m \in 1 .. n /\ ~(sub[m] \subseteq 1 .. m)
    OBVIOUS
  <2>3. \A k \in kids(m) : k \in 1 .. m - 1 /\ k \in 1 .. n /\ k \notin Bad
    BY <1>2, <2>1, <2>2
  <2>4. \A k \in kids(m) : sub[k] \subseteq 1 .. k /\ k \in 1 .. m - 1
    BY <2>3
  <2>5. \A k \in kids(m) : sub[k] \subseteq 1 .. m
    BY <2>2, <2>4
  <2>6. sub[m] \subseteq 1 .. m
    BY <1>9, <2>2, <2>5
  <2>7. QED
    BY <2>2, <2>6
<1>11. QED
  BY <1>1, <1>7, <1>8, <1>10

LEMMA UnderIsUnique ==
  ASSUME NEW rules, Ordered(rules), NEW s, NEW t, IsUnder(rules, s), IsUnder(rules, t)
  PROVE  s = t
<1>1. PICK n \in Nat : n = Len(rules)
  BY DEF Ordered
<1> DEFINE Bad == {i \in 1 .. n : s[i] # t[i]}
<1>2. \A i \in 1 .. n : /\ s[i] = {i} \cup UNION {s[k] : k \in Children(rules[i])}
                        /\ t[i] = {i} \cup UNION {t[k] : k \in Children(rules[i])}
  BY <1>1 DEF IsUnder
<1>3. Bad = {}
  <2> SUFFICES ASSUME Bad # {} PROVE FALSE
    OBVIOUS
  <2>0. Bad \in SUBSET Nat
    OBVIOUS
  <2>1. PICK m \in Bad : \A k \in Bad : m <= k
    BY <2>0, LeastNatural
  <2>2. m \in 1 .. n /\ s[m] # t[m]
    OBVIOUS
  <2>3. \A k \in Children(rules[m]) : k \in 1 .. m - 1
    BY <1>1, <2>2 DEF Ordered
  <2>4. \A k \in Children(rules[m]) : s[k] = t[k]
    BY <2>1, <2>2, <2>3
  <2>5. s[m] = t[m]
    <3>1. UNION {s[k] : k \in Children(rules[m])} = UNION {t[k] : k \in Children(rules[m])}
      BY <2>4
    <3>2. QED
      BY <1>2, <2>2, <3>1
  <2>6. QED
    BY <2>2, <2>5
<1>4. s = [i \in 1 .. n |-> s[i]] /\ t = [i \in 1 .. n |-> t[i]]
  BY <1>1 DEF IsUnder
<1>5. QED
  BY <1>3, <1>4

(* What stands under a node depends on nothing but who is whose child.      *)
SameTree(a, b) == Len(a) = Len(b) /\ \A i \in 1 .. Len(a) : Children(a[i]) = Children(b[i])

LEMMA UnderIsTheTree ==
  ASSUME NEW a, NEW b, Ordered(a), Ordered(b), SameTree(a, b), NEW root
  PROVE  Under(a, root) = Under(b, root)
<1>1. PICK s : IsUnder(a, s) /\ Under(a, root) = IF root = 0 THEN {} ELSE s[root]
  BY UnderIs
<1>2. PICK t : IsUnder(b, t) /\ Under(b, root) = IF root = 0 THEN {} ELSE t[root]
  BY UnderIs
<1>3. IsUnder(b, s)
  BY <1>1 DEF IsUnder, SameTree
<1>4. s = t
  BY <1>2, <1>3, UnderIsUnique
<1>5. QED
  BY <1>1, <1>2, <1>4

(* A draft's tree, and the tree of what was read from it.                   *)
LEMMA DraftsAreOrdered ==
  ASSUME NEW d, IsDraft(d)
  PROVE  Ordered(d.rules)
<1>1. ASSUME NEW i \in 1 .. Len(d.rules) PROVE Children(d.rules[i]) \subseteq 1 .. i - 1
  BY <1>1 DEF IsDraft, IsNode, Children
<1>2. QED
  BY <1>1 DEF Ordered, IsDraft

(* A spec some parts of which are replaced.                                 *)
Parts(version, inputs, rules, entry, exit, sizing, costs) ==
  [version |-> version, inputs |-> inputs, rules |-> rules, entry |-> entry,
   exit |-> exit, sizing |-> sizing, costs |-> costs]

Written(s, inputs, rules) == [s EXCEPT !.inputs = inputs, !.rules = rules]
Settled(d, inputs, rules, costs) ==
  [d EXCEPT !.version = 1, !.inputs = inputs, !.rules = rules, !.costs = costs]

LEMMA TwoPartsReplaced ==
  ASSUME NEW version, NEW inputs, NEW rules, NEW entry, NEW exit, NEW sizing, NEW costs, NEW i, NEW r
  PROVE  Written(Parts(version, inputs, rules, entry, exit, sizing, costs), i, r)
           = Parts(version, i, r, entry, exit, sizing, costs)
<1> DEFINE d == Parts(version, inputs, rules, entry, exit, sizing, costs)
<1>1. [d EXCEPT !.inputs = i, !.rules = r] = [[d EXCEPT !.inputs = i] EXCEPT !.rules = r]
  OBVIOUS
<1>2. [d EXCEPT !.inputs = i] = Parts(version, i, rules, entry, exit, sizing, costs)
  BY DEF Parts
<1>3. [Parts(version, i, rules, entry, exit, sizing, costs) EXCEPT !.rules = r]
        = Parts(version, i, r, entry, exit, sizing, costs)
  BY DEF Parts
<1>4. QED
  BY <1>1, <1>2, <1>3 DEF Written

LEMMA FourPartsReplaced ==
  ASSUME NEW version, NEW inputs, NEW rules, NEW entry, NEW exit, NEW sizing, NEW costs,
         NEW i, NEW r, NEW c
  PROVE  Settled(Parts(version, inputs, rules, entry, exit, sizing, costs), i, r, c)
           = Parts(1, i, r, entry, exit, sizing, c)
<1> DEFINE d == Parts(version, inputs, rules, entry, exit, sizing, costs)
<1>1. [d EXCEPT !.version = 1, !.inputs = i, !.rules = r, !.costs = c]
        = [[[[d EXCEPT !.version = 1] EXCEPT !.inputs = i] EXCEPT !.rules = r] EXCEPT !.costs = c]
  OBVIOUS
<1>2. [d EXCEPT !.version = 1] = Parts(1, inputs, rules, entry, exit, sizing, costs)
  BY DEF Parts
<1>3. [Parts(1, inputs, rules, entry, exit, sizing, costs) EXCEPT !.inputs = i]
        = Parts(1, i, rules, entry, exit, sizing, costs)
  BY DEF Parts
<1>4. [Parts(1, i, rules, entry, exit, sizing, costs) EXCEPT !.rules = r]
        = Parts(1, i, r, entry, exit, sizing, costs)
  BY DEF Parts
<1>5. [Parts(1, i, r, entry, exit, sizing, costs) EXCEPT !.costs = c]
        = Parts(1, i, r, entry, exit, sizing, c)
  BY DEF Parts
<1>6. QED
  BY <1>1, <1>2, <1>3, <1>4, <1>5 DEF Settled

(* The parts of what was read.                                              *)
IsParsed(s, d, inputs, rules, costs) ==
  /\ inputs = ReadInputs(d.inputs) /\ rules = ReadRules(inputs, d.rules) /\ costs = ReadCosts(d.costs)
  /\ Accepted(d, inputs, rules, costs)
  /\ s = Parts(1, inputs, rules, d.entry, d.exit, d.sizing, costs)

LEMMA ParsedIs ==
  ASSUME NEW d, IsDraft(d), Parse(d) # Fault
  PROVE  \E inputs, rules, costs : IsParsed(Parse(d), d, inputs, rules, costs)
<1>1. PICK inputs, rules, costs :
        inputs = ReadInputs(d.inputs) /\ rules = ReadRules(inputs, d.rules) /\ costs = ReadCosts(d.costs)
  OBVIOUS
<1>2. Parse(d) = ParseWith(d, inputs, rules, costs)
  BY <1>1 DEF Parse
<1>3. /\ Accepted(d, inputs, rules, costs)
      /\ Parse(d) = Settled(d, inputs, rules, costs)
  BY <1>2 DEF ParseWith, Settled
<1>4. d = Parts(d.version, d.inputs, d.rules, d.entry, d.exit, d.sizing, d.costs)
  BY DEF IsDraft, Parts
<1>5. PICK version, in, r, entry, exit, sizing, c :
        d = Parts(version, in, r, entry, exit, sizing, c) /\ entry = d.entry /\ exit = d.exit /\ sizing = d.sizing
  BY <1>4
<1>6. Settled(Parts(version, in, r, entry, exit, sizing, c), inputs, rules, costs)
        = Parts(1, inputs, rules, entry, exit, sizing, costs)
  BY FourPartsReplaced
<1>7. Parse(d) = Parts(1, inputs, rules, d.entry, d.exit, d.sizing, costs)
  BY <1>3, <1>5, <1>6
<1>8. QED
  BY <1>1, <1>3, <1>7 DEF IsParsed

(* What a rule becomes when it is read and written.                         *)
Clean(rules) == \A i \in DOMAIN rules : rules[i] # Fault
WrittenRules(rules) == [i \in DOMAIN rules |-> EncodeNode(rules[i])]
SameButRead(rules, raws) ==
  /\ Ordered(rules) /\ Len(rules) = Len(raws)
  /\ \A i \in 1 .. Len(raws) :
       /\ rules[i].key = raws[i].key
       /\ rules[i].key \notin Comparators => rules[i] = raws[i]
SameUnder(rules, raws) == \A root : Under(rules, root) = Under(raws, root)

LEMMA ReadRulesAre ==
  ASSUME NEW d, IsDraft(d), NEW inputs, NEW rules, rules = ReadRules(inputs, d.rules), Clean(rules),
         NEW written, written = WrittenRules(rules)
  PROVE  /\ SameButRead(rules, d.rules)
         /\ SameUnder(written, d.rules)
         /\ ReadRules(inputs, written) = rules
<1>1. PICK n \in Nat : n = Len(d.rules) /\ DOMAIN d.rules = 1 .. n
  BY DEF IsDraft
<1>2. /\ rules = [i \in 1 .. n |-> ReadNode(inputs, d.rules[i])]
      /\ DOMAIN rules = 1 .. n
      /\ written = [i \in 1 .. n |-> EncodeNode(ReadNode(inputs, d.rules[i]))]
  BY <1>1 DEF ReadRules, WrittenRules
<1>3. Len(rules) = n /\ Len(written) = n
  BY <1>2
<1>4. \A i \in 1 .. n : IsNode(d.rules[i], i) /\ ReadNode(inputs, d.rules[i]) # Fault
  BY <1>1, <1>2 DEF IsDraft, Clean
<1>5. \A i \in 1 .. n :
        /\ ReadNode(inputs, written[i]) = rules[i]
        /\ rules[i].key = d.rules[i].key
        /\ written[i].key = d.rules[i].key
        /\ d.rules[i].key \notin Comparators => rules[i] = d.rules[i] /\ written[i] = d.rules[i]
  BY <1>2, <1>4, NodeIsReadAgain
<1>6. \A i \in 1 .. n : Children(rules[i]) = Children(d.rules[i])
                        /\ Children(written[i]) = Children(d.rules[i])
  <2> SUFFICES ASSUME NEW i \in 1 .. n
               PROVE  Children(rules[i]) = Children(d.rules[i])
                      /\ Children(written[i]) = Children(d.rules[i])
    OBVIOUS
  <2>1. CASE d.rules[i].key \in Comparators
    <3>1. d.rules[i].key \notin Combinators
      BY <2>1 DEF Comparators, Combinators, Plain, Crossings, Trends
    <3>2. QED
      BY <1>5, <3>1 DEF Children
  <2>2. CASE d.rules[i].key \notin Comparators
    BY <1>5, <2>2
  <2>3. QED
    BY <2>1, <2>2
<1>7. Ordered(d.rules)
  BY DraftsAreOrdered
<1>8. Ordered(rules) /\ Ordered(written)
  BY <1>1, <1>2, <1>3, <1>6, <1>7 DEF Ordered
<1>9. SameTree(rules, d.rules) /\ SameTree(written, d.rules)
  BY <1>1, <1>3, <1>6 DEF SameTree
<1>10. ASSUME NEW root
       PROVE  Under(rules, root) = Under(d.rules, root) /\ Under(written, root) = Under(d.rules, root)
  BY <1>7, <1>8, <1>9, UnderIsTheTree
<1>11. ReadRules(inputs, written) = rules
  BY <1>2, <1>5 DEF ReadRules
<1>12. \A i \in 1 .. Len(d.rules) : rules[i].key = d.rules[i].key
                                   /\ (rules[i].key \notin Comparators => rules[i] = d.rules[i])
  BY <1>1, <1>5
<1>13. QED
  BY <1>1, <1>3, <1>8, <1>10, <1>11, <1>12 DEF SameButRead, SameUnder

(* What is saved is read again as it is.                                    *)
LEMMA SpecIsReadAgain ==
  ASSUME NEW d, IsDraft(d), Parse(d) # Fault
  PROVE  Parse(Encode(Parse(d))) = Parse(d)
<1>1. PICK inputs, rules, costs : IsParsed(Parse(d), d, inputs, rules, costs)
  BY ParsedIs
<1>2. PICK s : s = Parse(d)
  OBVIOUS
<1>3. PICK wi, wr : /\ wi = [n \in DOMAIN inputs |-> EncodeInput(inputs[n])]
                    /\ wr = WrittenRules(rules)
  OBVIOUS
<1>4. PICK e : e = Parts(1, wi, wr, d.entry, d.exit, d.sizing, costs)
  OBVIOUS
<1>5. Encode(s) = e
  <2>1. s = Parts(1, inputs, rules, d.entry, d.exit, d.sizing, costs)
    BY <1>1, <1>2 DEF IsParsed
  <2>2. s.inputs = inputs /\ s.rules = rules
    BY <2>1 DEF Parts
  <2>3. Encode(s) = Written(s, wi, wr)
    BY <1>3, <2>2 DEF Encode, Written, WrittenRules
  <2>4. QED
    BY <1>4, <2>1, <2>3, TwoPartsReplaced
<1>6. /\ inputs = ReadInputs(d.inputs) /\ inputs # Fault
      /\ rules = ReadRules(inputs, d.rules) /\ Clean(rules)
      /\ costs = ReadCosts(d.costs) /\ costs # Fault
  BY <1>1 DEF IsParsed, Accepted, Clean
<1>7. ReadInputs(wi) = inputs
  <2>1. DOMAIN inputs = DOMAIN d.inputs
    BY <1>6 DEF ReadInputs
  <2>2. wi = [n \in DOMAIN d.inputs |-> EncodeInput(ReadInputs(d.inputs)[n])]
    BY <1>3, <1>6, <2>1
  <2>3. QED
    BY <1>6, <2>2, InputsAreReadAgain
<1>8. ReadRules(inputs, wr) = rules /\ SameUnder(wr, d.rules)
  BY <1>3, <1>6, ReadRulesAre
<1>9. ReadCosts(costs) = costs
  BY <1>6, CostsAreReadAgain
<1>10. /\ e.inputs = wi /\ e.rules = wr /\ e.costs = costs /\ e.version = 1
       /\ e.entry = d.entry /\ e.exit = d.exit /\ e.sizing = d.sizing
  BY <1>4 DEF Parts
<1>11. Accepted(e, inputs, rules, costs)
  <2>1. Accepted(d, inputs, rules, costs)
    BY <1>1 DEF IsParsed
  <2>2. RiskHasStops(rules, e)
    BY <1>10, <2>1 DEF Accepted, RiskHasStops
  <2>3. QED
    BY <1>8, <1>10, <2>1, <2>2 DEF Accepted, SameUnder
<1>12. Parse(e) = Settled(e, inputs, rules, costs)
  BY <1>7, <1>8, <1>9, <1>10, <1>11 DEF Parse, ParseWith, Settled
<1>13. Settled(e, inputs, rules, costs) = s
  BY <1>1, <1>2, <1>4, FourPartsReplaced DEF IsParsed
<1>14. QED
  BY <1>2, <1>5, <1>12, <1>13

-----------------------------------------------------------------------------
(* The depths a node may stand at.                                          *)
IsRule(rules, rule) ==
  rule = [i \in 1 .. Len(rules) |->
            {depth \in 1 .. MaxDepth :
               rules[i].key \notin Brackets /\ \A k \in Children(rules[i]) : depth + 1 \in rule[k]}]
IsExit(rules, rule, exit) ==
  exit = [i \in 1 .. Len(rules) |->
            {depth \in 1 .. MaxDepth : \A k \in Children(rules[i]) :
               depth + 1 \in IF rules[i].key = "any" THEN exit[k] ELSE rule[k]}]

LEMMA RuleExists ==
  ASSUME NEW rules, Ordered(rules)
  PROVE  \E rule : IsRule(rules, rule)
<1>1. PICK n \in Nat : n = Len(rules)
  BY DEF Ordered
<1> DEFINE V == SUBSET (1 .. MaxDepth)
           now(i, g) == {depth \in 1 .. MaxDepth :
                           rules[i].key \notin Brackets /\ \A k \in Children(rules[i]) : depth + 1 \in g[k]}
           step == [i \in 1 .. n |-> [g \in [1 .. i - 1 -> V] |-> now(i, g)]]
<1>2. \A i \in 1 .. n : Children(rules[i]) \subseteq 1 .. i - 1
  BY <1>1 DEF Ordered
<1>3. PICK f \in [1 .. n -> V] : Follows(f, step, n)
  <2>1. Steps(step, n, V)
    BY DEF Steps
  <2> HIDE DEF step, V
  <2>2. QED
    BY <2>1, Recursion
<1>4. ASSUME NEW i \in 1 .. n PROVE f[i] = now(i, f)
  <2>1. PICK g : g = Before(f, i)
    OBVIOUS
  <2>2. g \in [1 .. i - 1 -> V] /\ \A k \in Children(rules[i]) : g[k] = f[k]
    BY <1>2, <2>1 DEF Before
  <2>3. f[i] = now(i, g)
    <3> HIDE DEF now, V
    <3>1. QED
      BY <1>3, <2>1, <2>2 DEF Follows
  <2>4. now(i, g) = now(i, f)
    BY <2>2
  <2>5. QED
    BY <2>3, <2>4
<1>5. f = [i \in 1 .. n |-> f[i]]
  OBVIOUS
<1>6. f = [i \in 1 .. n |-> now(i, f)]
  <2> HIDE DEF now
  <2>1. QED
    BY <1>4, <1>5
<1>7. QED
  BY <1>1, <1>6 DEF IsRule

LEMMA ExitExists ==
  ASSUME NEW rules, Ordered(rules), NEW rule
  PROVE  \E exit : IsExit(rules, rule, exit)
<1>1. PICK n \in Nat : n = Len(rules)
  BY DEF Ordered
<1> DEFINE V == SUBSET (1 .. MaxDepth)
           now(i, g) == {depth \in 1 .. MaxDepth : \A k \in Children(rules[i]) :
                           depth + 1 \in IF rules[i].key = "any" THEN g[k] ELSE rule[k]}
           step == [i \in 1 .. n |-> [g \in [1 .. i - 1 -> V] |-> now(i, g)]]
<1>2. \A i \in 1 .. n : Children(rules[i]) \subseteq 1 .. i - 1
  BY <1>1 DEF Ordered
<1>3. PICK f \in [1 .. n -> V] : Follows(f, step, n)
  <2>1. Steps(step, n, V)
    BY DEF Steps
  <2> HIDE DEF step, V
  <2>2. QED
    BY <2>1, Recursion
<1>4. ASSUME NEW i \in 1 .. n PROVE f[i] = now(i, f)
  <2>1. PICK g : g = Before(f, i)
    OBVIOUS
  <2>2. g \in [1 .. i - 1 -> V] /\ \A k \in Children(rules[i]) : g[k] = f[k]
    BY <1>2, <2>1 DEF Before
  <2>3. f[i] = now(i, g)
    <3> HIDE DEF now, V
    <3>1. QED
      BY <1>3, <2>1, <2>2 DEF Follows
  <2>4. now(i, g) = now(i, f)
    BY <2>2
  <2>5. QED
    BY <2>3, <2>4
<1>5. f = [i \in 1 .. n |-> f[i]]
  OBVIOUS
<1>6. f = [i \in 1 .. n |-> now(i, f)]
  <2> HIDE DEF now
  <2>1. QED
    BY <1>4, <1>5
<1>7. QED
  BY <1>1, <1>6 DEF IsExit

LEMMA ReadableIs ==
  ASSUME NEW rules, Ordered(rules)
  PROVE  \E rule, exit :
           /\ IsRule(rules, rule) /\ IsExit(rules, rule, exit)
           /\ \A root : /\ Readable(rules, root, FALSE) => 1 \in rule[root]
                        /\ Readable(rules, root, TRUE) => 1 \in exit[root]
<1> DEFINE rule == CHOOSE s : IsRule(rules, s)
           exit == CHOOSE s : IsExit(rules, rule, s)
<1>1. IsRule(rules, rule)
  BY RuleExists
<1>2. IsExit(rules, rule, exit)
  BY ExitExists
<1>3. ASSUME NEW root, NEW brackets
      PROVE  Readable(rules, root, brackets) <=> (1 \in IF brackets THEN exit[root] ELSE rule[root])
  BY DEF Readable, IsRule, IsExit
<1> HIDE DEF rule, exit
<1>4. QED
  BY <1>1, <1>2, <1>3

-----------------------------------------------------------------------------
(* What is left of an exit.                                                 *)
IsKept(nodes, kept) ==
  kept = [k \in 0 .. Len(nodes) |->
            IF k = 0 THEN <<>> ELSE IF nodes[k] = 0 THEN kept[k - 1] ELSE Append(kept[k - 1], nodes[k])]

LEMMA PresentIs ==
  ASSUME NEW m \in Nat, NEW T, NEW nodes, nodes = [k \in 1 .. m |-> nodes[k]],
         \A k \in 1 .. m : nodes[k] # 0 => nodes[k] \in T
  PROVE  /\ Present(nodes) \in Seq(T)
         /\ \E kept \in [0 .. m -> Seq(T)] : IsKept(nodes, kept) /\ Present(nodes) = kept[m]
<1> DEFINE V == Seq(T)
           now(i, g) == IF i = 1 THEN <<>>
                        ELSE IF nodes[i - 1] = 0 THEN g[i - 1] ELSE Append(g[i - 1], nodes[i - 1])
           step == [i \in 1 .. m + 1 |-> [g \in [1 .. i - 1 -> V] |-> now(i, g)]]
<1>1. PICK f \in [1 .. m + 1 -> V] : Follows(f, step, m + 1)
  <2>1. ASSUME NEW i \in 1 .. m + 1, NEW g \in [1 .. i - 1 -> V] PROVE now(i, g) \in V
    <3>1. CASE i = 1
      BY <3>1
    <3>2. CASE i # 1
      <4>1. i - 1 \in 1 .. i - 1 /\ i - 1 \in 1 .. m
        BY <3>2
      <4>2. PICK s \in Seq(T) : s = g[i - 1]
        BY <4>1
      <4>3. nodes[i - 1] # 0 => Append(s, nodes[i - 1]) \in Seq(T)
        BY <4>1, <4>2
      <4>4. QED
        BY <3>2, <4>2, <4>3
    <3>3. QED
      BY <3>1, <3>2
  <2>2. Steps(step, m + 1, V)
    <3> HIDE DEF now, V
    <3>1. QED
      BY <2>1 DEF Steps
  <2>3. PICK n \in Nat : n = m + 1
    OBVIOUS
  <2> HIDE DEF step, V
  <2>4. \E f \in [1 .. n -> V] : Follows(f, step, n)
    BY <2>2, <2>3, Recursion
  <2>5. QED
    BY <2>3, <2>4
<1>2. PICK kept : kept = [k \in 0 .. m |-> f[k + 1]]
  OBVIOUS
<1>3. ASSUME NEW k \in 0 .. m
      PROVE  kept[k] = IF k = 0 THEN <<>>
                       ELSE IF nodes[k] = 0 THEN kept[k - 1] ELSE Append(kept[k - 1], nodes[k])
  <2>1. PICK i \in 1 .. m + 1 : i = k + 1
    OBVIOUS
  <2>2. PICK g : g = Before(f, i)
    OBVIOUS
  <2>3. g \in [1 .. i - 1 -> V]
    BY <2>2 DEF Before
  <2>4. f[i] = now(i, g)
    <3> HIDE DEF now, V
    <3>1. QED
      BY <1>1, <2>2, <2>3 DEF Follows
  <2>5. k # 0 => g[i - 1] = f[i - 1] /\ kept[k - 1] = f[i - 1] /\ nodes[i - 1] = nodes[k]
    BY <1>2, <2>1, <2>2 DEF Before
  <2>6. kept[k] = f[i]
    BY <1>2, <2>1
  <2>7. QED
    BY <2>1, <2>4, <2>5, <2>6
<1>4. Len(nodes) = m
  OBVIOUS
<1>5. IsKept(nodes, kept)
  BY <1>2, <1>3, <1>4 DEF IsKept
<1> DEFINE chosen == CHOOSE s : IsKept(nodes, s)
<1>6. IsKept(nodes, chosen)
  BY <1>5
<1>7. Present(nodes) = chosen[m]
  BY <1>4 DEF Present, IsKept
<1> HIDE DEF chosen
<1>8. \A k \in 0 .. m : chosen[k] = kept[k]
  <2> DEFINE Bad == {k \in 0 .. m : chosen[k] # kept[k]}
  <2> SUFFICES ASSUME Bad # {} PROVE FALSE
    OBVIOUS
  <2>0. Bad \in SUBSET Nat
    OBVIOUS
  <2>1. PICK k \in Bad : \A j \in Bad : k <= j
    BY <2>0, LeastNatural
  <2>2. k \in 0 .. m /\ chosen[k] # kept[k]
    OBVIOUS
  <2>3. k # 0 => k - 1 \in 0 .. m /\ k - 1 \notin Bad
    BY <2>1, <2>2
  <2>4. k # 0 => chosen[k - 1] = kept[k - 1]
    BY <2>3
  <2>5. chosen[k] = IF k = 0 THEN <<>>
                    ELSE IF nodes[k] = 0 THEN chosen[k - 1] ELSE Append(chosen[k - 1], nodes[k])
    BY <1>4, <1>6, <2>2 DEF IsKept
  <2>6. QED
    BY <1>3, <2>2, <2>4, <2>5
<1>9. kept \in [0 .. m -> Seq(T)]
  BY <1>1, <1>2
<1>10. Present(nodes) = kept[m]
  BY <1>7, <1>8
<1>11. Present(nodes) \in Seq(T)
  BY <1>9, <1>10
<1>12. QED
  BY <1>5, <1>9, <1>10, <1>11

(* The alternatives of an any are a sequence of nodes.                      *)
IsTree(rules) ==
  /\ Ordered(rules)
  /\ \A i \in 1 .. Len(rules) : rules[i].key = "any" =>
       /\ rules[i] = [key |-> "any", of |-> rules[i].of]
       /\ Len(rules[i].of) \in Nat /\ rules[i].of = [k \in 1 .. Len(rules[i].of) |-> rules[i].of[k]]

Alternatives(rules, left, i) == Present([k \in DOMAIN rules[i].of |-> left[rules[i].of[k]]])
LeftBelow(rules, left, i) == {left[c] : c \in Children(rules[i])} \ {0}

LeftAt(rules, left, i) ==
  CASE rules[i].key \in Brackets -> 0
    [] rules[i].key = "any" ->
         IF Alternatives(rules, left, i) = <<>> THEN 0
         ELSE IF Len(Alternatives(rules, left, i)) = 1 THEN Alternatives(rules, left, i)[1] ELSE i
    [] OTHER -> i
IsResidual(rules, left) == left = [i \in 1 .. Len(rules) |-> LeftAt(rules, left, i)]

LEMMA AlternativesAre ==
  ASSUME NEW rules, IsTree(rules), NEW left, NEW i \in 1 .. Len(rules), rules[i].key = "any"
  PROVE  /\ Alternatives(rules, left, i) \in Seq(LeftBelow(rules, left, i))
         /\ \A other : (\A k \in 1 .. i - 1 : other[k] = left[k])
                          => Alternatives(rules, other, i) = Alternatives(rules, left, i)
<1>0. PICK of : of = rules[i].of
  OBVIOUS
<1>1. PICK m \in Nat : of = rules[i].of /\ m = Len(of) /\ of = [k \in 1 .. m |-> of[k]]
  BY <1>0 DEF IsTree
<1>2. \A k \in 1 .. m : of[k] \in Children(rules[i]) /\ of[k] \in 1 .. i - 1
  <2>1. Children(rules[i]) = {of[k] : k \in 1 .. m}
    BY <1>1 DEF Children, ToSet, Combinators
  <2>2. QED
    BY <2>1 DEF IsTree, Ordered
<1>3. PICK T : T = LeftBelow(rules, left, i)
  OBVIOUS
<1>4. PICK nodes : nodes = [k \in 1 .. m |-> left[of[k]]]
  OBVIOUS
<1>5. \A k \in 1 .. m : nodes[k] # 0 => nodes[k] \in T
  BY <1>2, <1>3, <1>4 DEF LeftBelow
<1>6. nodes = [k \in 1 .. m |-> nodes[k]]
  BY <1>4
<1>7. Present(nodes) \in Seq(T)
  BY <1>5, <1>6, PresentIs
<1>8. DOMAIN of = 1 .. m
  BY <1>1
<1>9. Alternatives(rules, left, i) = Present(nodes)
  BY <1>1, <1>4, <1>8 DEF Alternatives
<1>10. ASSUME NEW other, \A k \in 1 .. i - 1 : other[k] = left[k]
       PROVE  Alternatives(rules, other, i) = Alternatives(rules, left, i)
  <2>1. \A k \in 1 .. m : other[of[k]] = left[of[k]]
    BY <1>2, <1>10
  <2>2. [k \in 1 .. m |-> other[of[k]]] = nodes
    BY <1>4, <2>1
  <2>3. QED
    BY <1>1, <1>8, <1>9, <2>2 DEF Alternatives
<1>11. QED
  BY <1>3, <1>7, <1>9, <1>10

LEMMA LeftAtIs ==
  ASSUME NEW rules, IsTree(rules), NEW left, NEW i \in 1 .. Len(rules)
  PROVE  /\ rules[i].key \in Brackets => LeftAt(rules, left, i) = 0
         /\ rules[i].key = "any" => LeftAt(rules, left, i) \in LeftBelow(rules, left, i) \cup {0, i}
         /\ rules[i].key \notin Brackets \cup {"any"} => LeftAt(rules, left, i) = i
         /\ \A other : (\A k \in 1 .. i - 1 : other[k] = left[k])
                          => LeftAt(rules, other, i) = LeftAt(rules, left, i)
<1>1. CASE rules[i].key \in Brackets
  BY <1>1 DEF LeftAt, Brackets
<1>2. CASE rules[i].key = "any"
  <2>1. PICK alts \in Seq(LeftBelow(rules, left, i)) :
          /\ alts = Alternatives(rules, left, i)
          /\ \A other : (\A k \in 1 .. i - 1 : other[k] = left[k])
                           => Alternatives(rules, other, i) = alts
    BY <1>2, AlternativesAre
  <2>2. Len(alts) = 1 => alts[1] \in LeftBelow(rules, left, i)
    OBVIOUS
  <2>3. rules[i].key \notin Brackets
    BY <1>2 DEF Brackets
  <2>4. LeftAt(rules, left, i) = IF alts = <<>> THEN 0 ELSE IF Len(alts) = 1 THEN alts[1] ELSE i
    BY <1>2, <2>1, <2>3 DEF LeftAt
  <2>5. ASSUME NEW other, \A k \in 1 .. i - 1 : other[k] = left[k]
        PROVE  LeftAt(rules, other, i) = LeftAt(rules, left, i)
    <3>1. Alternatives(rules, other, i) = alts
      BY <2>1, <2>5
    <3>2. QED
      BY <1>2, <2>3, <2>4, <3>1 DEF LeftAt
  <2>6. QED
    BY <1>2, <2>2, <2>3, <2>4, <2>5
<1>3. CASE rules[i].key \notin Brackets \cup {"any"}
  BY <1>3 DEF LeftAt
<1>4. QED
  BY <1>1, <1>2, <1>3

LEMMA ResidualExists ==
  ASSUME NEW rules, IsTree(rules)
  PROVE  \E left : IsResidual(rules, left)
<1>1. PICK n \in Nat : n = Len(rules)
  BY DEF IsTree, Ordered
<1> DEFINE V == 0 .. n
           step == [i \in 1 .. n |-> [g \in [1 .. i - 1 -> V] |-> LeftAt(rules, g, i)]]
<1>2. PICK f \in [1 .. n -> V] : Follows(f, step, n)
  <2>1. ASSUME NEW i \in 1 .. n, NEW g \in [1 .. i - 1 -> V] PROVE LeftAt(rules, g, i) \in V
    <3>1. LeftBelow(rules, g, i) \subseteq V
      BY <1>1 DEF LeftBelow, IsTree, Ordered
    <3>2. QED
      BY <1>1, <3>1, LeftAtIs
  <2>2. Steps(step, n, V)
    BY <2>1 DEF Steps
  <2> HIDE DEF step, V
  <2>3. QED
    BY <2>2, Recursion
<1>3. ASSUME NEW i \in 1 .. n PROVE f[i] = LeftAt(rules, f, i)
  <2>1. PICK g : g = Before(f, i)
    OBVIOUS
  <2>2. g \in [1 .. i - 1 -> V] /\ \A k \in 1 .. i - 1 : g[k] = f[k]
    BY <2>1 DEF Before
  <2>3. f[i] = LeftAt(rules, g, i)
    BY <1>2, <2>1, <2>2 DEF Follows
  <2>4. LeftAt(rules, g, i) = LeftAt(rules, f, i)
    BY <1>1, <2>2, LeftAtIs
  <2>5. QED
    BY <2>3, <2>4
<1>4. f = [i \in 1 .. n |-> f[i]]
  OBVIOUS
<1>5. f = [i \in 1 .. n |-> LeftAt(rules, f, i)]
  BY <1>3, <1>4
<1>6. QED
  BY <1>1, <1>5 DEF IsResidual

LEMMA ResidualIs ==
  ASSUME NEW rules, IsTree(rules)
  PROVE  IsResidual(rules, Residual(rules))
<1> DEFINE chosen == CHOOSE s : IsResidual(rules, s)
<1>1. IsResidual(rules, chosen)
  BY ResidualExists
<1>2. Residual(rules) = chosen
  BY DEF Residual, IsResidual, LeftAt, Alternatives
<1>3. QED
  BY <1>1, <1>2

(* What hoist visits below a node.                                          *)
IsVisited(rules, sub) ==
  sub = [i \in 1 .. Len(rules) |->
           {i} \cup (IF rules[i].key = "any" THEN UNION {sub[k] : k \in ToSet(rules[i].of)} ELSE {})]

LEMMA VisitedIs ==
  ASSUME NEW rules, Ordered(rules)
  PROVE  \E sub : /\ IsVisited(rules, sub)
                  /\ \A root : Visited(rules, root) = IF root = 0 THEN {} ELSE sub[root]
<1>1. PICK n \in Nat : n = Len(rules)
  BY DEF Ordered
<1> DEFINE V == SUBSET (1 .. n)
           now(i, g) == {i} \cup (IF rules[i].key = "any" THEN UNION {g[k] : k \in ToSet(rules[i].of)} ELSE {})
           step == [i \in 1 .. n |-> [g \in [1 .. i - 1 -> V] |-> now(i, g)]]
<1>2. \A i \in 1 .. n : rules[i].key = "any" => ToSet(rules[i].of) \subseteq 1 .. i - 1
  BY <1>1 DEF Ordered, Children, Combinators
<1>3. PICK f \in [1 .. n -> V] : Follows(f, step, n)
  <2>1. ASSUME NEW i \in 1 .. n, NEW g \in [1 .. i - 1 -> V] PROVE now(i, g) \in V
    <3>1. rules[i].key = "any" => \A k \in ToSet(rules[i].of) : g[k] \in V
      BY <1>2
    <3>2. rules[i].key = "any" => UNION {g[k] : k \in ToSet(rules[i].of)} \in V
      BY <3>1
    <3>3. QED
      BY <3>2
  <2>2. Steps(step, n, V)
    BY <2>1 DEF Steps
  <2> HIDE DEF step, V
  <2>3. QED
    BY <2>2, Recursion
<1>4. ASSUME NEW i \in 1 .. n PROVE f[i] = now(i, f)
  <2>1. PICK g : g = Before(f, i)
    OBVIOUS
  <2>2. g \in [1 .. i - 1 -> V] /\ \A k \in 1 .. i - 1 : g[k] = f[k]
    BY <2>1 DEF Before
  <2>3. f[i] = now(i, g)
    <3> HIDE DEF now, V
    <3>1. QED
      BY <1>3, <2>1, <2>2 DEF Follows
  <2>4. rules[i].key = "any" =>
          UNION {g[k] : k \in ToSet(rules[i].of)} = UNION {f[k] : k \in ToSet(rules[i].of)}
    BY <1>2, <2>2
  <2>5. now(i, g) = now(i, f)
    BY <2>4
  <2>6. QED
    BY <2>3, <2>5
<1>5. f = [i \in 1 .. n |-> f[i]]
  OBVIOUS
<1>6. f = [i \in 1 .. n |-> now(i, f)]
  <2> HIDE DEF now
  <2>1. QED
    BY <1>4, <1>5
<1> DEFINE chosen == CHOOSE s : IsVisited(rules, s)
<1>7. IsVisited(rules, f)
  BY <1>1, <1>6 DEF IsVisited
<1>8. IsVisited(rules, chosen)
  BY <1>7
<1>9. \A root : Visited(rules, root) = IF root = 0 THEN {} ELSE chosen[root]
  BY DEF Visited, IsVisited
<1>10. QED
  BY <1>8, <1>9

AllVisited(rules, exits) == UNION {Visited(rules, r) : r \in exits}

(* The rules that are left when the brackets are hoisted.                   *)
LEMMA HoistedIs ==
  ASSUME NEW rules, IsTree(rules), NEW exits, NEW visited,
         visited = AllVisited(rules, exits),
         NEW left, left = Residual(rules)
  PROVE  /\ Ordered(Hoisted(rules, exits)) /\ Len(Hoisted(rules, exits)) = Len(rules)
         /\ \A i \in 1 .. Len(rules) :
              /\ Hoisted(rules, exits)[i].key = rules[i].key
              /\ (i \notin visited \/ rules[i].key # "any") => Hoisted(rules, exits)[i] = rules[i]
              /\ (i \in visited /\ rules[i].key = "any") =>
                   Children(Hoisted(rules, exits)[i]) \subseteq LeftBelow(rules, left, i)
         /\ \A i \in 1 .. Len(rules) : left[i] \in 0 .. i
<1>1. PICK n \in Nat : n = Len(rules) /\ DOMAIN rules = 1 .. n
  BY DEF IsTree, Ordered
<1>2. PICK hoisted : hoisted = Hoisted(rules, exits)
  OBVIOUS
<1>3. hoisted = [i \in 1 .. n |->
                   IF i \notin visited \/ rules[i].key # "any" THEN rules[i]
                   ELSE [rules[i] EXCEPT !.of = Alternatives(rules, left, i)]]
  BY <1>1, <1>2 DEF Hoisted, Alternatives, AllVisited
<1>4. \A i \in 1 .. n : left[i] = LeftAt(rules, left, i)
  BY <1>1, ResidualIs DEF IsResidual
<1>5. \A i \in 1 .. n : left[i] \in 0 .. i
  <2> DEFINE Bad == {i \in 1 .. n : left[i] \notin 0 .. i}
  <2> SUFFICES ASSUME Bad # {} PROVE FALSE
    OBVIOUS
  <2>0. Bad \in SUBSET Nat
    OBVIOUS
  <2>1. PICK m \in Bad : \A k \in Bad : m <= k
    BY <2>0, LeastNatural
  <2>2. m \in 1 .. n /\ left[m] \notin 0 .. m
    OBVIOUS
  <2>3. Children(rules[m]) \subseteq 1 .. m - 1
    BY <1>1, <2>2 DEF IsTree, Ordered
  <2>4. \A c \in Children(rules[m]) : left[c] \in 0 .. c
    BY <2>1, <2>2, <2>3
  <2>5. LeftBelow(rules, left, m) \subseteq 0 .. m
    BY <2>2, <2>3, <2>4 DEF LeftBelow
  <2>6. LeftAt(rules, left, m) \in 0 .. m
    BY <1>1, <2>2, <2>5, LeftAtIs
  <2>7. QED
    BY <1>4, <2>2, <2>6
<1>6. ASSUME NEW i \in 1 .. n, i \in visited, rules[i].key = "any"
      PROVE  hoisted[i].key = rules[i].key /\ Children(hoisted[i]) \subseteq LeftBelow(rules, left, i)
  <2>1. PICK alts \in Seq(LeftBelow(rules, left, i)) : alts = Alternatives(rules, left, i)
    BY <1>1, <1>6, AlternativesAre
  <2>2. PICK of : rules[i] = [key |-> "any", of |-> of]
    BY <1>1, <1>6 DEF IsTree
  <2>3. hoisted[i] = [rules[i] EXCEPT !.of = alts]
    BY <1>3, <1>6, <2>1
  <2>4. hoisted[i].key = "any" /\ hoisted[i].of = alts
    BY <2>2, <2>3
  <2>5. ToSet(alts) \subseteq LeftBelow(rules, left, i)
    BY <2>1 DEF ToSet
  <2>6. QED
    BY <1>6, <2>4, <2>5 DEF Children
<1>7. ASSUME NEW i \in 1 .. n, i \notin visited \/ rules[i].key # "any" PROVE hoisted[i] = rules[i]
  BY <1>3, <1>7
<1>8. Len(hoisted) = n /\ hoisted = [i \in 1 .. n |-> hoisted[i]]
  BY <1>3
<1>9. \A i \in 1 .. n : Children(hoisted[i]) \subseteq 1 .. i - 1
  <2> SUFFICES ASSUME NEW i \in 1 .. n PROVE Children(hoisted[i]) \subseteq 1 .. i - 1
    OBVIOUS
  <2>1. Children(rules[i]) \subseteq 1 .. i - 1
    BY <1>1 DEF IsTree, Ordered
  <2>2. CASE i \in visited /\ rules[i].key = "any"
    <3>1. LeftBelow(rules, left, i) \subseteq 1 .. i - 1
      BY <1>5, <2>1 DEF LeftBelow
    <3>2. QED
      BY <1>6, <2>2, <3>1
  <2>3. CASE ~(i \in visited /\ rules[i].key = "any")
    BY <1>7, <2>1, <2>3
  <2>4. QED
    BY <2>2, <2>3
<1>10. Ordered(hoisted)
  BY <1>8, <1>9 DEF Ordered
<1>11. QED
  BY <1>1, <1>2, <1>5, <1>6, <1>7, <1>8, <1>10

(* Under a node, and what the depths say of it.                             *)
LEMMA UnderUnfolds ==
  ASSUME NEW rules, Ordered(rules), NEW u, IsUnder(rules, u), NEW i \in 1 .. Len(rules)
  PROVE  /\ i \in u[i]
         /\ \A c \in Children(rules[i]) : c \in 1 .. i - 1 /\ u[c] \subseteq u[i]
         /\ \A j \in u[i] : j = i \/ \E c \in Children(rules[i]) : j \in u[c]
<1>1. u[i] = {i} \cup UNION {u[k] : k \in Children(rules[i])}
  BY DEF IsUnder, Ordered
<1>2. QED
  BY <1>1 DEF Ordered

(* No bracket stands under a condition.                                     *)
LEMMA ConditionsAreFree ==
  ASSUME NEW rules, Ordered(rules), NEW u, IsUnder(rules, u), NEW rule, IsRule(rules, rule),
         NEW i \in 1 .. Len(rules), NEW depth, depth \in rule[i], NEW j \in u[i]
  PROVE  rules[j].key \notin Brackets
<1>1. PICK n \in Nat : n = Len(rules)
  BY DEF Ordered
<1> DEFINE Good(k) == \A d \in rule[k] : \A l \in u[k] : rules[l].key \notin Brackets
           Bad == {k \in 1 .. n : ~Good(k)}
<1>2. Bad = {}
  <2> SUFFICES ASSUME Bad # {} PROVE FALSE
    OBVIOUS
  <2>0. Bad \in SUBSET Nat
    OBVIOUS
  <2>1. PICK m \in Bad : \A k \in Bad : m <= k
    BY <2>0, LeastNatural
  <2>2. m \in 1 .. n /\ ~Good(m)
    OBVIOUS
  <2>3. PICK d \in rule[m], l \in u[m] : rules[l].key \in Brackets
    BY <2>2
  <2>4. rules[m].key \notin Brackets /\ \A k \in Children(rules[m]) : d + 1 \in rule[k]
    <3>1. rule[m] = {x \in 1 .. MaxDepth :
                       rules[m].key \notin Brackets /\ \A k \in Children(rules[m]) : x + 1 \in rule[k]}
      BY <1>1, <2>2 DEF IsRule
    <3>2. QED
      BY <2>3, <3>1
  <2>5. PICK c \in Children(rules[m]) : l \in u[c]
    <3>1. \A x \in u[m] : x = m \/ \E c \in Children(rules[m]) : x \in u[c]
      BY <1>1, <2>2, UnderUnfolds
    <3>2. QED
      BY <2>3, <2>4, <3>1
  <2>6. c \in 1 .. m - 1
    BY <1>1, <2>2, <2>5, UnderUnfolds
  <2>7. c \in 1 .. n /\ c \notin Bad
    BY <2>1, <2>2, <2>6
  <2>8. Good(c)
    BY <2>7
  <2>9. QED
    BY <2>3, <2>4, <2>5, <2>8
<1>3. Good(i)
  BY <1>1, <1>2
<1>4. QED
  BY <1>3

(* What is left of a node stands under it.                                  *)
LEMMA LeftIsUnder ==
  ASSUME NEW rules, IsTree(rules), NEW left, left = Residual(rules), NEW u, IsUnder(rules, u),
         \A i \in 1 .. Len(rules) : left[i] \in 0 .. i,
         NEW i \in 1 .. Len(rules), left[i] # 0
  PROVE  u[left[i]] \subseteq u[i]
<1>1. PICK n \in Nat : n = Len(rules)
  BY DEF IsTree, Ordered
<1> DEFINE Good(k) == left[k] # 0 => u[left[k]] \subseteq u[k]
           Bad == {k \in 1 .. n : ~Good(k)}
<1>2. Bad = {}
  <2> SUFFICES ASSUME Bad # {} PROVE FALSE
    OBVIOUS
  <2>0. Bad \in SUBSET Nat
    OBVIOUS
  <2>1. PICK m \in Bad : \A k \in Bad : m <= k
    BY <2>0, LeastNatural
  <2>2. m \in 1 .. n /\ left[m] # 0 /\ ~(u[left[m]] \subseteq u[m])
    OBVIOUS
  <2>3. left[m] = LeftAt(rules, left, m)
    BY <1>1, <2>2, ResidualIs DEF IsResidual
  <2>4. left[m] \in LeftBelow(rules, left, m) \cup {0, m}
    BY <1>1, <2>2, <2>3, LeftAtIs
  <2>5. PICK c \in Children(rules[m]) : left[m] = left[c]
    BY <2>2, <2>4 DEF LeftBelow
  <2>6. c \in 1 .. m - 1 /\ u[c] \subseteq u[m]
    BY <1>1, <2>2, <2>5, UnderUnfolds DEF IsTree
  <2>7. c \in 1 .. n /\ c \notin Bad
    BY <2>1, <2>2, <2>6
  <2>8. Good(c)
    BY <2>7
  <2>9. QED
    BY <2>2, <2>5, <2>6, <2>8
<1>3. Good(i)
  BY <1>1, <1>2
<1>4. QED
  BY <1>3

(* Hoisting leaves nodes out and adds none.                                 *)
LEMMA HoistedIsUnder ==
  ASSUME NEW rules, IsTree(rules), NEW left, left = Residual(rules), NEW exits,
         NEW h, h = Hoisted(rules, exits),
         NEW u, IsUnder(rules, u), NEW w, IsUnder(h, w),
         NEW i \in 1 .. Len(rules)
  PROVE  w[i] \subseteq u[i]
<1>1. PICK n \in Nat : n = Len(rules)
  BY DEF IsTree, Ordered
<1>2. PICK visited : visited = AllVisited(rules, exits)
  OBVIOUS
<1>3. /\ Ordered(h) /\ Len(h) = n
      /\ \A k \in 1 .. n :
           /\ (k \notin visited \/ rules[k].key # "any") => h[k] = rules[k]
           /\ (k \in visited /\ rules[k].key = "any") => Children(h[k]) \subseteq LeftBelow(rules, left, k)
      /\ \A k \in 1 .. n : left[k] \in 0 .. k
  BY <1>1, <1>2, HoistedIs
<1> DEFINE Good(k) == w[k] \subseteq u[k]
           Bad == {k \in 1 .. n : ~Good(k)}
<1>4. Bad = {}
  <2> SUFFICES ASSUME Bad # {} PROVE FALSE
    OBVIOUS
  <2>0. Bad \in SUBSET Nat
    OBVIOUS
  <2>1. PICK m \in Bad : \A k \in Bad : m <= k
    BY <2>0, LeastNatural
  <2>2. m \in 1 .. n /\ ~(w[m] \subseteq u[m])
    OBVIOUS
  <2>3. m \in u[m] /\ \A c \in Children(rules[m]) : c \in 1 .. m - 1 /\ u[c] \subseteq u[m]
    BY <1>1, <2>2, UnderUnfolds DEF IsTree
  <2>4. PICK l \in w[m] : l \notin u[m]
    BY <2>2
  <2>5. PICK k \in Children(h[m]) : l \in w[k]
    <3>1. m \in 1 .. Len(h) /\ Ordered(h)
      BY <1>3, <2>2
    <3>2. \A x \in w[m] : x = m \/ \E k \in Children(h[m]) : x \in w[k]
      BY <3>1, UnderUnfolds
    <3>3. QED
      BY <2>3, <2>4, <3>2
  <2>6. k \in 1 .. m - 1
    BY <1>3, <2>2, <2>5, UnderUnfolds
  <2>7. k \in 1 .. n /\ k \notin Bad
    BY <2>1, <2>2, <2>6
  <2>8. l \in u[k]
    BY <2>5, <2>7
  <2>9. CASE k \in Children(rules[m])
    BY <2>3, <2>4, <2>8, <2>9
  <2>10. CASE k \notin Children(rules[m])
    <3>1. k \in LeftBelow(rules, left, m)
      BY <1>3, <2>2, <2>5, <2>10
    <3>2. PICK c \in Children(rules[m]) : k = left[c] /\ left[c] # 0
      BY <3>1 DEF LeftBelow
    <3>3. c \in 1 .. n /\ u[c] \subseteq u[m]
      BY <2>2, <2>3, <3>2
    <3>4. u[left[c]] \subseteq u[c]
      BY <1>1, <1>3, <3>2, <3>3, LeftIsUnder
    <3>5. QED
      BY <2>4, <2>8, <3>2, <3>3, <3>4
  <2>11. QED
    BY <2>9, <2>10
<1>5. Good(i)
  BY <1>1, <1>4
<1>6. QED
  BY <1>5

(* No bracket stands under what is left of an exit.                         *)
LEMMA ExitsAreFree ==
  ASSUME NEW rules, IsTree(rules), NEW left, left = Residual(rules), NEW exits,
         NEW h, h = Hoisted(rules, exits), NEW w, IsUnder(h, w),
         NEW rule, IsRule(rules, rule), NEW exit, IsExit(rules, rule, exit),
         NEW sub, IsVisited(rules, sub),
         NEW visited, visited = AllVisited(rules, exits),
         NEW i \in 1 .. Len(rules), NEW depth \in exit[i], sub[i] \subseteq visited, left[i] # 0,
         NEW j \in w[left[i]]
  PROVE  rules[j].key \notin Brackets
<1>1. PICK n \in Nat : n = Len(rules)
  BY DEF IsTree, Ordered
<1>2. /\ Ordered(h) /\ Len(h) = n
      /\ \A k \in 1 .. n :
           /\ (k \notin visited \/ rules[k].key # "any") => h[k] = rules[k]
           /\ (k \in visited /\ rules[k].key = "any") => Children(h[k]) \subseteq LeftBelow(rules, left, k)
      /\ \A k \in 1 .. n : left[k] \in 0 .. k
  BY <1>1, HoistedIs
<1>3. PICK u : IsUnder(rules, u)
  BY UnderIs DEF IsTree
<1> DEFINE Good(k) == \A d \in exit[k] : sub[k] \subseteq visited /\ left[k] # 0
                        => \A l \in w[left[k]] : rules[l].key \notin Brackets
           Bad == {k \in 1 .. n : ~Good(k)}
<1>4. Bad = {}
  <2> SUFFICES ASSUME Bad # {} PROVE FALSE
    OBVIOUS
  <2>0. Bad \in SUBSET Nat
    OBVIOUS
  <2>1. PICK m \in Bad : \A k \in Bad : m <= k
    BY <2>0, LeastNatural
  <2>2. m \in 1 .. n /\ ~Good(m)
    OBVIOUS
  <2>3. sub[m] \subseteq visited /\ left[m] # 0
    BY <2>2
  <2>4. PICK d \in exit[m], l \in w[left[m]] : rules[l].key \in Brackets
    BY <2>2
  <2>5. \A k \in Children(rules[m]) : d + 1 \in IF rules[m].key = "any" THEN exit[k] ELSE rule[k]
    BY <1>1, <2>2, <2>4 DEF IsExit
  <2>6. \A c \in Children(rules[m]) : c \in 1 .. m - 1
    BY <1>1, <2>2 DEF IsTree, Ordered
  <2>7. left[m] = LeftAt(rules, left, m)
    BY <1>1, <2>2, ResidualIs DEF IsResidual
  <2>8. CASE rules[m].key = "any"
    <3>1. sub[m] = {m} \cup UNION {sub[c] : c \in Children(rules[m])}
      BY <1>1, <2>2, <2>8 DEF IsVisited, Children, Combinators
    <3>2. m \in visited /\ \A c \in Children(rules[m]) : sub[c] \subseteq visited
      BY <2>3, <3>1
    <3>3. ASSUME NEW c \in Children(rules[m]), left[c] # 0, l \in w[left[c]] PROVE FALSE
      <4>1. c \in 1 .. n /\ c \notin Bad
        BY <2>1, <2>2, <2>6, <3>3
      <4>2. Good(c)
        BY <4>1
      <4>3. d + 1 \in exit[c]
        BY <2>5, <2>8
      <4>4. QED
        BY <2>4, <3>2, <3>3, <4>2, <4>3
    <3>4. left[m] \in LeftBelow(rules, left, m) \cup {0, m}
      BY <1>1, <2>2, <2>7, <2>8, LeftAtIs
    <3>5. CASE left[m] = m
      <4>1. rules[l].key # "any"
        BY <2>4 DEF Brackets
      <4>2. l # m
        BY <2>8, <4>1
      <4>3. PICK k \in Children(h[m]) : l \in w[k]
        <5>1. l \in w[m] /\ m \in 1 .. Len(h)
          BY <1>2, <2>2, <2>4, <3>5
        <5>2. Ordered(h) /\ IsUnder(h, w)
          BY <1>2
        <5>3. \A x \in w[m] : x = m \/ \E k \in Children(h[m]) : x \in w[k]
          BY <5>1, <5>2, UnderUnfolds
        <5>4. QED
          BY <4>2, <5>1, <5>3
      <4>4. k \in LeftBelow(rules, left, m)
        BY <1>2, <2>2, <2>8, <3>2, <4>3
      <4>5. PICK c \in Children(rules[m]) : left[c] = k /\ left[c] # 0
        BY <4>4 DEF LeftBelow
      <4>6. QED
        BY <3>3, <4>3, <4>5
    <3>6. CASE left[m] # m
      <4>1. PICK c \in Children(rules[m]) : left[m] = left[c]
        BY <2>3, <3>4, <3>6 DEF LeftBelow
      <4>2. QED
        BY <2>3, <2>4, <3>3, <4>1
    <3>7. QED
      BY <3>5, <3>6
  <2>9. CASE rules[m].key # "any"
    <3>1. rules[m].key \notin Brackets /\ left[m] = m
      <4>1. rules[m].key \in Brackets => left[m] = 0
        BY <1>1, <2>2, <2>7, LeftAtIs
      <4>2. rules[m].key \notin Brackets
        BY <2>3, <4>1
      <4>3. QED
        BY <1>1, <2>2, <2>7, <2>9, <4>2, LeftAtIs
    <3>2. l \in u[m]
      BY <1>1, <1>3, <2>2, <2>4, <3>1, HoistedIsUnder
    <3>3. PICK c \in Children(rules[m]) : l \in u[c]
      <4>1. Ordered(rules) /\ m \in 1 .. Len(rules)
        BY <1>1, <2>2 DEF IsTree
      <4>2. \A x \in u[m] : x = m \/ \E c \in Children(rules[m]) : x \in u[c]
        BY <1>3, <4>1, UnderUnfolds
      <4>3. QED
        BY <2>4, <3>1, <3>2, <4>2
    <3>4. c \in 1 .. n /\ d + 1 \in rule[c]
      BY <2>2, <2>5, <2>6, <2>9, <3>3
    <3>5. QED
      BY <1>1, <1>3, <2>4, <3>3, <3>4, ConditionsAreFree DEF IsTree
  <2>10. QED
    BY <2>8, <2>9
<1>5. Good(i)
  BY <1>1, <1>4
<1>6. QED
  BY <1>5

(* What is read compiles.                                                   *)
LEMMA SpecCompiles ==
  ASSUME NEW d, IsDraft(d), Parse(d) # Fault
  PROVE  Compiles(Parse(d))
<1>1. PICK s, inputs, rules, costs : s = Parse(d) /\ IsParsed(s, d, inputs, rules, costs)
  BY ParsedIs
<1>2. PICK n \in Nat : n = Len(d.rules)
  BY DEF IsDraft
<1>3. PICK written : written = WrittenRules(rules)
  OBVIOUS
<1>4. /\ s.rules = rules /\ s.entry = d.entry /\ s.exit = d.exit
      /\ rules = ReadRules(inputs, d.rules) /\ Clean(rules)
      /\ ReadSide(rules, d.entry, FALSE)
      /\ d.exit # Absent => ReadSide(rules, d.exit, TRUE)
  <2>1. s.rules = rules /\ s.entry = d.entry /\ s.exit = d.exit
    BY <1>1 DEF IsParsed, Parts
  <2>2. Accepted(d, inputs, rules, costs) /\ rules = ReadRules(inputs, d.rules)
    BY <1>1 DEF IsParsed
  <2>3. /\ Clean(rules)
        /\ ReadSide(rules, d.entry, FALSE)
        /\ d.exit # Absent => ReadSide(rules, d.exit, TRUE)
    BY <2>2 DEF Accepted, Clean
  <2>4. QED
    BY <2>1, <2>2, <2>3
<1>5. /\ Ordered(rules) /\ Len(rules) = n
      /\ \A i \in 1 .. n : /\ rules[i].key = d.rules[i].key
                           /\ rules[i].key \notin Comparators => rules[i] = d.rules[i]
  <2>1. SameButRead(rules, d.rules)
    BY <1>3, <1>4, ReadRulesAre
  <2>2. QED
    BY <1>2, <2>1 DEF SameButRead
<1>6. IsTree(rules)
  <2> SUFFICES ASSUME NEW i \in 1 .. n, rules[i].key = "any"
               PROVE  /\ rules[i] = [key |-> "any", of |-> rules[i].of]
                      /\ Len(rules[i].of) \in Nat
                      /\ rules[i].of = [k \in 1 .. Len(rules[i].of) |-> rules[i].of[k]]
    BY <1>5 DEF IsTree
  <2>1. rules[i] = d.rules[i]
    BY <1>5 DEF Comparators, Plain, Crossings, Trends
  <2>2. IsNode(d.rules[i], i)
    BY <1>2 DEF IsDraft
  <2>3. QED
    BY <2>1, <2>2 DEF IsNode, Combinators
<1>7. PICK left : left = Residual(rules)
  OBVIOUS
<1>8. PICK exits : exits = {s.exit.long, s.exit.short} \ {0}
  OBVIOUS
<1>9. PICK h, visited : h = Hoisted(rules, exits) /\ visited = AllVisited(rules, exits)
  OBVIOUS
<1>10. /\ Ordered(h) /\ Len(h) = n
       /\ \A i \in 1 .. n : h[i].key = rules[i].key
       /\ \A i \in 1 .. n : left[i] \in 0 .. i
  BY <1>5, <1>6, <1>7, <1>9, HoistedIs
<1>11. PICK u : IsUnder(rules, u)
  BY <1>5, UnderIs
<1>12. PICK w : /\ IsUnder(h, w)
                /\ \A root : Under(h, root) = IF root = 0 THEN {} ELSE w[root]
                /\ \A i \in 1 .. n : w[i] \subseteq 1 .. i
  BY <1>10, UnderIs
<1>13. PICK rule, exit : /\ IsRule(rules, rule) /\ IsExit(rules, rule, exit)
                         /\ \A root : /\ Readable(rules, root, FALSE) => 1 \in rule[root]
                                      /\ Readable(rules, root, TRUE) => 1 \in exit[root]
  BY <1>5, ReadableIs
<1>14. PICK sub : /\ IsVisited(rules, sub)
                  /\ \A root : Visited(rules, root) = IF root = 0 THEN {} ELSE sub[root]
  BY <1>5, VisitedIs
<1>15. ASSUME NEW leg \in {"long", "short"}, NEW root, root # 0,
              root = s.entry[leg] \/ root = LeftOf(rules, ExitOf(s, leg))
       PROVE  Compilable(h, root)
  <2>1. d.entry[leg] \in 0 .. n /\ d.exit[leg] \in 0 .. n
    BY <1>2 DEF IsDraft
  <2>2. CASE root = s.entry[leg]
    <3>1. root \in 1 .. n
      BY <1>4, <1>15, <2>1, <2>2
    <3>2. ReadLeg(rules, root, FALSE)
      BY <1>4, <2>2 DEF ReadSide
    <3>3. 1 \in rule[root]
      BY <1>13, <1>15, <3>2 DEF ReadLeg
    <3>4. Under(h, root) = w[root] /\ w[root] \subseteq u[root] /\ w[root] \subseteq 1 .. n
      BY <1>5, <1>6, <1>7, <1>9, <1>11, <1>12, <3>1, HoistedIsUnder
    <3>5. \A j \in u[root] : rules[j].key \notin Brackets
      BY <1>5, <1>11, <1>13, <3>1, <3>3, ConditionsAreFree
    <3>6. QED
      BY <1>10, <3>4, <3>5 DEF Compilable
  <2>3. CASE root = LeftOf(rules, ExitOf(s, leg)) /\ root # s.entry[leg]
    <3>1. PICK e : e = s.exit[leg]
      OBVIOUS
    <3>2. ExitOf(s, leg) = e /\ e # 0 /\ root = left[e]
      BY <1>7, <1>15, <2>3, <3>1 DEF LeftOf, ExitOf
    <3>3. e \in 1 .. n /\ e \in exits
      BY <1>4, <1>8, <2>1, <3>1, <3>2
    <3>4. d.exit # Absent
      BY <1>4, <3>1, <3>2 DEF Absent
    <3>5. ReadLeg(rules, e, TRUE)
      BY <1>4, <3>1, <3>4 DEF ReadSide
    <3>6. 1 \in exit[e]
      BY <1>13, <3>2, <3>5 DEF ReadLeg
    <3>7. sub[e] \subseteq visited
      BY <1>9, <1>14, <3>2, <3>3 DEF AllVisited
    <3>8. root \in 1 .. n
      BY <1>10, <1>15, <3>2, <3>3
    <3>9. Under(h, root) = w[root] /\ w[root] \subseteq 1 .. n
      BY <1>12, <1>15, <3>8
    <3>10. \A j \in w[left[e]] : rules[j].key \notin Brackets
      BY <1>5, <1>6, <1>7, <1>9, <1>12, <1>13, <1>14, <1>15, <3>2, <3>3, <3>6, <3>7, ExitsAreFree
    <3>11. QED
      BY <1>10, <3>2, <3>9, <3>10 DEF Compilable
  <2>4. QED
    BY <1>15, <2>2, <2>3
<1>16. HoistedRules(s) = h
  BY <1>4, <1>8, <1>9 DEF HoistedRules
<1>17. Compiles(s)
  BY <1>4, <1>15, <1>16 DEF Compiles
<1>18. QED
  BY <1>1, <1>17

(* What is stored was parsed from a draft.                                  *)
StoredWasParsed == spec \notin {None, Fault} => \E d \in Drafts : spec = Parse(d)

(* SavedSpecsCompile: a spec that was accepted compiles, and what is        *)
(* written of it is read as it was (Parse in parse.go, Encode in spec.go,   *)
(* Compile in compile.go).                                                  *)
THEOREM SpecsCompile == Spec => []SavedSpecsCompile
<1>1. Init => StoredWasParsed
  BY DEF Init, StrategyInit, StoredWasParsed
<1>2. StoredWasParsed /\ [Next]_<<strategyVars, sweepVars>> => StoredWasParsed'
  <2> SUFFICES ASSUME StoredWasParsed, [Next]_<<strategyVars, sweepVars>> PROVE StoredWasParsed'
    OBVIOUS
  <2>1. CASE UNCHANGED spec
    BY <2>1 DEF StoredWasParsed
  <2>2. ASSUME NEW d \in Drafts, SaveDraft(d) PROVE StoredWasParsed'
    BY <2>2 DEF SaveDraft, StoredWasParsed
  <2>3. UNCHANGED spec \/ \E d \in Drafts : SaveDraft(d)
    BY DEF Next, StrategyNext, CompileSpec, Push, strategyVars
  <2>4. QED
    BY <2>1, <2>2, <2>3
<1>3. StoredWasParsed => SavedSpecsCompile
  <2> SUFFICES ASSUME StoredWasParsed, spec \notin {None, Fault}
               PROVE  Compiles(spec) /\ Parse(Encode(spec)) = spec
    BY DEF SavedSpecsCompile
  <2>1. PICK d \in Drafts : spec = Parse(d)
    BY DEF StoredWasParsed
  <2>2. IsDraft(d) /\ Parse(d) # Fault
    BY <2>1, StrategyAssumption
  <2>3. Compiles(Parse(d)) /\ Parse(Encode(Parse(d))) = Parse(d)
    BY <2>2, SpecCompiles, SpecIsReadAgain
  <2>4. QED
    BY <2>1, <2>3
<1>4. QED
  BY <1>1, <1>2, <1>3, PTL DEF Spec

-----------------------------------------------------------------------------
(* Multiples.                                                               *)
LEMMA LaterMultiple ==
  ASSUME NEW x \in Nat, NEW y \in Nat, NEW w \in Nat, x < y
  PROVE  x * w \in Nat /\ y * w \in Nat /\ x * w + w <= y * w
<1>1. PICK k \in Nat : y = x + 1 + k
  <2>1. y - x - 1 \in Nat /\ y = x + 1 + (y - x - 1)
    OBVIOUS
  <2>2. QED
    BY <2>1
<1>2. y * w = x * w + w + k * w
  BY <1>1
<1>3. x * w \in Nat /\ k * w \in Nat
  OBVIOUS
<1>4. QED
  BY <1>2, <1>3

LEMMA Quotient ==
  ASSUME NEW n \in Nat, NEW d \in Nat \ {0}
  PROVE  \E q \in Nat, m \in Nat : m = q * d /\ m <= n /\ n < m + d
<1>1. n \div d \in Nat /\ (n \div d) * d \in Nat
      /\ (n \div d) * d <= n /\ n < (n \div d) * d + d
  OBVIOUS
<1>2. QED
  BY <1>1

(* Of the multiples of d those up to the quotient are no larger than n.     *)
LEMMA MultiplesUpTo ==
  ASSUME NEW n \in Nat, NEW d \in Nat \ {0}, NEW q \in Nat, NEW m \in Nat,
         m = q * d, m <= n, n < m + d,
         NEW i \in Nat
  PROVE  i * d <= n <=> i <= q
<1>1. PICK k \in Nat : k = i * d
  OBVIOUS
<1>2. CASE i < q
  <2>1. k + d <= m
    BY <1>1, <1>2, LaterMultiple
  <2>2. QED
    BY <1>1, <1>2, <2>1
<1>3. CASE q < i
  <2>1. m + d <= k
    BY <1>1, <1>3, LaterMultiple
  <2>2. QED
    BY <1>1, <1>3, <2>1
<1>4. CASE i = q
  BY <1>4
<1>5. QED
  BY <1>2, <1>3, <1>4

LEMMA MinIs ==
  ASSUME NEW S \in SUBSET Int, NEW x \in S, \A y \in S : x <= y
  PROVE  Min(S) = x
<1>1. PICK m : m = Min(S)
  OBVIOUS
<1>2. m \in S /\ \A y \in S : m <= y
  BY <1>1 DEF Min
<1>3. m \in Int /\ x \in Int /\ m <= x /\ x <= m
  BY <1>2
<1>4. QED
  BY <1>1, <1>3

LEMMA MaxIs ==
  ASSUME NEW S \in SUBSET Int, NEW x \in S, \A y \in S : y <= x
  PROVE  Max(S) = x
<1>1. PICK m : m = Max(S)
  OBVIOUS
<1>2. m \in S /\ \A y \in S : y <= m
  BY <1>1 DEF Max
<1>3. m \in Int /\ x \in Int /\ m <= x /\ x <= m
  BY <1>2
<1>4. QED
  BY <1>1, <1>3

-----------------------------------------------------------------------------
(* Steps upwards: what holds at j and is kept by every step holds up to n.  *)
LEMMA Climb ==
  ASSUME NEW n \in Nat, NEW j \in 0 .. n, NEW P, j \in P,
         \A k \in j .. n - 1 : k \in P => k + 1 \in P
  PROVE  \A k \in j .. n : k \in P
<1> DEFINE Bad == {k \in j .. n : k \notin P}
<1> SUFFICES ASSUME Bad # {} PROVE FALSE
  OBVIOUS
<1>1. Bad \in SUBSET Nat
  OBVIOUS
<1>2. PICK m \in Bad : \A k \in Bad : m <= k
  BY <1>1, LeastNatural
<1>3. m \in j .. n /\ m \notin P /\ m # j
  OBVIOUS
<1>4. m - 1 \in j .. n - 1 /\ m - 1 \notin Bad
  BY <1>2, <1>3
<1>5. (m - 1) + 1 \in P
  BY <1>4
<1>6. QED
  BY <1>3, <1>5

LEMMA ClimbAll ==
  ASSUME NEW n \in Nat, NEW P, \A i \in 1 .. n : (\A k \in 1 .. i - 1 : k \in P) => i \in P
  PROVE  \A i \in 1 .. n : i \in P
<1> DEFINE Bad == {k \in 1 .. n : k \notin P}
<1> SUFFICES ASSUME Bad # {} PROVE FALSE
  OBVIOUS
<1>1. Bad \in SUBSET Nat
  OBVIOUS
<1>2. PICK m \in Bad : \A k \in Bad : m <= k
  BY <1>1, LeastNatural
<1>3. m \in 1 .. n /\ m \notin P
  OBVIOUS
<1>4. \A k \in 1 .. m - 1 : k \in P
  BY <1>2, <1>3
<1>5. QED
  BY <1>3, <1>4

(* What is put together step by step.                                       *)
StepsIn(n, V, step) == \A k \in 1 .. n : \A v \in V : step[k][v] \in V
IsFold(f, n, b, step) == f[0] = b /\ \A k \in 1 .. n : f[k] = step[k][f[k - 1]]

LEMMA Folding ==
  ASSUME NEW n \in Nat, NEW V, NEW b \in V, NEW step, StepsIn(n, V, step)
  PROVE  \E f \in [0 .. n -> V] : IsFold(f, n, b, step)
<1> USE DEF StepsIn, IsFold
<1> DEFINE Good(m) == \E f \in [0 .. m -> V] : f[0] = b /\ \A k \in 1 .. m : f[k] = step[k][f[k - 1]]
           P == {m \in 0 .. n : Good(m)}
<1>1. Good(0)
  <2>1. PICK f : f = [k \in 0 .. 0 |-> b]
    OBVIOUS
  <2>2. f \in [0 .. 0 -> V] /\ f[0] = b
    BY <2>1
  <2>3. QED
    BY <2>2
<1>2. ASSUME NEW m \in 0 .. n - 1, Good(m) PROVE Good(m + 1)
  <2>1. PICK f \in [0 .. m -> V] : f[0] = b /\ \A k \in 1 .. m : f[k] = step[k][f[k - 1]]
    BY <1>2
  <2>2. PICK v : v = step[m + 1][f[m]]
    OBVIOUS
  <2>3. v \in V
    BY <2>1, <2>2
  <2>4. PICK g : g = [k \in 0 .. m + 1 |-> IF k = m + 1 THEN v ELSE f[k]]
    OBVIOUS
  <2>5. g \in [0 .. m + 1 -> V] /\ g[0] = b
    BY <2>1, <2>3, <2>4
  <2>6. ASSUME NEW k \in 1 .. m + 1 PROVE g[k] = step[k][g[k - 1]]
    <3>1. CASE k = m + 1
      BY <2>2, <2>4, <3>1
    <3>2. CASE k # m + 1
      BY <2>1, <2>4, <3>2
    <3>3. QED
      BY <3>1, <3>2
  <2>7. QED
    BY <2>5, <2>6
<1> HIDE DEF Good
<1>3. \A m \in 0 .. n : m \in P
  <2>1. 0 \in P
    BY <1>1
  <2>2. \A m \in 0 .. n - 1 : m \in P => m + 1 \in P
    BY <1>2
  <2> HIDE DEF P
  <2>3. QED
    BY <2>1, <2>2, Climb
<1>4. Good(n)
  BY <1>3
<1>5. QED
  BY <1>4 DEF Good

-----------------------------------------------------------------------------
(* What is known of inputs that were read.                                  *)
Lines(input) == Registry[input.indicator].lines
Feeds(input) == input.source \notin Sources \cup {None}

IsInput(inputs, input) ==
  /\ input.indicator \in DOMAIN Registry
  /\ input.period \in 1 .. MaxPeriod /\ (input.indicator = "bbands" => input.period >= 2)
  /\ Contains(Lines(input), input.output)
  /\ Feeds(input) => input.source \in DOMAIN inputs

AreInputs(inputs) ==
  /\ IsFiniteSet(DOMAIN inputs) /\ DOMAIN inputs \subseteq ToSet(Names)
  /\ \A n \in DOMAIN inputs : IsInput(inputs, inputs[n])

(* Who reads whom, without a loop.                                          *)
AreChains(inputs, chains) ==
  /\ chains = [n \in {m \in DOMAIN inputs : Feeds(inputs[m])} |-> inputs[n].source]
  /\ ~FindCycle(chains)

LEMMA BuiltIs ==
  ASSUME NEW raw, Build(raw) # Fault
  PROVE  LET input == Build(raw)
         IN  /\ input.indicator \in DOMAIN Registry
             /\ input.period \in 1 .. MaxPeriod /\ (input.indicator = "bbands" => input.period >= 2)
             /\ Contains(Lines(input), input.output)
             /\ Feeds(input) <=> raw.source \notin Sources \cup {None}
             /\ Feeds(input) => input.source = raw.source
<1>1. PICK entry, period, output, source :
        /\ entry = Registry[raw.indicator]
        /\ period = IF raw.period = None THEN DefaultPeriod ELSE raw.period
        /\ output = IF raw.output = None THEN entry.lines[1] ELSE raw.output
        /\ source = IF raw.source = None THEN "close" ELSE raw.source
  OBVIOUS
<1>2. /\ raw.indicator \in DOMAIN Registry
      /\ raw.source = None \/ entry.sourced
      /\ period \in entry.least .. MaxPeriod
      /\ Contains(entry.lines, output)
      /\ Build(raw) = [indicator |-> raw.indicator, period |-> period, output |-> output,
                       source |-> IF entry.sourced THEN source ELSE None]
  BY <1>1 DEF Build
<1>3. entry.least \in Nat \ {0} /\ (raw.indicator = "bbands" => entry.least = 2) /\ MaxPeriod \in Nat
  BY <1>1, <1>2, LanguageAssumption DEF Registry
<1>4. PICK input : input = Build(raw)
  OBVIOUS
<1>5. /\ input.indicator = raw.indicator /\ input.period = period /\ input.output = output
      /\ input.source = IF entry.sourced THEN source ELSE None
  BY <1>2, <1>4
<1>6. /\ Feeds(input) <=> raw.source \notin Sources \cup {None}
      /\ Feeds(input) => input.source = raw.source
  BY <1>1, <1>2, <1>5 DEF Feeds, Sources
<1>7. Contains(Lines(input), input.output)
  BY <1>1, <1>2, <1>5 DEF Lines
<1>8. QED
  BY <1>2, <1>3, <1>4, <1>5, <1>6, <1>7

LEMMA InputsAre ==
  ASSUME NEW raws, NEW inputs, inputs = ReadInputs(raws), inputs # Fault
  PROVE  /\ AreInputs(inputs)
         /\ AreChains(inputs, [n \in {m \in DOMAIN inputs : Feeds(inputs[m])} |-> inputs[n].source])
<1>1. /\ \A n \in DOMAIN raws : UsableName(n) /\ ~SourceFault(raws, n) /\ Build(raws[n]) # Fault
      /\ ~FindCycle(Chains(raws))
      /\ inputs = [n \in DOMAIN raws |-> Build(raws[n])]
  BY DEF ReadInputs
<1>2. DOMAIN inputs = DOMAIN raws /\ \A n \in DOMAIN raws : inputs[n] = Build(raws[n])
  BY <1>1
<1>3. DOMAIN inputs \subseteq ToSet(Names)
  BY <1>1, <1>2 DEF UsableName
<1>4. IsFiniteSet(DOMAIN inputs)
  <2>1. Names \in Seq(STRING)
    BY LanguageAssumption
  <2>2. PICK m \in Nat : m = Len(Names) /\ DOMAIN Names = 1 .. m
    BY <2>1
  <2>3. IsFiniteSet(1 .. m)
    BY FS_Interval
  <2>4. ToSet(Names) = {Names[k] : k \in 1 .. m}
    BY <2>2 DEF ToSet
  <2>5. PICK f : f = [k \in 1 .. m |-> Names[k]]
    OBVIOUS
  <2>6. f \in Surjection(1 .. m, ToSet(Names))
    BY <2>4, <2>5 DEF Surjection
  <2>7. IsFiniteSet(ToSet(Names))
    BY <2>3, <2>6, FS_Surjection
  <2>8. QED
    BY <1>3, <2>7, FS_Subset
<1>5. \A n \in DOMAIN raws :
        LET input == Build(raws[n])
        IN  /\ input.indicator \in DOMAIN Registry
            /\ input.period \in 1 .. MaxPeriod /\ (input.indicator = "bbands" => input.period >= 2)
            /\ Contains(Lines(input), input.output)
            /\ Feeds(input) <=> raws[n].source \notin Sources \cup {None}
            /\ Feeds(input) => input.source = raws[n].source
  BY <1>1, BuiltIs
<1>6. ASSUME NEW n \in DOMAIN inputs PROVE IsInput(inputs, inputs[n])
  <2>1. Feeds(inputs[n]) => raws[n].source \in DOMAIN raws
    BY <1>1, <1>2, <1>5 DEF SourceFault
  <2>2. QED
    BY <1>2, <1>5, <2>1 DEF IsInput
<1>7. {m \in DOMAIN inputs : Feeds(inputs[m])} = {m \in DOMAIN raws : raws[m].source \notin Sources \cup {None}}
  BY <1>2, <1>5
<1>8. [n \in {m \in DOMAIN inputs : Feeds(inputs[m])} |-> inputs[n].source] = Chains(raws)
  BY <1>2, <1>5, <1>7 DEF Chains
<1>9. QED
  BY <1>1, <1>3, <1>4, <1>6, <1>8 DEF AreInputs, AreChains

-----------------------------------------------------------------------------
(* Inputs that read inputs: from any of them it is not far to one that does *)
(* not.                                                                     *)
ChainsIn(N, c) ==
  /\ IsFiniteSet(N) /\ None \notin N
  /\ c = [n \in DOMAIN c |-> c[n]] /\ DOMAIN c \subseteq N
  /\ \A n \in DOMAIN c : c[n] \in N
  /\ ~FindCycle(c)

Far(c) == Cardinality(DOMAIN c)

LEMMA InputChainsAre ==
  ASSUME NEW inputs, AreInputs(inputs), NEW c, AreChains(inputs, c)
  PROVE  /\ ChainsIn(DOMAIN inputs, c)
         /\ \A n \in DOMAIN inputs : n \in DOMAIN c <=> Feeds(inputs[n])
         /\ \A n \in DOMAIN c : c[n] = inputs[n].source
<1>1. None \notin DOMAIN inputs
  <2>1. Names \in Seq(STRING) /\ None \notin STRING
    BY LanguageAssumption
  <2>2. ToSet(Names) \subseteq STRING
    BY <2>1 DEF ToSet
  <2>3. QED
    BY <2>1, <2>2 DEF AreInputs
<1>2. DOMAIN c = {m \in DOMAIN inputs : Feeds(inputs[m])} /\ \A n \in DOMAIN c : c[n] = inputs[n].source
  BY DEF AreChains
<1>3. c = [n \in DOMAIN c |-> c[n]]
  BY DEF AreChains
<1>4. \A n \in DOMAIN c : c[n] \in DOMAIN inputs
  BY <1>2 DEF AreInputs, IsInput
<1>5. QED
  BY <1>1, <1>2, <1>3, <1>4 DEF ChainsIn, AreInputs, AreChains

LEMMA UpstreamIs ==
  ASSUME NEW N, NEW c, ChainsIn(N, c), NEW n \in N
  PROVE  /\ Far(c) \in Nat
         /\ Upstream(c, n) \in [0 .. Far(c) + 1 -> N \cup {None}]
         /\ Upstream(c, n)[0] = n
         /\ \A k \in 1 .. Far(c) + 1 :
              Upstream(c, n)[k] = IF Upstream(c, n)[k - 1] \in DOMAIN c THEN c[Upstream(c, n)[k - 1]] ELSE None
<1> DEFINE V == N \cup {None}
           next == [v \in V |-> IF v \in DOMAIN c THEN c[v] ELSE None]
           Is(u, m) == u = [k \in 0 .. m |-> IF k = 0 THEN n
                                          ELSE IF u[k - 1] \in DOMAIN c THEN c[u[k - 1]] ELSE None]
<1>1. PICK far \in Nat : far = Far(c)
  BY FS_Subset, FS_CardinalityType DEF ChainsIn, Far
<1>2. \A v \in V : next[v] \in V
  BY DEF ChainsIn
<1>13. PICK step : step = [j \in 1 .. far + 1 |-> next]
  OBVIOUS
<1>3. PICK f \in [0 .. far + 1 -> V] : IsFold(f, far + 1, n, step)
  <2>2. StepsIn(far + 1, V, step)
    BY <1>2, <1>13 DEF StepsIn
  <2>3. n \in V /\ far + 1 \in Nat
    OBVIOUS
  <2> HIDE DEF V, next
  <2>4. QED
    BY <2>2, <2>3, Folding
<1>4. \A k \in 1 .. far + 1 : f[k] = IF f[k - 1] \in DOMAIN c THEN c[f[k - 1]] ELSE None
  <2> SUFFICES ASSUME NEW k \in 1 .. far + 1 PROVE f[k] = IF f[k - 1] \in DOMAIN c THEN c[f[k - 1]] ELSE None
    OBVIOUS
  <2>1. f[k] = next[f[k - 1]] /\ f[k - 1] \in V
    <3>1. step[k] = next
      BY <1>13
    <3> HIDE DEF next
    <3>2. QED
      BY <1>3, <3>1 DEF IsFold
  <2>2. QED
    BY <2>1
<1>5. Is(f, far + 1)
  BY <1>3, <1>4 DEF IsFold
<1>6. PICK u : u = Upstream(c, n)
  OBVIOUS
<1>7. u = CHOOSE g : Is(g, far + 1)
  BY <1>1, <1>6 DEF Upstream, Far
<1>8. Is(u, far + 1)
  <2> HIDE DEF Is
  <2>1. QED
    BY <1>5, <1>7
<1>9. /\ u[0] = n
      /\ \A k \in 1 .. far + 1 : u[k] = IF u[k - 1] \in DOMAIN c THEN c[u[k - 1]] ELSE None
  BY <1>8
<1>10. \A k \in 0 .. far + 1 : u[k] \in V
  <2>1. \A k \in 1 .. far + 1 : u[k] \in V
    BY <1>9 DEF ChainsIn
  <2>2. QED
    BY <1>9, <2>1
<1>11. u \in [0 .. far + 1 -> V]
  BY <1>8, <1>10
<1>12. QED
  BY <1>1, <1>6, <1>9, <1>11

LEMMA UpstreamGoesOn ==
  ASSUME NEW N, NEW c, ChainsIn(N, c), NEW n \in N,
         NEW i \in 0 .. Far(c) + 1, Upstream(c, n)[i] \in N,
         NEW m \in 0 .. Far(c) + 1 - i
  PROVE  Upstream(c, Upstream(c, n)[i])[m] = Upstream(c, n)[i + m]
<1>1. PICK far \in Nat : far = Far(c)
  BY UpstreamIs
<1>2. PICK u, w : u = Upstream(c, n) /\ w = Upstream(c, u[i])
  OBVIOUS
<1>3. \A k \in 1 .. far + 1 : u[k] = IF u[k - 1] \in DOMAIN c THEN c[u[k - 1]] ELSE None
  BY <1>1, <1>2, UpstreamIs
<1>4. /\ w[0] = u[i]
      /\ \A k \in 1 .. far + 1 : w[k] = IF w[k - 1] \in DOMAIN c THEN c[w[k - 1]] ELSE None
  BY <1>1, <1>2, UpstreamIs
<1>5. PICK size \in Nat : size = far + 1 - i
  BY <1>1
<1> DEFINE P == {k \in 0 .. size : w[k] = u[i + k]}
<1>6. 0 \in P
  BY <1>1, <1>4
<1>7. ASSUME NEW k \in 0 .. size - 1, k \in P PROVE k + 1 \in P
  <2>1. k + 1 \in 1 .. far + 1 /\ i + k + 1 \in 1 .. far + 1
    BY <1>1, <1>5
  <2>2. w[k + 1] = IF w[k] \in DOMAIN c THEN c[w[k]] ELSE None
    BY <1>4, <2>1
  <2>3. u[i + k + 1] = IF u[i + k] \in DOMAIN c THEN c[u[i + k]] ELSE None
    <3>1. (i + k + 1) - 1 = i + k
      BY <1>1
    <3>2. QED
      BY <1>3, <2>1, <3>1
  <2>4. QED
    BY <1>1, <1>7, <2>2, <2>3
<1>8. \A k \in 0 .. size : k \in P
  <2> HIDE DEF P
  <2>1. QED
    BY <1>6, <1>7, Climb
<1>9. QED
  BY <1>1, <1>2, <1>5, <1>8

(* Among one step more than there are inputs that read another, two would   *)
(* meet.                                                                    *)
LEMMA UpstreamEnds ==
  ASSUME NEW N, NEW c, ChainsIn(N, c), NEW n \in N
  PROVE  \E r \in 0 .. Far(c) : /\ Upstream(c, n)[r] \in N \ DOMAIN c
                                /\ \A k \in 0 .. r - 1 : Upstream(c, n)[k] \in DOMAIN c
                                /\ \A k \in r + 1 .. Far(c) + 1 : Upstream(c, n)[k] = None
<1>1. PICK far \in Nat : far = Far(c)
  BY UpstreamIs
<1>2. PICK u : u = Upstream(c, n)
  OBVIOUS
<1>3. /\ u[0] = n
      /\ \A k \in 1 .. far + 1 : u[k] = IF u[k - 1] \in DOMAIN c THEN c[u[k - 1]] ELSE None
  BY <1>1, <1>2, UpstreamIs
<1> DEFINE Out == {k \in 0 .. far : u[k] \notin DOMAIN c}
<1>4. Out # {}
  <2> SUFFICES ASSUME \A k \in 0 .. far : u[k] \in DOMAIN c PROVE FALSE
    OBVIOUS
  <2>1. PICK f : f = [k \in 0 .. far |-> u[k]]
    OBVIOUS
  <2>2. f \in [0 .. far -> DOMAIN c]
    BY <2>1
  <2>3. IsFiniteSet(0 .. far) /\ Cardinality(0 .. far) = far + 1
    BY FS_Interval
  <2>4. IsFiniteSet(DOMAIN c) /\ Cardinality(DOMAIN c) = far
    BY <1>1, FS_Subset DEF ChainsIn, Far
  <2>5. PICK x, y \in 0 .. far : x # y /\ f[x] = f[y]
    BY <2>2, <2>3, <2>4, FS_PigeonHole
  <2>6. PICK i, j \in 0 .. far : i < j /\ u[i] = u[j]
    BY <2>1, <2>5
  <2>7. u[i] \in DOMAIN c /\ u[i] \in N
    BY DEF ChainsIn
  <2>8. j - i \in 1 .. far + 1 /\ j - i \in 0 .. far + 1 - i /\ i \in 0 .. far + 1 /\ i + (j - i) = j
    BY <2>6
  <2>9. Upstream(c, u[i])[j - i] = u[i]
    BY <1>1, <1>2, <2>6, <2>7, <2>8, UpstreamGoesOn
  <2>10. FindCycle(c)
    BY <1>1, <2>7, <2>8, <2>9 DEF FindCycle, Far
  <2>11. QED
    BY <2>10 DEF ChainsIn
<1>5. Out \in SUBSET Nat
  OBVIOUS
<1>6. PICK r \in Out : \A k \in Out : r <= k
  BY <1>4, <1>5, LeastNatural
<1>7. r \in 0 .. far /\ u[r] \notin DOMAIN c
  OBVIOUS
<1>8. \A k \in 0 .. r - 1 : u[k] \in DOMAIN c
  BY <1>6, <1>7
<1>9. u[r] \in N
  <2>1. CASE r = 0
    BY <1>3, <2>1
  <2>2. CASE r # 0
    <3>1. u[r] = c[u[r - 1]] /\ u[r - 1] \in DOMAIN c
      BY <1>3, <1>7, <1>8, <2>2
    <3>2. QED
      BY <3>1 DEF ChainsIn
  <2>3. QED
    BY <2>1, <2>2
<1>10. \A k \in r + 1 .. far + 1 : u[k] = None
  <2> DEFINE P == {k \in r + 1 .. far + 1 : u[k] = None}
  <2>1. r + 1 \in P
    BY <1>3, <1>7
  <2>2. ASSUME NEW k \in r + 1 .. (far + 1) - 1, k \in P PROVE k + 1 \in P
    <3>1. None \notin DOMAIN c
      BY DEF ChainsIn
    <3>2. u[k + 1] = None
      BY <1>3, <1>7, <2>2, <3>1
    <3>3. QED
      BY <2>2, <3>2, <1>7
  <2>3. r + 1 \in 0 .. far + 1 /\ far + 1 \in Nat
    BY <1>7
  <2> HIDE DEF P
  <2>4. \A k \in r + 1 .. far + 1 : k \in P
    BY <2>1, <2>2, <2>3, Climb
  <2>5. QED
    BY <2>4 DEF P
<1>11. QED
  BY <1>1, <1>2, <1>7, <1>8, <1>9, <1>10

(* How many inputs stand before one.                                        *)
LEMMA Ranked ==
  ASSUME NEW N, NEW c, ChainsIn(N, c)
  PROVE  \E rank \in [N -> Nat] : \A n \in N : n \in DOMAIN c => rank[n] = rank[c[n]] + 1
<1> DEFINE At(n, r) == /\ r \in 0 .. Far(c)
                       /\ Upstream(c, n)[r] \in N \ DOMAIN c
                       /\ \A k \in 0 .. r - 1 : Upstream(c, n)[k] \in DOMAIN c
           rank == [n \in N |-> CHOOSE r : At(n, r)]
<1>1. ASSUME NEW n \in N PROVE At(n, rank[n])
  <2>1. \E r : At(n, r)
    BY UpstreamEnds
  <2> HIDE DEF At
  <2>2. QED
    BY <2>1
<1>2. \A n \in N : At(n, rank[n])
  BY <1>1
<1>3. ASSUME NEW n \in N, NEW r, NEW s, At(n, r), At(n, s) PROVE r = s
  <2>1. r \in Int /\ s \in Int
    BY <1>3
  <2>2. ~(r < s) /\ ~(s < r)
    BY <1>3, <2>1
  <2>3. QED
    BY <2>1, <2>2
<1>4. ASSUME NEW n \in DOMAIN c PROVE rank[n] = rank[c[n]] + 1
  <2>1. n \in N /\ c[n] \in N
    BY DEF ChainsIn
  <2>2. PICK far \in Nat : far = Far(c)
    BY <2>1, UpstreamIs
  <2>3. PICK u, w : u = Upstream(c, n) /\ w = Upstream(c, c[n])
    OBVIOUS
  <2>4. u[0] = n /\ u[1] = c[n]
    <3>1. 1 \in 1 .. far + 1 /\ 1 - 1 = 0
      BY <2>2
    <3>2. QED
      BY <2>1, <2>2, <2>3, <3>1, UpstreamIs
  <2>5. ASSUME NEW m \in 0 .. far PROVE w[m] = u[m + 1]
    <3>1. 1 \in 0 .. far + 1 /\ m \in 0 .. far + 1 - 1 /\ u[1] \in N
      BY <2>1, <2>2, <2>4
    <3>2. QED
      BY <2>1, <2>2, <2>3, <2>4, <3>1, UpstreamGoesOn
  <2>6. PICK r : r = rank[c[n]] /\ At(c[n], r)
    BY <1>2, <2>1
  <2>7. PICK q : q = rank[n] /\ At(n, q)
    BY <1>2, <2>1
  <2>8. q \in 1 .. far
    <3>1. q # 0
      BY <2>3, <2>4, <2>7
    <3>2. QED
      BY <2>2, <2>7, <3>1
  <2>9. At(c[n], q - 1)
    <3>1. w[q - 1] = u[q]
      BY <2>5, <2>8
    <3>2. \A k \in 0 .. (q - 1) - 1 : w[k] = u[k + 1] /\ k + 1 \in 0 .. q - 1
      BY <2>5, <2>8
    <3>3. \A k \in 0 .. (q - 1) - 1 : w[k] \in DOMAIN c
      <4>1. \A k \in 0 .. q - 1 : u[k] \in DOMAIN c
        BY <2>3, <2>7
      <4>2. QED
        BY <3>2, <4>1
    <3>4. w[q - 1] \in N \ DOMAIN c
      BY <2>3, <2>7, <3>1
    <3>5. q - 1 \in 0 .. Far(c)
      BY <2>2, <2>8
    <3> HIDE <2>7 DEF rank
    <3>6. QED
      BY <2>3, <3>3, <3>4, <3>5
  <2>10. r = q - 1
    <3> HIDE DEF At
    <3>1. QED
      BY <1>3, <2>1, <2>6, <2>9
  <2> HIDE DEF rank, At
  <2>11. QED
    BY <2>6, <2>7, <2>8, <2>10
<1>5. rank \in [N -> Nat]
  <2>1. \A n \in N : rank[n] \in Nat
    <3> SUFFICES ASSUME NEW n \in N PROVE rank[n] \in Nat
      OBVIOUS
    <3>1. rank[n] \in 0 .. Far(c) /\ Far(c) \in Nat
      BY <1>2, UpstreamIs
    <3>2. QED
      BY <3>1
  <2> HIDE DEF At
  <2>2. QED
    BY <2>1
<1>6. QED
  BY <1>4, <1>5

LEMMA ChainInduction ==
  ASSUME NEW N, NEW c, ChainsIn(N, c), NEW P,
         \A n \in N : (n \in DOMAIN c => c[n] \in P) => n \in P
  PROVE  N \subseteq P
<1>1. PICK rank \in [N -> Nat] : \A n \in N : n \in DOMAIN c => rank[n] = rank[c[n]] + 1
  BY Ranked
<1> DEFINE Bad == {rank[n] : n \in {m \in N : m \notin P}}
<1> SUFFICES ASSUME Bad # {} PROVE FALSE
  OBVIOUS
<1>2. Bad \in SUBSET Nat
  OBVIOUS
<1>3. PICK r \in Bad : \A k \in Bad : r <= k
  BY <1>2, LeastNatural
<1>4. PICK n \in N : n \notin P /\ r = rank[n]
  OBVIOUS
<1>5. n \in DOMAIN c /\ c[n] \notin P /\ c[n] \in N
  BY <1>4 DEF ChainsIn
<1>6. rank[c[n]] \in Bad /\ rank[c[n]] \in Nat /\ rank[n] = rank[c[n]] + 1
  BY <1>1, <1>5
<1> HIDE DEF Bad
<1>7. QED
  BY <1>2, <1>3, <1>4, <1>6

(* What is defined of an input through the one it reads.                    *)
LEMMA ChainRecursion ==
  ASSUME NEW N, NEW c, ChainsIn(N, c), NEW V, NEW base \in [N -> V], NEW step,
         \A n \in DOMAIN c : \A v \in V : step[n][v] \in V
  PROVE  \E f \in [N -> V] : \A n \in N : f[n] = IF n \in DOMAIN c THEN step[n][f[c[n]]] ELSE base[n]
<1>1. PICK rank \in [N -> Nat] : \A n \in N : n \in DOMAIN c => rank[n] = rank[c[n]] + 1
  BY Ranked
<1> DEFINE W == [N -> V]
           now(g, n) == IF n \in DOMAIN c THEN step[n][g[c[n]]] ELSE base[n]
           next == [g \in W |-> [n \in N |-> now(g, n)]]
<1>2. ASSUME NEW g \in W PROVE next[g] \in W
  <2>1. \A n \in N : now(g, n) \in V
    BY DEF ChainsIn
  <2> HIDE DEF now
  <2>2. QED
    BY <2>1
<1>3. ASSUME NEW m \in Nat
      PROVE  \E f \in [0 .. m -> W] : f[0] = base /\ \A k \in 1 .. m : f[k] = next[f[k - 1]]
  <2>1. PICK all : all = [j \in 1 .. m |-> next]
    OBVIOUS
  <2>2. base \in W /\ StepsIn(m, W, all)
    BY <1>2, <2>1 DEF StepsIn
  <2> HIDE DEF W, next
  <2>3. PICK f \in [0 .. m -> W] : IsFold(f, m, base, all)
    BY <2>2, Folding
  <2>4. QED
    BY <2>1, <2>3 DEF IsFold
<1>4. PICK most \in Nat : \A n \in N : rank[n] <= most
  <2>1. CASE N = {}
    BY <2>1
  <2>2. CASE N # {}
    <3> DEFINE R == {rank[n] : n \in N}
    <3>1. rank \in Surjection(N, R)
      BY DEF Surjection
    <3>2. IsFiniteSet(R) /\ R \in SUBSET Nat
      BY <3>1, FS_Surjection DEF ChainsIn
    <3>3. \E x \in Nat : \A y \in R : y <= x
      <4> HIDE DEF R
      <4>8. PICK card \in Nat : ExistsBijection(1 .. card, R)
        BY <3>2, FS_CardinalityType
      <4>1. PICK g : g \in Bijection(1 .. card, R)
        BY <4>8 DEF ExistsBijection
      <4> DEFINE P == {k \in 0 .. card : \E x \in Nat : \A i \in 1 .. k : g[i] <= x}
      <4>2. \A i \in 1 .. card : g[i] \in Nat
        BY <3>2, <4>1 DEF Bijection, Injection
      <4>3. 0 \in P
        OBVIOUS
      <4>4. ASSUME NEW k \in 0 .. card - 1, k \in P PROVE k + 1 \in P
        <5>1. PICK x \in Nat : \A i \in 1 .. k : g[i] <= x
          BY <4>4
        <5>2. PICK y \in Nat : y = IF g[k + 1] <= x THEN x ELSE g[k + 1]
          BY <4>2
        <5>3. \A i \in 1 .. k + 1 : g[i] <= y
          BY <4>2, <5>1, <5>2
        <5>4. k + 1 \in 0 .. card
          BY <4>8
        <5>5. \E z \in Nat : \A i \in 1 .. k + 1 : g[i] <= z
          BY <5>3, Zenon
        <5>6. QED
          BY <5>4, <5>5, Zenon
      <4>5. card \in P
        <5>1. 0 \in 0 .. card /\ card \in 0 .. card
          OBVIOUS
        <5> HIDE DEF P
        <5>2. QED
          BY <4>3, <4>4, <5>1, Climb
      <4>6. \A y \in R : \E i \in 1 .. card : g[i] = y
        BY <4>1 DEF Bijection, Surjection
      <4>7. QED
        BY <4>5, <4>6
    <3>4. QED
      BY <3>3
  <2>3. QED
    BY <2>1, <2>2
<1>5. PICK f \in [0 .. most -> W] : f[0] = base /\ \A k \in 1 .. most : f[k] = next[f[k - 1]]
  BY <1>3
<1> DEFINE g == [n \in N |-> f[rank[n]][n]]
<1>6. \A n \in N : rank[n] \in 0 .. most
  BY <1>4
<1>7. g \in [N -> V]
  BY <1>5, <1>6
<1>8. ASSUME NEW n \in N PROVE g[n] = IF n \in DOMAIN c THEN step[n][g[c[n]]] ELSE base[n]
  <2>1. CASE n \in DOMAIN c
    <3>1. c[n] \in N /\ rank[n] \in 1 .. most /\ rank[n] - 1 = rank[c[n]]
      <4>1. c[n] \in N /\ rank[n] = rank[c[n]] + 1
        BY <1>1, <2>1 DEF ChainsIn
      <4>2. rank[n] \in 0 .. most /\ rank[c[n]] \in 0 .. most
        BY <1>6, <4>1
      <4> HIDE DEF W, g, next
      <4>3. QED
        BY <4>1, <4>2
    <3>2. PICK h \in W : h = f[rank[n] - 1]
      BY <1>5, <3>1
    <3>3. f[rank[n]] = next[h]
      BY <1>5, <3>1, <3>2
    <3>4. g[n] = now(h, n)
      BY <3>2, <3>3
    <3>5. h[c[n]] = g[c[n]]
      BY <3>1, <3>2
    <3>6. QED
      BY <2>1, <3>4, <3>5
  <2>2. CASE n \notin DOMAIN c /\ rank[n] = 0
    BY <1>5, <2>2
  <2>3. CASE n \notin DOMAIN c /\ rank[n] # 0
    <3>1. rank[n] \in 1 .. most
      <4>1. rank[n] \in 0 .. most
        BY <1>6
      <4> HIDE DEF W, g, next
      <4>2. QED
        BY <2>3, <4>1
    <3>2. PICK h \in W : h = f[rank[n] - 1]
      BY <1>5, <3>1
    <3>3. f[rank[n]] = next[h]
      BY <1>5, <3>1, <3>2
    <3>4. g[n] = now(h, n)
      BY <3>2, <3>3
    <3>5. QED
      BY <2>3, <3>4
  <2>4. QED
    BY <2>1, <2>2, <2>3
<1>9. QED
  BY <1>7, <1>8

-----------------------------------------------------------------------------
(* The order in which inputs are built: each after the one it reads.        *)
AfterFeeds(N, c, o) ==
  /\ o \in Seq(N)
  /\ \A k \in 1 .. Len(o) : o[k] \in DOMAIN c => \E j \in 1 .. k - 1 : o[j] = c[o[k]]

Once(seq, m) == IF m = None \/ Contains(seq, m) THEN seq ELSE Append(seq, m)

LEMMA OnceIs ==
  ASSUME NEW N, NEW c, ChainsIn(N, c), NEW o, AfterFeeds(N, c, o), NEW m \in N \cup {None},
         m \in DOMAIN c => Contains(o, c[m])
  PROVE  /\ AfterFeeds(N, c, Once(o, m))
         /\ \A x : Contains(o, x) => Contains(Once(o, m), x)
         /\ m # None => Contains(Once(o, m), m)
<1>1. CASE m = None \/ Contains(o, m)
  BY <1>1 DEF Once
<1>2. CASE ~(m = None \/ Contains(o, m))
  <2>1. PICK l \in Nat : l = Len(o) /\ o \in [1 .. l -> N]
    BY DEF AfterFeeds
  <2>2. PICK p : p = Append(o, m)
    OBVIOUS
  <2>3. p \in Seq(N) /\ Len(p) = l + 1 /\ p[l + 1] = m /\ \A k \in 1 .. l : p[k] = o[k]
    BY <1>2, <2>1, <2>2 DEF AfterFeeds
  <2>4. ASSUME NEW k \in 1 .. l + 1, p[k] \in DOMAIN c PROVE \E j \in 1 .. k - 1 : p[j] = c[p[k]]
    <3>1. CASE k = l + 1
      <4>1. PICK j \in 1 .. l : o[j] = c[m]
        BY <2>1, <2>3, <2>4, <3>1 DEF Contains
      <4>2. QED
        BY <2>3, <3>1, <4>1
    <3>2. CASE k # l + 1
      <4>1. k \in 1 .. l /\ p[k] = o[k]
        BY <2>3, <3>2
      <4>2. PICK j \in 1 .. k - 1 : o[j] = c[o[k]]
        BY <2>1, <2>4, <4>1 DEF AfterFeeds
      <4>3. j \in 1 .. l
        BY <4>1
      <4>4. QED
        BY <2>3, <4>1, <4>2, <4>3
    <3>3. QED
      BY <3>1, <3>2
  <2>5. AfterFeeds(N, c, p)
    BY <2>3, <2>4 DEF AfterFeeds
  <2>6. ASSUME NEW x, Contains(o, x) PROVE Contains(p, x)
    <3>1. PICK i \in 1 .. l : o[i] = x
      BY <2>1, <2>6 DEF Contains
    <3>2. i \in 1 .. Len(p) /\ p[i] = x
      BY <2>3, <3>1
    <3>3. QED
      BY <3>2 DEF Contains
  <2>7. Contains(p, m)
    <3>1. l + 1 \in 1 .. Len(p) /\ p[l + 1] = m
      BY <2>3
    <3>2. QED
      BY <3>1 DEF Contains
  <2>8. Once(o, m) = p
    BY <1>2, <2>2 DEF Once
  <2>9. QED
    BY <2>5, <2>6, <2>7, <2>8
<1>3. QED
  BY <1>1, <1>2

LEMMA VisitIs ==
  ASSUME NEW N, NEW c, ChainsIn(N, c), NEW out, AfterFeeds(N, c, out), NEW n \in N
  PROVE  /\ AfterFeeds(N, c, Visit(c, out, n))
         /\ \A x : Contains(out, x) => Contains(Visit(c, out, n), x)
         /\ Contains(Visit(c, out, n), n)
<1>1. PICK far \in Nat : far = Far(c) + 1
  BY UpstreamIs
<1>2. PICK u : u = Upstream(c, n)
  OBVIOUS
<1>3. /\ u \in [0 .. far -> N \cup {None}] /\ u[0] = n
      /\ \A k \in 1 .. far : u[k] = IF u[k - 1] \in DOMAIN c THEN c[u[k - 1]] ELSE None
  BY <1>1, <1>2, UpstreamIs
<1>4. u[far] = None
  <2>1. PICK r \in 0 .. Far(c) : \A k \in r + 1 .. Far(c) + 1 : u[k] = None
    BY <1>2, UpstreamEnds
  <2>2. far \in r + 1 .. Far(c) + 1
    BY <1>1, <2>1, UpstreamIs
  <2>3. QED
    BY <2>1, <2>2
<1>5. None \notin N /\ DOMAIN c \subseteq N
  BY DEF ChainsIn
<1> DEFINE S == Seq(N)
           next(k) == [s \in S |-> Once(s, u[far + 1 - k])]
           Is(g) == g = [k \in 0 .. far + 1 |-> IF k = 0 THEN out ELSE Once(g[k - 1], u[far + 1 - k])]
<1>6. PICK step : step = [k \in 1 .. far + 1 |-> next(k)]
  OBVIOUS
<1>7. StepsIn(far + 1, S, step)
  <2>1. ASSUME NEW k \in 1 .. far + 1, NEW s \in S PROVE step[k][s] \in S
    <3>1. step[k][s] = Once(s, u[far + 1 - k])
      BY <1>6
    <3>2. far + 1 - k \in 0 .. far
      BY <1>1
    <3>3. u[far + 1 - k] \in N \cup {None}
      BY <1>3, <3>2
    <3>4. QED
      BY <3>1, <3>3 DEF Once
  <2>2. QED
    BY <2>1 DEF StepsIn
<1>8. PICK f \in [0 .. far + 1 -> S] : IsFold(f, far + 1, out, step)
  <2>1. far + 1 \in Nat /\ out \in S
    BY <1>1 DEF AfterFeeds
  <2> HIDE DEF S
  <2>2. QED
    BY <1>7, <2>1, Folding
<1>9. Is(f)
  <2>1. f[0] = out /\ \A k \in 1 .. far + 1 : f[k] = step[k][f[k - 1]]
    BY <1>8 DEF IsFold
  <2>2. ASSUME NEW k \in 1 .. far + 1 PROVE f[k] = Once(f[k - 1], u[far + 1 - k])
    <3>1. k - 1 \in 0 .. far + 1
      OBVIOUS
    <3>2. f[k - 1] \in S
      BY <1>8, <3>1
    <3>3. step[k] = next(k)
      BY <1>6
    <3>4. f[k] = next(k)[f[k - 1]]
      BY <2>1, <3>3
    <3> HIDE DEF S
    <3>5. QED
      BY <3>2, <3>4
  <2>3. QED
    BY <1>8, <2>1, <2>2
<1>10. PICK from : from = CHOOSE g : Is(g)
  OBVIOUS
<1>11. Visit(c, out, n) = from[far + 1]
  BY <1>1, <1>2, <1>10 DEF Visit, Once, Far
<1>12. Is(from)
  <2> HIDE DEF Is
  <2>1. QED
    BY <1>9, <1>10
<1>13. from[0] = out /\ \A k \in 1 .. far + 1 : from[k] = Once(from[k - 1], u[far + 1 - k])
  BY <1>12
<1> DEFINE P == {k \in 0 .. far + 1 :
                   /\ AfterFeeds(N, c, from[k])
                   /\ \A x : Contains(out, x) => Contains(from[k], x)
                   /\ k # 0 => u[far + 1 - k] = None \/ Contains(from[k], u[far + 1 - k])}
<1>14. 0 \in P
  BY <1>13
<1>15. ASSUME NEW k \in 0 .. (far + 1) - 1, k \in P PROVE k + 1 \in P
  <2>1. PICK m \in N \cup {None} : m = u[far - k]
    BY <1>3
  <2>2. from[k + 1] = Once(from[k], m)
    <3>1. k + 1 \in 1 .. far + 1 /\ (k + 1) - 1 = k /\ far + 1 - (k + 1) = far - k
      BY <1>1
    <3>2. QED
      BY <1>13, <2>1, <3>1
  <2>3. m \in DOMAIN c => Contains(from[k], c[m])
    <3> SUFFICES ASSUME m \in DOMAIN c PROVE Contains(from[k], c[m])
      OBVIOUS
    <3>1. k # 0
      BY <1>4, <1>5, <2>1
    <3>2. far - k + 1 \in 1 .. far /\ (far - k + 1) - 1 = far - k /\ far + 1 - k = far - k + 1
      BY <3>1, <1>1
    <3>3. u[far + 1 - k] = c[m]
      BY <1>3, <2>1, <3>2
    <3>4. c[m] # None
      BY DEF ChainsIn
    <3>5. QED
      BY <1>15, <3>1, <3>3, <3>4
  <2>4. AfterFeeds(N, c, from[k]) /\ \A x : Contains(out, x) => Contains(from[k], x)
    BY <1>15
  <2>5. /\ AfterFeeds(N, c, from[k + 1])
        /\ \A x : Contains(from[k], x) => Contains(from[k + 1], x)
        /\ m # None => Contains(from[k + 1], m)
    BY <2>2, <2>3, <2>4, OnceIs
  <2>6. u[far + 1 - (k + 1)] = m
    BY <2>1
  <2>7. k + 1 \in 0 .. far + 1
    BY <1>1
  <2>8. QED
    BY <2>4, <2>5, <2>6, <2>7
<1>16. far + 1 \in P
  <2>1. 0 \in 0 .. far + 1 /\ far + 1 \in 0 .. far + 1 /\ far + 1 \in Nat
    BY <1>1
  <2> HIDE DEF P
  <2>2. \A k \in 0 .. far + 1 : k \in P
    BY <1>14, <1>15, <2>1, Climb
  <2>3. QED
    BY <2>1, <2>2
<1>17. u[far + 1 - (far + 1)] = n /\ n # None
  BY <1>1, <1>3, <1>5
<1>18. QED
  BY <1>1, <1>11, <1>16, <1>17

LEMMA OrderIs ==
  ASSUME NEW s, AreInputs(s.inputs), AreChains(s.inputs, InputChains(s))
  PROVE  /\ AfterFeeds(DOMAIN s.inputs, InputChains(s), Order(s))
         /\ \A n \in DOMAIN s.inputs : Contains(Order(s), n)
<1>1. PICK N, c : N = DOMAIN s.inputs /\ c = InputChains(s)
  OBVIOUS
<1>2. ChainsIn(N, c) /\ N \subseteq ToSet(Names)
  BY <1>1, InputChainsAre DEF AreInputs
<1>3. PICK m \in Nat : m = Len(Names)
  BY LanguageAssumption
<1> DEFINE S == {o \in Seq(N) : AfterFeeds(N, c, o)}
           one(k, o) == IF Names[k] \in N THEN Visit(c, o, Names[k]) ELSE o
           Is(g) == g = [k \in 0 .. m |-> IF k = 0 THEN <<>> ELSE one(k, g[k - 1])]
<1>4. PICK step : step = [k \in 1 .. m |-> [o \in S |-> one(k, o)]]
  OBVIOUS
<1>5. ASSUME NEW k \in 1 .. m, NEW o \in S
      PROVE  /\ one(k, o) \in S
             /\ \A x : Contains(o, x) => Contains(one(k, o), x)
             /\ Names[k] \in N => Contains(one(k, o), Names[k])
  <2>1. AfterFeeds(N, c, o)
    OBVIOUS
  <2>2. CASE Names[k] \in N
    BY <1>2, <2>1, <2>2, VisitIs DEF AfterFeeds
  <2>3. CASE Names[k] \notin N
    BY <2>1, <2>3
  <2>4. QED
    BY <2>2, <2>3
<1>6. <<>> \in S
  BY DEF AfterFeeds
<1> HIDE DEF S
<1>7. PICK f \in [0 .. m -> S] : IsFold(f, m, <<>>, step)
  <2>1. StepsIn(m, S, step)
    <3> HIDE DEF one
    <3>1. QED
      BY <1>4, <1>5 DEF StepsIn
  <2>2. QED
    BY <1>3, <1>6, <2>1, Folding
<1>8. Is(f)
  <2>1. f[0] = <<>> /\ \A k \in 1 .. m : f[k] = step[k][f[k - 1]]
    BY <1>7 DEF IsFold
  <2>2. ASSUME NEW k \in 1 .. m PROVE f[k] = one(k, f[k - 1])
    <3>1. k - 1 \in 0 .. m
      OBVIOUS
    <3>2. f[k - 1] \in S
      BY <1>7, <3>1
    <3> HIDE DEF one
    <3>3. QED
      BY <1>4, <2>1, <3>2
  <2> HIDE DEF one
  <2>3. QED
    BY <1>7, <2>1, <2>2
<1>9. PICK upTo : upTo = CHOOSE g : Is(g)
  OBVIOUS
<1>10. Order(s) = upTo[m]
  BY <1>1, <1>3, <1>9 DEF Order
<1>11. Is(upTo)
  <2> HIDE DEF Is
  <2>1. QED
    BY <1>8, <1>9
<1>12. upTo[0] = <<>> /\ \A k \in 1 .. m : upTo[k] = one(k, upTo[k - 1])
  <2> HIDE DEF one
  <2>1. QED
    BY <1>11
<1> HIDE DEF one, Is
<1> DEFINE P == {k \in 0 .. m : upTo[k] \in S /\ \A i \in 1 .. k : Names[i] \in N => Contains(upTo[k], Names[i])}
<1>13. 0 \in P
  BY <1>6, <1>12
<1>14. ASSUME NEW k \in 0 .. m - 1, k \in P PROVE k + 1 \in P
  <2>1. k + 1 \in 1 .. m /\ (k + 1) - 1 = k
    BY <1>3
  <2>2. upTo[k + 1] = one(k + 1, upTo[k]) /\ upTo[k] \in S
    BY <1>12, <1>14, <2>1
  <2>3. /\ upTo[k + 1] \in S
        /\ \A x : Contains(upTo[k], x) => Contains(upTo[k + 1], x)
        /\ Names[k + 1] \in N => Contains(upTo[k + 1], Names[k + 1])
    BY <1>5, <2>1, <2>2
  <2>4. ASSUME NEW i \in 1 .. k + 1, Names[i] \in N PROVE Contains(upTo[k + 1], Names[i])
    <3>1. CASE i = k + 1
      BY <2>3, <2>4, <3>1
    <3>2. CASE i # k + 1
      BY <1>14, <2>3, <2>4, <3>2
    <3>3. QED
      BY <3>1, <3>2
  <2>5. QED
    BY <2>1, <2>3, <2>4
<1>15. m \in P
  <2>1. 0 \in 0 .. m /\ m \in 0 .. m
    BY <1>3
  <2> HIDE DEF P
  <2>2. \A k \in 0 .. m : k \in P
    BY <1>13, <1>14, <2>1, Climb
  <2>3. QED
    BY <2>1, <2>2
<1>16. upTo[m] \in S /\ \A i \in 1 .. m : Names[i] \in N => Contains(upTo[m], Names[i])
  BY <1>15
<1>17. AfterFeeds(N, c, upTo[m])
  BY <1>16 DEF S
<1>18. ASSUME NEW n \in N PROVE Contains(upTo[m], n)
  <2>1. PICK i \in 1 .. m : n = Names[i]
    BY <1>2, <1>3, LanguageAssumption DEF ToSet
  <2>2. QED
    BY <1>16, <2>1
<1>19. QED
  BY <1>1, <1>10, <1>17, <1>18

-----------------------------------------------------------------------------
(* What is known of rules that were read.                                   *)
IsSequence(q) == Len(q) \in Nat /\ q = [k \in 1 .. Len(q) |-> q[k]]

IsTerm(inputs, o) ==
  \/ o.kind = "literal" /\ o.value \in Int
  \/ o.kind = "field" /\ o.name \in Fields /\ o.back \in 0 .. MaxBack
  \/ /\ o.kind = "input" /\ o.name \in DOMAIN inputs /\ o.back \in 0 .. MaxBack
     /\ o.line = None \/ Contains(Lines(inputs[o.name]), o.line)

IsCompare(inputs, node) ==
  /\ node = [key |-> node.key, of |-> node.of]
  /\ IsSequence(node.of) /\ Len(node.of) = IF node.key = "between" THEN 3 ELSE 2
  /\ \A k \in 1 .. Len(node.of) : IsTerm(inputs, node.of[k])
  /\ node.key \in Trends => node.of[2].kind = "literal" /\ node.of[2].value \in 1 .. MaxBack

IsCombination(node) ==
  /\ node = [key |-> node.key, of |-> node.of]
  /\ IsSequence(node.of) /\ Len(node.of) > 0 /\ (node.key = "not" => Len(node.of) = 1)

IsLevel(level) == level.type \in {"pct", "atr"} /\ (level.type = "atr" => level.period \in 1 .. MaxPeriod)

IsRead(inputs, node) ==
  /\ node.key \in Comparators \cup Brackets \cup Combinators
  /\ node.key \in Comparators => IsCompare(inputs, node)
  /\ node.key \in Combinators => IsCombination(node)
  /\ node.key \in Brackets => IsLevel(node.of)

LEMMA OperandIsTerm ==
  ASSUME NEW inputs, NEW o, o.value \in Int, ReadOperand(inputs, o) # Fault
  PROVE  IsTerm(inputs, ReadOperand(inputs, o))
<1>1. PICK r : r = ReadOperand(inputs, o)
  OBVIOUS
<1>2. CASE o.name = None
  <2>1. r = Literal(o.value)
    BY <1>1, <1>2 DEF ReadOperand
  <2>2. r.kind = "literal" /\ r.value = o.value
    BY <2>1 DEF Literal
  <2>3. QED
    BY <1>1, <2>2 DEF IsTerm
<1>3. CASE o.name # None
  <2>1. o.back \in 0 .. MaxBack /\ r = Named(inputs, o)
    BY <1>1, <1>3 DEF ReadOperand
  <2>2. CASE o.line # None
    <3>1. r = DottedLine(inputs, o)
      BY <2>1, <2>2 DEF Named
    <3>2. PICK lines : lines = Registry[inputs[o.name].indicator].lines
      OBVIOUS
    <3>3. /\ o.name \in DOMAIN inputs /\ Contains(lines, o.line)
          /\ r = [kind |-> "input", name |-> o.name, value |-> 0, back |-> o.back,
                  line |-> IF Len(lines) = 1 THEN None ELSE o.line]
      BY <1>1, <3>1, <3>2 DEF DottedLine
    <3>4. /\ r.kind = "input" /\ r.name = o.name /\ r.back = o.back
          /\ r.line = None \/ r.line = o.line
      BY <3>3
    <3>5. QED
      BY <1>1, <2>1, <3>2, <3>3, <3>4 DEF IsTerm, Lines
  <2>3. CASE o.line = None /\ o.name \in DOMAIN inputs
    <3>1. r = [kind |-> "input", name |-> o.name, line |-> None, value |-> 0, back |-> o.back]
      BY <2>1, <2>3 DEF Named
    <3>2. r.kind = "input" /\ r.name = o.name /\ r.back = o.back /\ r.line = None
      BY <3>1
    <3>3. QED
      BY <1>1, <2>1, <2>3, <3>2 DEF IsTerm
  <2>4. CASE o.line = None /\ o.name \notin DOMAIN inputs
    <3>1. /\ r = [kind |-> "field", name |-> o.name, line |-> None, value |-> 0, back |-> o.back]
          /\ o.name \in Fields
      BY <1>1, <2>1, <2>4 DEF Named
    <3>2. r.kind = "field" /\ r.name = o.name /\ r.back = o.back
      BY <3>1
    <3>3. QED
      BY <1>1, <2>1, <3>1, <3>2 DEF IsTerm
  <2>5. QED
    BY <2>2, <2>3, <2>4
<1>4. QED
  BY <1>2, <1>3

LEMMA CompareIsRead ==
  ASSUME NEW inputs, NEW node, node.key \in Comparators, IsSequence(node.of),
         \A k \in DOMAIN node.of : node.of[k].value \in Int,
         ReadCompare(inputs, node) # Fault
  PROVE  IsCompare(inputs, ReadCompare(inputs, node))
<1>10. PICK n \in Nat : n = Len(node.of)
  BY DEF IsSequence
<1>1. PICK key, of, bars, all :
        /\ key = node.key /\ n = Len(node.of)
        /\ of = [k \in 1 .. n |-> ReadOperand(inputs, node.of[k])]
        /\ bars = IF key \in Trends /\ n = 1 THEN <<Literal(1)>> ELSE <<>>
        /\ all = of \o bars
  BY <1>10
<1>2. DOMAIN node.of = 1 .. n
  BY <1>1 DEF IsSequence
<1>3. PICK r : r = ReadCompare(inputs, node)
  OBVIOUS
<1>4. n \in Arity(key) /\ Comparable(key, all) /\ r = [key |-> key, of |-> all]
  BY <1>1, <1>2, <1>3 DEF ReadCompare
<1>5. /\ key = "between" => n = 3
      /\ key \in Trends => n \in 1 .. 2
      /\ key \notin Trends \cup {"between"} => n = 2
  BY <1>4 DEF Arity, Trends
<1>6. Literal(1).kind = "literal" /\ Literal(1).value = 1
  BY DEF Literal
<1>7. CASE key \in Trends /\ n = 1
  <2>1. PICK x, y : x = of[1] /\ y = Literal(1)
    OBVIOUS
  <2>2. of = <<x>> /\ bars = <<y>>
    <3>1. of = [k \in 1 .. 1 |-> x]
      <4>1. of = [k \in 1 .. 1 |-> of[k]]
        BY <1>1, <1>7
      <4>2. \A k \in 1 .. 1 : of[k] = x
        BY <2>1
      <4>3. [k \in 1 .. 1 |-> of[k]] = [k \in 1 .. 1 |-> x]
        BY <4>2
      <4>4. QED
        BY <4>1, <4>3
    <3>2. [k \in 1 .. 1 |-> x] = <<x>>
      OBVIOUS
    <3>3. bars = <<y>>
      BY <1>1, <1>7, <2>1
    <3>4. QED
      BY <3>1, <3>2, <3>3
  <2>3. all = <<x, y>>
    BY <1>1, <2>2, PairJoined
  <2>4. Len(all) = 2 /\ all[1] = x /\ all[2] = y /\ all = [k \in 1 .. 2 |-> all[k]]
    BY <2>3
  <2>5. x # Fault
    <3>1. 1 \in DOMAIN all
      BY <2>3
    <3>2. QED
      BY <1>4, <2>4, <3>1 DEF Comparable
  <2>6. IsTerm(inputs, x)
    BY <1>1, <1>2, <1>7, <2>1, <2>5, OperandIsTerm
  <2>7. IsTerm(inputs, y)
    BY <1>6, <2>1 DEF IsTerm
  <2>8. y.kind = "literal" /\ y.value \in 1 .. MaxBack
    BY <1>4, <1>7, <2>1, <2>4 DEF Comparable
  <2>9. IsSequence(all) /\ Len(all) = 2
    BY <2>4 DEF IsSequence
  <2>10. key # "between"
    BY <1>7 DEF Trends
  <2>11. \A k \in 1 .. 2 : IsTerm(inputs, all[k])
    BY <2>4, <2>6, <2>7
  <2>12. r.key = key /\ r.of = all
    BY <1>4
  <2>13. QED
    BY <1>3, <1>4, <2>4, <2>8, <2>9, <2>10, <2>11, <2>12 DEF IsCompare
<1>8. CASE ~(key \in Trends /\ n = 1)
  <2>1. of = [k \in 1 .. n |-> of[k]] /\ bars = <<>>
    BY <1>1, <1>8
  <2>2. all = of
    BY <1>1, <2>1
  <2>3. IsSequence(all) /\ Len(all) = n /\ DOMAIN all = 1 .. n
    BY <1>1, <2>1, <2>2 DEF IsSequence
  <2>4. ASSUME NEW k \in 1 .. n PROVE IsTerm(inputs, all[k])
    <3>1. all[k] = ReadOperand(inputs, node.of[k]) /\ all[k] # Fault
      BY <1>1, <1>4, <2>2, <2>3 DEF Comparable
    <3>2. QED
      BY <1>2, <3>1, OperandIsTerm
  <2>5. n = IF key = "between" THEN 3 ELSE 2
    BY <1>5, <1>8
  <2>6. key \in Trends => all[2].kind = "literal" /\ all[2].value \in 1 .. MaxBack
    BY <1>4 DEF Comparable
  <2>7. r.key = key /\ r.of = all
    BY <1>4
  <2>8. QED
    BY <1>3, <1>4, <2>3, <2>4, <2>5, <2>6, <2>7 DEF IsCompare
<1>9. QED
  BY <1>7, <1>8

LEMMA NodeIsRead ==
  ASSUME NEW inputs, NEW i, NEW node, IsNode(node, i), ReadNode(inputs, node) # Fault
  PROVE  IsRead(inputs, ReadNode(inputs, node))
<1>1. PICK r : r = ReadNode(inputs, node)
  OBVIOUS
<1>2. r.key = node.key /\ node.key \in Comparators \cup Brackets \cup Combinators
  BY <1>1, NodeIsReadAgain
<1>3. Comparators \cap Brackets = {} /\ Comparators \cap Combinators = {} /\ Brackets \cap Combinators = {}
  BY DEF Comparators, Plain, Crossings, Trends, Brackets, Combinators
<1>4. CASE node.key \in Comparators
  <2>1. r = ReadCompare(inputs, node)
    BY <1>1, <1>3, <1>4 DEF ReadNode
  <2>2. IsSequence(node.of) /\ \A k \in DOMAIN node.of : node.of[k].value \in Int
    BY <1>4 DEF IsNode, IsSequence
  <2>3. IsCompare(inputs, r)
    BY <1>1, <1>4, <2>1, <2>2, CompareIsRead
  <2>4. QED
    BY <1>1, <1>2, <1>3, <1>4, <2>3 DEF IsRead
<1>5. CASE node.key \in Brackets
  <2>1. r = node /\ ReadLevel(node.of) # Fault
    BY <1>1, <1>3, <1>5 DEF ReadNode
  <2>2. IsLevel(node.of)
    BY <2>1 DEF ReadLevel, IsLevel
  <2>3. QED
    BY <1>1, <1>2, <1>3, <1>5, <2>1, <2>2 DEF IsRead
<1>6. CASE node.key \in Combinators
  <2>1. r = node /\ node.of # <<>>
    BY <1>1, <1>3, <1>6 DEF ReadNode
  <2>2. IsSequence(node.of) /\ node = [key |-> node.key, of |-> node.of] /\ (node.key = "not" => Len(node.of) <= 1)
    BY <1>6 DEF IsNode, IsSequence
  <2>3. Len(node.of) > 0
    <3>1. PICK m \in Nat : m = Len(node.of)
      BY <2>2 DEF IsSequence
    <3>2. PICK q : q = node.of
      OBVIOUS
    <3>3. q = [k \in 1 .. m |-> q[k]]
      BY <2>2, <3>1, <3>2 DEF IsSequence
    <3>4. m # 0
      BY <2>1, <3>2, <3>3
    <3>5. QED
      BY <3>1, <3>4
  <2>4. IsCombination(node)
    <3>1. PICK m \in Nat : m = Len(node.of)
      BY <2>2 DEF IsSequence
    <3>2. ASSUME node.key = "not" PROVE Len(node.of) = 1
      <4>1. m <= 1
        BY <2>2, <3>1, <3>2
      <4>2. m > 0
        BY <2>3, <3>1
      <4>3. m = 1
        BY <4>1, <4>2
      <4>4. QED
        BY <3>1, <4>3
    <3>3. QED
      BY <2>2, <2>3, <3>2 DEF IsCombination
  <2>5. QED
    BY <1>1, <1>2, <1>3, <1>6, <2>1, <2>4 DEF IsRead
<1>7. QED
  BY <1>2, <1>4, <1>5, <1>6

(* What is known of a spec that was read.                                   *)
IsSpec(s) ==
  /\ AreInputs(s.inputs) /\ AreChains(s.inputs, InputChains(s))
  /\ IsTree(s.rules) /\ \A i \in 1 .. Len(s.rules) : IsRead(s.inputs, s.rules[i])
  /\ \A leg \in Legs : /\ s.entry[leg] \in 0 .. Len(s.rules) /\ s.exit[leg] \in 0 .. Len(s.rules)
                       /\ s.exit[leg] # 0 => s.entry[leg] # 0
  /\ RiskHasStops(s.rules, s)

LEMMA SpecIs ==
  ASSUME NEW d, IsDraft(d), Parse(d) # Fault
  PROVE  IsSpec(Parse(d))
<1>1. PICK s, inputs, rules, costs : s = Parse(d) /\ IsParsed(s, d, inputs, rules, costs)
  BY ParsedIs
<1>2. PICK n \in Nat : n = Len(d.rules)
  BY DEF IsDraft
<1>3. /\ s.inputs = inputs /\ s.rules = rules /\ s.entry = d.entry /\ s.exit = d.exit /\ s.sizing = d.sizing
      /\ inputs = ReadInputs(d.inputs) /\ rules = ReadRules(inputs, d.rules)
      /\ Accepted(d, inputs, rules, costs)
  BY <1>1 DEF IsParsed, Parts
<1>4. /\ inputs # Fault /\ Clean(rules)
      /\ \A leg \in {"long", "short"} : d.exit[leg] # 0 => d.entry[leg] # 0
      /\ RiskHasStops(rules, d)
  BY <1>3 DEF Accepted, Clean
<1>5. AreInputs(inputs) /\ AreChains(inputs, [m \in {k \in DOMAIN inputs : Feeds(inputs[k])} |-> inputs[m].source])
  BY <1>3, <1>4, InputsAre
<1>6. InputChains(s) = [m \in {k \in DOMAIN inputs : Feeds(inputs[k])} |-> inputs[m].source]
  BY <1>3 DEF InputChains, Feeds
<1>7. PICK written : written = WrittenRules(rules)
  OBVIOUS
<1>8. /\ Ordered(rules) /\ Len(rules) = n
      /\ \A i \in 1 .. n : rules[i].key = d.rules[i].key
  <2>1. SameButRead(rules, d.rules)
    BY <1>3, <1>4, <1>7, ReadRulesAre
  <2>2. QED
    BY <1>2, <2>1 DEF SameButRead
<1>9. ASSUME NEW i \in 1 .. n PROVE IsRead(inputs, rules[i])
  <2>1. IsNode(d.rules[i], i)
    BY <1>2 DEF IsDraft
  <2>2. DOMAIN d.rules = 1 .. n /\ DOMAIN rules = 1 .. n
    BY <1>2, <1>3 DEF ReadRules, IsDraft
  <2>3. rules[i] = ReadNode(inputs, d.rules[i]) /\ rules[i] # Fault
    BY <1>3, <1>4, <2>2 DEF ReadRules, Clean
  <2>4. QED
    BY <2>1, <2>3, NodeIsRead
<1>10. IsTree(rules)
  <2> SUFFICES ASSUME NEW i \in 1 .. n, rules[i].key = "any"
               PROVE  /\ rules[i] = [key |-> "any", of |-> rules[i].of]
                      /\ IsSequence(rules[i].of)
    BY <1>8 DEF IsTree, IsSequence
  <2>1. "any" \in Combinators
    BY DEF Combinators
  <2>2. IsCombination(rules[i])
    BY <1>9, <2>1 DEF IsRead
  <2>3. QED
    BY <2>2 DEF IsCombination
<1>11. ASSUME NEW leg \in Legs
       PROVE  /\ d.entry[leg] \in 0 .. n /\ d.exit[leg] \in 0 .. n
              /\ d.exit[leg] # 0 => d.entry[leg] # 0
  BY <1>2, <1>4 DEF IsDraft, Legs
<1>12. RiskHasStops(rules, s)
  BY <1>3, <1>4 DEF RiskHasStops
<1>13. QED
  BY <1>1, <1>3, <1>5, <1>6, <1>8, <1>9, <1>10, <1>11, <1>12 DEF IsSpec

-----------------------------------------------------------------------------
(* Units and slots that stand together: a unit is fed by the slot of one    *)
(* before it, and none of them is there twice.                              *)
AllKeys  == [indicator : DOMAIN Registry, period : Nat \ {0}, source : Sources]
AllUnits == [key : AllKeys, feed : Nat]
AllSlots == [unit : Nat, output : 1 .. 2]

Distinct(q) == \A i, j \in 1 .. Len(q) : q[i] = q[j] => i = j

Chained(units, slots) ==
  /\ units \in Seq(AllUnits) /\ slots \in Seq(AllSlots)
  /\ \A u \in 1 .. Len(units) : units[u].feed # 0 =>
       units[u].feed \in 1 .. Len(slots) /\ slots[units[u].feed].unit \in 1 .. u - 1
  /\ \A s \in 1 .. Len(slots) : slots[s].unit \in 1 .. Len(units)

Sound(N, b) ==
  /\ b \in [units : Seq(AllUnits), slots : Seq(AllSlots), index : [N -> Nat]]
  /\ Chained(b.units, b.slots) /\ Distinct(b.units) /\ Distinct(b.slots)
  /\ \A n \in N : b.index[n] \in 0 .. Len(b.slots)

Prefix(q, r) == Len(q) <= Len(r) /\ \A i \in 1 .. Len(q) : r[i] = q[i]
Grows(b, c) == Prefix(b.units, c.units) /\ Prefix(b.slots, c.slots)

HasLine(b, key, feed, output, s) ==
  /\ s \in 1 .. Len(b.slots)
  /\ \E u \in 1 .. Len(b.units) : /\ b.units[u] = [key |-> key, feed |-> feed]
                                  /\ b.slots[s] = [unit |-> u, output |-> output]

LEMMA FirstIs ==
  ASSUME NEW T, NEW q \in Seq(T), Distinct(q), NEW e, NEW at, at = Place(q, e)
  PROVE  /\ \A i \in 1 .. Len(q) : q[i] = e => at = i
         /\ at # 0 => at \in 1 .. Len(q) /\ q[at] = e
         /\ at = 0 => \A i \in 1 .. Len(q) : q[i] # e
<1> DEFINE S == {i \in DOMAIN q : q[i] = e}
<1>1. DOMAIN q = 1 .. Len(q) /\ Len(q) \in Nat
  OBVIOUS
<1>2. CASE S = {}
  BY <1>1, <1>2 DEF Place
<1>3. CASE S # {}
  <2>1. PICK x \in S : TRUE
    BY <1>3
  <2>2. x \in 1 .. Len(q) /\ q[x] = e /\ x # 0
    BY <1>1, <2>1
  <2>3. \A y \in S : y = x
    BY <1>1, <2>2 DEF Distinct
  <2>4. S \in SUBSET Int
    BY <1>1
  <2> HIDE DEF S
  <2>5. Min(S) = x
    <3>1. \A y \in S : x <= y
      BY <2>2, <2>3
    <3>2. QED
      BY <2>1, <2>4, <3>1, MinIs
  <2>6. at = x
    BY <1>3, <2>5 DEF Place, S
  <2>7. QED
    BY <1>1, <2>2, <2>3, <2>6 DEF S
<1>4. QED
  BY <1>2, <1>3

LEMMA AppendedOnce ==
  ASSUME NEW T, NEW q \in Seq(T), Distinct(q), NEW e \in T, \A i \in 1 .. Len(q) : q[i] # e,
         NEW r \in Seq(T), Len(r) = Len(q) + 1, r[Len(q) + 1] = e, \A i \in 1 .. Len(q) : r[i] = q[i]
  PROVE  Distinct(r) /\ Place(r, e) = Len(q) + 1
<1>1. PICK l \in Nat : l = Len(q)
  OBVIOUS
<1>2. Distinct(r)
  <2> SUFFICES ASSUME NEW i \in 1 .. l + 1, NEW j \in 1 .. l + 1, r[i] = r[j] PROVE i = j
    BY <1>1 DEF Distinct
  <2>1. CASE i = l + 1 /\ j # l + 1
    BY <1>1, <2>1
  <2>2. CASE i # l + 1 /\ j = l + 1
    BY <1>1, <2>2
  <2>3. CASE i # l + 1 /\ j # l + 1
    <3>1. i \in 1 .. l /\ j \in 1 .. l
      BY <2>3
    <3>2. q[i] = q[j]
      BY <1>1, <3>1
    <3>3. QED
      BY <1>1, <3>1, <3>2 DEF Distinct
  <2>4. QED
    BY <2>1, <2>2, <2>3
<1>3. l + 1 \in 1 .. Len(r) /\ r[l + 1] = e
  BY <1>1
<1>4. Place(r, e) = l + 1
  BY <1>2, <1>3, FirstIs
<1>5. QED
  BY <1>1, <1>2, <1>4

LEMMA AddedOnce ==
  ASSUME NEW T, NEW q \in Seq(T), Distinct(q), NEW e \in T
  PROVE  /\ Added(q, e) \in Seq(T) /\ Distinct(Added(q, e)) /\ Prefix(q, Added(q, e))
         /\ \A i \in 1 .. Len(Added(q, e)) : i \notin 1 .. Len(q) => i = Len(q) + 1 /\ Added(q, e)[i] = e
         /\ Place(Added(q, e), e) \in 1 .. Len(Added(q, e)) /\ Added(q, e)[Place(Added(q, e), e)] = e
<1>1. CASE Place(q, e) # 0
  <2>1. Added(q, e) = q
    BY <1>1 DEF Added
  <2>2. Place(q, e) \in 1 .. Len(q) /\ q[Place(q, e)] = e
    BY <1>1, FirstIs
  <2>3. QED
    BY <2>1, <2>2 DEF Prefix
<1>2. CASE Place(q, e) = 0
  <2>1. \A i \in 1 .. Len(q) : q[i] # e
    BY <1>2, FirstIs
  <2>2. Added(q, e) = Append(q, e)
    BY <1>2 DEF Added
  <2>3. PICK r \in Seq(T) : r = Added(q, e) /\ Len(r) = Len(q) + 1 /\ r[Len(q) + 1] = e
                         /\ \A i \in 1 .. Len(q) : r[i] = q[i]
    BY <2>2
  <2>4. Distinct(r) /\ Place(r, e) = Len(q) + 1
    BY <2>1, <2>3, AppendedOnce
  <2>5. Prefix(q, r)
    BY <2>3 DEF Prefix
  <2>6. \A i \in 1 .. Len(r) : i \notin 1 .. Len(q) => i = Len(q) + 1 /\ r[i] = e
    BY <2>3
  <2>7. QED
    BY <2>3, <2>4, <2>5, <2>6
<1>3. QED
  BY <1>1, <1>2

(* What is found is what stands there.                                      *)
LEMMA LineIsFound ==
  ASSUME NEW N, NEW b, Sound(N, b), NEW key, NEW feed, NEW output, NEW s, HasLine(b, key, feed, output, s)
  PROVE  LineSlot(b, key, feed, output) = s
<1>1. PICK u \in 1 .. Len(b.units) : /\ b.units[u] = [key |-> key, feed |-> feed]
                                     /\ b.slots[s] = [unit |-> u, output |-> output]
  BY DEF HasLine
<1>2. UnitOf(b, key, feed) = u
  <2>1. b.units \in Seq(AllUnits) /\ Distinct(b.units)
    BY DEF Sound
  <2>2. QED
    BY <1>1, <2>1, FirstIs DEF UnitOf
<1>3. SlotOf(b, u, output) = s
  <2>1. b.slots \in Seq(AllSlots) /\ Distinct(b.slots) /\ s \in 1 .. Len(b.slots)
    BY DEF Sound, HasLine
  <2>2. QED
    BY <1>1, <2>1, FirstIs DEF SlotOf
<1>4. QED
  BY <1>2, <1>3 DEF LineSlot

LEMMA LineIsKept ==
  ASSUME NEW N, NEW b, Sound(N, b), NEW c, Sound(N, c), Grows(b, c),
         NEW key, NEW feed, NEW output, NEW s, HasLine(b, key, feed, output, s)
  PROVE  HasLine(c, key, feed, output, s)
<1>1. PICK u \in 1 .. Len(b.units) : /\ b.units[u] = [key |-> key, feed |-> feed]
                                     /\ b.slots[s] = [unit |-> u, output |-> output]
  BY DEF HasLine
<1>2. Len(b.units) \in Nat /\ Len(c.units) \in Nat /\ Len(b.slots) \in Nat /\ Len(c.slots) \in Nat
  BY DEF Sound
<1>3. u \in 1 .. Len(c.units) /\ c.units[u] = b.units[u] /\ s \in 1 .. Len(c.slots) /\ c.slots[s] = b.slots[s]
  <2>1. Prefix(b.units, c.units) /\ Prefix(b.slots, c.slots)
    BY DEF Grows
  <2>2. u \in 1 .. Len(c.units) /\ c.units[u] = b.units[u]
    BY <1>2, <2>1 DEF Prefix
  <2>3. s \in 1 .. Len(b.slots)
    BY DEF HasLine
  <2>4. s \in 1 .. Len(c.slots) /\ c.slots[s] = b.slots[s]
    BY <1>2, <2>1, <2>3 DEF Prefix
  <2>5. QED
    BY <2>2, <2>4
<1>4. QED
  BY <1>1, <1>3 DEF HasLine

LEMMA PrefixOfPrefix ==
  ASSUME NEW T, NEW q \in Seq(T), NEW r \in Seq(T), NEW t \in Seq(T), Prefix(q, r), Prefix(r, t)
  PROVE  Prefix(q, t)
  BY DEF Prefix

LEMMA GrowsOn ==
  ASSUME NEW N, NEW b, Sound(N, b), NEW c, Sound(N, c), NEW d, Sound(N, d), Grows(b, c), Grows(c, d)
  PROVE  Grows(b, d)
<1>1. /\ {b.units, c.units, d.units} \subseteq Seq(AllUnits)
      /\ {b.slots, c.slots, d.slots} \subseteq Seq(AllSlots)
  BY DEF Sound
<1>2. Prefix(b.units, d.units)
  BY <1>1, PrefixOfPrefix DEF Grows
<1>3. Prefix(b.slots, d.slots)
  BY <1>1, PrefixOfPrefix DEF Grows
<1>4. QED
  BY <1>2, <1>3 DEF Grows

LEMMA AttachIs ==
  ASSUME NEW N, NEW b, Sound(N, b), NEW key \in AllKeys, NEW feed \in 0 .. Len(b.slots), NEW output \in 1 .. 2,
         NEW c, c = Attach(b, key, feed, output)
  PROVE  /\ Sound(N, c) /\ Grows(b, c) /\ c.index = b.index
         /\ HasLine(c, key, feed, output, LineSlot(c, key, feed, output))
<1>3. b = [units |-> b.units, slots |-> b.slots, index |-> b.index]
  BY DEF Sound
<1>4. PICK u0, s0, x0 : u0 = b.units /\ s0 = b.slots /\ x0 = b.index
                      /\ b = [units |-> u0, slots |-> s0, index |-> x0]
  BY <1>3
<1>5. /\ u0 \in Seq(AllUnits) /\ s0 \in Seq(AllSlots) /\ x0 \in [N -> Nat]
      /\ Chained(u0, s0) /\ Distinct(u0) /\ Distinct(s0)
      /\ \A n \in N : x0[n] \in 0 .. Len(s0)
  BY <1>4 DEF Sound
<1>8. PICK l \in Nat, m \in Nat : l = Len(u0) /\ m = Len(s0)
  BY <1>5
<1>9. feed \in 0 .. m
  BY <1>4, <1>8
<1> DEFINE e == [key |-> key, feed |-> feed]
<1>10. PICK units, unit :
          /\ units = Added(u0, e) /\ unit = Place(units, e)
          /\ units \in Seq(AllUnits) /\ Distinct(units) /\ Prefix(u0, units)
          /\ \A i \in 1 .. Len(units) : i \notin 1 .. l => i = l + 1 /\ units[i] = e
          /\ unit \in 1 .. Len(units) /\ units[unit] = e
  <2>1. e \in AllUnits
    BY <1>9 DEF AllUnits
  <2> HIDE DEF e
  <2>2. QED
    BY <1>5, <1>8, <2>1, AddedOnce
<1> DEFINE g == [unit |-> unit, output |-> output]
<1>11. PICK slots :
          /\ slots = Added(s0, g)
          /\ slots \in Seq(AllSlots) /\ Distinct(slots) /\ Prefix(s0, slots)
          /\ \A i \in 1 .. Len(slots) : i \notin 1 .. m => i = m + 1 /\ slots[i] = g
          /\ Place(slots, g) \in 1 .. Len(slots) /\ slots[Place(slots, g)] = g
  <2>1. g \in AllSlots
    BY <1>10 DEF AllSlots
  <2> HIDE DEF g
  <2>2. QED
    BY <1>5, <1>8, <2>1, AddedOnce
<1>2. c = [b EXCEPT !.units = units, !.slots = slots]
  BY <1>4, <1>10, <1>11 DEF Attach
<1>6. c = [units |-> units, slots |-> slots, index |-> x0]
  <2>1. [[units |-> u0, slots |-> s0, index |-> x0] EXCEPT !.units = units, !.slots = slots]
          = [[[units |-> u0, slots |-> s0, index |-> x0] EXCEPT !.units = units] EXCEPT !.slots = slots]
    OBVIOUS
  <2>2. [[units |-> u0, slots |-> s0, index |-> x0] EXCEPT !.units = units]
          = [units |-> units, slots |-> s0, index |-> x0]
    OBVIOUS
  <2>3. [[units |-> units, slots |-> s0, index |-> x0] EXCEPT !.slots = slots]
          = [units |-> units, slots |-> slots, index |-> x0]
    OBVIOUS
  <2>4. QED
    BY <1>2, <1>4, <2>1, <2>2, <2>3
<1>7. c.units = units /\ c.slots = slots /\ c.index = x0
  BY <1>6
<1>12. UnitOf(c, key, feed) = unit /\ SlotOf(c, unit, output) = Place(slots, g)
  BY <1>7, <1>10 DEF UnitOf, SlotOf
<1>13. PICK lu \in Nat, ls \in Nat : lu = Len(units) /\ ls = Len(slots) /\ l <= lu /\ m <= ls
  BY <1>8, <1>10, <1>11 DEF Prefix
<1>14. ASSUME NEW i \in 1 .. lu, units[i].feed # 0
       PROVE  units[i].feed \in 1 .. ls /\ slots[units[i].feed].unit \in 1 .. i - 1
  <2>1. CASE i \in 1 .. l
    <3>1. units[i] = u0[i]
      BY <1>8, <1>10, <2>1 DEF Prefix
    <3>2. PICK fd : fd = u0[i].feed
      OBVIOUS
    <3>3. fd \in 1 .. m /\ s0[fd].unit \in 1 .. i - 1
      BY <1>5, <1>8, <1>14, <2>1, <3>1, <3>2 DEF Chained
    <3>4. slots[fd] = s0[fd] /\ fd \in 1 .. ls
      BY <1>8, <1>11, <1>13, <3>3 DEF Prefix
    <3>5. QED
      BY <3>1, <3>2, <3>3, <3>4
  <2>2. CASE i \notin 1 .. l
    <3>1. i = l + 1 /\ units[i].feed = feed
      BY <1>10, <1>13, <2>2
    <3>2. feed \in 1 .. m
      BY <1>9, <1>14, <3>1
    <3>3. s0[feed].unit \in 1 .. l
      BY <1>5, <1>8, <3>2 DEF Chained
    <3>4. slots[feed] = s0[feed] /\ feed \in 1 .. ls
      BY <1>8, <1>11, <1>13, <3>2 DEF Prefix
    <3>5. QED
      BY <3>1, <3>3, <3>4
  <2>3. QED
    BY <2>1, <2>2
<1>15. ASSUME NEW i \in 1 .. ls PROVE slots[i].unit \in 1 .. lu
  <2>1. CASE i \in 1 .. m
    <3>1. slots[i] = s0[i]
      BY <1>8, <1>11, <2>1 DEF Prefix
    <3>2. s0[i].unit \in 1 .. l
      BY <1>5, <1>8, <2>1 DEF Chained
    <3>3. QED
      BY <1>13, <3>1, <3>2
  <2>2. CASE i \notin 1 .. m
    <3>1. slots[i].unit = unit
      BY <1>11, <1>13, <2>2
    <3>2. QED
      BY <1>10, <1>13, <3>1
  <2>3. QED
    BY <2>1, <2>2
<1>16. Chained(units, slots)
  BY <1>10, <1>11, <1>13, <1>14, <1>15 DEF Chained
<1>17. \A n \in N : x0[n] \in 0 .. ls
  BY <1>5, <1>8, <1>13
<1>18. c \in [units : Seq(AllUnits), slots : Seq(AllSlots), index : [N -> Nat]]
  BY <1>5, <1>6, <1>10, <1>11
<1>19. Sound(N, c)
  BY <1>7, <1>10, <1>11, <1>13, <1>16, <1>17, <1>18 DEF Sound
<1>20. Grows(b, c)
  BY <1>4, <1>7, <1>10, <1>11 DEF Grows
<1>21. HasLine(c, key, feed, output, LineSlot(c, key, feed, output))
  <2>1. LineSlot(c, key, feed, output) = Place(slots, g)
    BY <1>12 DEF LineSlot
  <2>2. QED
    BY <1>7, <1>10, <1>11, <2>1 DEF HasLine
<1>22. QED
  BY <1>4, <1>7, <1>19, <1>20, <1>21

-----------------------------------------------------------------------------
(* The builder: what every input and every rule asks for is there.          *)
Builders(N) ==
  {b \in [units : Seq(AllUnits), slots : Seq(AllSlots), index : [N -> Nat]] : Sound(N, b)}

OutputOf(input) == Pos(Lines(input), input.output)

HasInput(b, s, n) == HasLine(b, Key(s.inputs[n]), FeedOf(b, s, n), OutputOf(s.inputs[n]), b.index[n])

Built(b, s, n) ==
  /\ HasInput(b, s, n)
  /\ n \in DOMAIN InputChains(s) => b.index[InputChains(s)[n]] # 0

AllBuilt(b, s, D) == \A n \in D : Built(b, s, n)

Feeders(chains, D, E) == \A m \in E : m \in DOMAIN chains => chains[m] \in D

(* An input that is built again is the slot it was.                         *)
IsAdded(b, c, s, n, slot) ==
  /\ c.index = [b.index EXCEPT ![n] = slot]
  /\ HasLine(c, Key(s.inputs[n]), FeedOf(b, s, n), OutputOf(s.inputs[n]), slot)
  /\ HasInput(b, s, n) => slot = b.index[n]

LEMMA PlaceOfLine ==
  ASSUME NEW input, input.indicator \in DOMAIN Registry, NEW line, Contains(Lines(input), line)
  PROVE  Pos(Lines(input), line) \in 1 .. 2
<1>1. PICK lines : lines = Lines(input)
  OBVIOUS
<1>2. Len(lines) \in 1 .. 2 /\ DOMAIN lines = 1 .. Len(lines)
  <2>1. DOMAIN Registry = {"sma", "bbands", "atr"}
    BY DEF Registry
  <2>2. lines = Registry[input.indicator].lines
    BY <1>1 DEF Lines
  <2>3. lines \in {<<"sma">>, <<"middle", "upper">>, <<"atr">>}
    BY <2>1, <2>2 DEF Registry
  <2>4. QED
    BY <2>3
<1>3. \E k \in DOMAIN lines : lines[k] = line
  BY <1>1, <1>2 DEF Contains
<1>4. Pos(lines, line) \in DOMAIN lines
  BY <1>3 DEF Pos
<1>5. QED
  BY <1>1, <1>2, <1>4

LEMMA InputKeyIs ==
  ASSUME NEW inputs, NEW input, IsInput(inputs, input)
  PROVE  Key(input) \in AllKeys /\ OutputOf(input) \in 1 .. 2
<1>1. input.indicator \in DOMAIN Registry /\ input.period \in Nat \ {0}
  BY LanguageAssumption DEF IsInput
<1>2. (IF input.source \in Sources THEN input.source ELSE "close") \in Sources
  BY DEF Sources
<1>3. Key(input) \in AllKeys
  BY <1>1, <1>2 DEF Key, AllKeys
<1>4. QED
  BY <1>1, <1>3, PlaceOfLine DEF IsInput, OutputOf

LEMMA AddInputIs ==
  ASSUME NEW s, AreInputs(s.inputs), AreChains(s.inputs, InputChains(s)),
         NEW N, N = DOMAIN s.inputs, NEW b, Sound(N, b), NEW n \in N,
         NEW c, c = AddInput(b, s, n)
  PROVE  /\ Sound(N, c) /\ Grows(b, c)
         /\ \E slot : IsAdded(b, c, s, n, slot)
<1>1. PICK input, key, feed, output :
        /\ input = s.inputs[n] /\ key = Key(input) /\ feed = FeedOf(b, s, n) /\ output = OutputOf(input)
  OBVIOUS
<1>2. PICK a : a = Attach(b, key, feed, output)
  OBVIOUS
<1>3. PICK slot : slot = LineSlot(a, key, feed, output)
  OBVIOUS
<1>4. c = [a EXCEPT !.index[n] = slot]
  BY <1>1, <1>2, <1>3 DEF AddInput, OutputOf, Lines
<1>5. IsInput(s.inputs, input)
  BY <1>1 DEF AreInputs
<1>6. key \in AllKeys /\ output \in 1 .. 2
  BY <1>1, <1>5, InputKeyIs
<1>7. feed \in 0 .. Len(b.slots)
  <2>1. Len(b.slots) \in Nat /\ \A m \in N : b.index[m] \in 0 .. Len(b.slots)
    BY DEF Sound
  <2>2. ChainsIn(N, InputChains(s))
    BY InputChainsAre
  <2>3. n \in DOMAIN InputChains(s) => InputChains(s)[n] \in N
    BY <2>2 DEF ChainsIn
  <2>4. QED
    BY <1>1, <2>1, <2>3 DEF FeedOf
<1>8. /\ Sound(N, a) /\ Grows(b, a) /\ a.index = b.index
      /\ HasLine(a, key, feed, output, slot)
  BY <1>2, <1>3, <1>6, <1>7, AttachIs
<1>9. PICK units, slots, index :
        /\ a = [units |-> units, slots |-> slots, index |-> index]
        /\ units \in Seq(AllUnits) /\ slots \in Seq(AllSlots) /\ index \in [N -> Nat]
  BY <1>8 DEF Sound
<1>10. c = [units |-> units, slots |-> slots, index |-> [index EXCEPT ![n] = slot]]
  <2>1. c = [[units |-> units, slots |-> slots, index |-> index] EXCEPT !.index[n] = slot]
    BY <1>4, <1>9
  <2> HIDE <1>4, <1>9
  <2>2. QED
    BY <2>1
<1>11. c.units = a.units /\ c.slots = a.slots /\ c.index = [b.index EXCEPT ![n] = slot]
  <2>1. a.units = units /\ a.slots = slots /\ a.index = index
    BY <1>9
  <2>2. c.units = units /\ c.slots = slots /\ c.index = [index EXCEPT ![n] = slot]
    BY <1>10
  <2>3. index = b.index
    BY <1>8, <2>1
  <2> HIDE <1>9, <1>10
  <2>4. QED
    BY <2>1, <2>2, <2>3
<1>12. slot \in 1 .. Len(slots) /\ slot \in Nat
  BY <1>8, <1>9 DEF HasLine
<1>13. Sound(N, c)
  <2>1. c \in [units : Seq(AllUnits), slots : Seq(AllSlots), index : [N -> Nat]]
    BY <1>9, <1>10, <1>12
  <2>2. \A m \in N : c.index[m] \in 0 .. Len(c.slots)
    <3> SUFFICES ASSUME NEW m \in N PROVE c.index[m] \in 0 .. Len(c.slots)
      OBVIOUS
    <3>1. index[m] \in 0 .. Len(slots) /\ Len(slots) \in Nat
      BY <1>8, <1>9 DEF Sound
    <3>2. c.index[m] = IF m = n THEN slot ELSE index[m]
      BY <1>9, <1>10
    <3>3. QED
      BY <1>9, <1>10, <1>12, <3>1, <3>2
  <2>3. QED
    BY <1>8, <1>11, <2>1, <2>2 DEF Sound
<1>14. Grows(b, c) /\ HasLine(c, key, feed, output, slot)
  BY <1>8, <1>11 DEF Grows, HasLine
<1>15. HasInput(b, s, n) => slot = b.index[n]
  <2> SUFFICES ASSUME HasInput(b, s, n) PROVE slot = b.index[n]
    OBVIOUS
  <2>1. HasLine(b, key, feed, output, b.index[n])
    BY <1>1 DEF HasInput
  <2>2. HasLine(a, key, feed, output, b.index[n])
    BY <1>8, <2>1, LineIsKept
  <2>3. QED
    BY <1>3, <1>8, <2>2, LineIsFound
<1>16. QED
  BY <1>1, <1>11, <1>13, <1>14, <1>15 DEF IsAdded

LEMMA InputIsBuilt ==
  ASSUME NEW s, AreInputs(s.inputs), AreChains(s.inputs, InputChains(s)),
         NEW N, N = DOMAIN s.inputs, NEW b, Sound(N, b), NEW n \in N,
         NEW c, c = AddInput(b, s, n),
         NEW D \in SUBSET N, Feeders(InputChains(s), D, D \cup {n}), AllBuilt(b, s, D)
  PROVE  AllBuilt(c, s, D \cup {n})
<1> USE DEF Feeders, AllBuilt
<1>1. PICK chains : chains = InputChains(s)
  OBVIOUS
<1>2. Sound(N, c) /\ Grows(b, c)
  BY AddInputIs
<1>10. PICK slot : IsAdded(b, c, s, n, slot)
  BY AddInputIs
<1>3. /\ c.index = [b.index EXCEPT ![n] = slot]
      /\ HasLine(c, Key(s.inputs[n]), FeedOf(b, s, n), OutputOf(s.inputs[n]), slot)
      /\ HasInput(b, s, n) => slot = b.index[n]
  BY <1>10 DEF IsAdded
<1>4. b.index \in [N -> Nat]
  BY DEF Sound
<1>5. c.index[n] = slot /\ \A m \in N : m # n => c.index[m] = b.index[m]
  BY <1>3, <1>4
<1>6. \A m \in D : c.index[m] = b.index[m]
  BY <1>3, <1>5 DEF Built
<1>7. ASSUME NEW m \in D \cup {n} PROVE FeedOf(c, s, m) = FeedOf(b, s, m)
  BY <1>1, <1>6 DEF FeedOf
<1>8. ASSUME NEW m \in D \cup {n} PROVE Built(c, s, m)
  <2>1. HasLine(c, Key(s.inputs[m]), FeedOf(c, s, m), OutputOf(s.inputs[m]), c.index[m])
    <3>1. CASE m = n
      BY <1>3, <1>5, <1>7, <3>1
    <3>2. CASE m # n
      <4>1. m \in D
        BY <3>2
      <4>2. HasLine(b, Key(s.inputs[m]), FeedOf(b, s, m), OutputOf(s.inputs[m]), b.index[m])
        BY <4>1 DEF Built, HasInput
      <4>3. HasLine(c, Key(s.inputs[m]), FeedOf(b, s, m), OutputOf(s.inputs[m]), b.index[m])
        BY <1>2, <4>2, LineIsKept
      <4>4. QED
        BY <1>6, <1>7, <4>1, <4>3
    <3>3. QED
      BY <3>1, <3>2
  <2>2. ASSUME m \in DOMAIN chains PROVE c.index[chains[m]] # 0
    <3>1. chains[m] \in D
      BY <1>1, <2>2
    <3>2. b.index[chains[m]] \in 1 .. Len(b.slots)
      BY <3>1 DEF Built, HasInput, HasLine
    <3>3. QED
      BY <1>6, <3>1, <3>2
  <2>3. QED
    BY <1>1, <2>1, <2>2 DEF Built, HasInput
<1>9. QED
  BY <1>8

LEMMA InputsAreBuilt ==
  ASSUME NEW s, AreInputs(s.inputs), AreChains(s.inputs, InputChains(s)),
         NEW N, N = DOMAIN s.inputs, NEW b, Sound(N, b)
  PROVE  Sound(N, Inputs(b, s)) /\ AllBuilt(Inputs(b, s), s, N)
<1>1. PICK o : o = Order(s)
  OBVIOUS
<1>2. PICK chains : chains = InputChains(s)
  OBVIOUS
<1>3. /\ o \in Seq(N) /\ \A n \in N : Contains(o, n)
      /\ \A k \in 1 .. Len(o) : o[k] \in DOMAIN chains => \E j \in 1 .. k - 1 : o[j] = chains[o[k]]
  BY <1>1, <1>2, OrderIs DEF AfterFeeds
<1>4. PICK l \in Nat : l = Len(o)
  BY <1>3
<1> DEFINE one(k, x) == AddInput(x, s, o[k])
           Is(g) == g = [k \in 0 .. l |-> IF k = 0 THEN b ELSE one(k, g[k - 1])]
           S == Builders(N)
<1>5. ASSUME NEW k \in 1 .. l, NEW x \in S PROVE one(k, x) \in S
  <2>1. o[k] \in N
    BY <1>3, <1>4
  <2>2. Sound(N, one(k, x))
    BY <2>1, AddInputIs DEF Builders
  <2>3. QED
    BY <2>2 DEF Builders, Sound
<1>6. b \in S
  BY DEF Builders, Sound
<1>7. PICK step : step = [k \in 1 .. l |-> [x \in S |-> one(k, x)]]
  OBVIOUS
<1> HIDE DEF S, one
<1>8. PICK f \in [0 .. l -> S] : IsFold(f, l, b, step)
  <2>1. StepsIn(l, S, step)
    BY <1>5, <1>7 DEF StepsIn
  <2>2. QED
    BY <1>6, <2>1, Folding
<1>9. Is(f)
  <2>1. f[0] = b /\ \A k \in 1 .. l : f[k] = step[k][f[k - 1]]
    BY <1>8 DEF IsFold
  <2>2. ASSUME NEW k \in 1 .. l PROVE f[k] = one(k, f[k - 1])
    <3>1. k - 1 \in 0 .. l
      OBVIOUS
    <3>2. f[k - 1] \in S
      BY <1>8, <3>1
    <3>3. QED
      BY <1>7, <2>1, <3>2
  <2>3. QED
    BY <1>8, <2>1, <2>2
<1>10. PICK added : added = CHOOSE g : Is(g)
  OBVIOUS
<1>11. Inputs(b, s) = added[l]
  BY <1>1, <1>4, <1>10 DEF Inputs, one
<1>12. Is(added)
  <2> HIDE DEF Is
  <2>1. QED
    BY <1>9, <1>10
<1>13. added[0] = b /\ \A k \in 1 .. l : added[k] = one(k, added[k - 1])
  BY <1>12
<1> HIDE DEF Is
<1> DEFINE P == {k \in 0 .. l : added[k] \in S /\ \A i \in 1 .. k : Built(added[k], s, o[i])}
<1>14. 0 \in P
  BY <1>6, <1>13
<1>15. ASSUME NEW k \in 0 .. l - 1, k \in P PROVE k + 1 \in P
  <2>1. k + 1 \in 1 .. l /\ (k + 1) - 1 = k
    BY <1>4
  <2>2. PICK x \in S : x = added[k] /\ \A i \in 1 .. k : Built(x, s, o[i])
    BY <1>15
  <2>3. PICK n \in N : n = o[k + 1]
    BY <1>3, <1>4, <2>1
  <2>4. added[k + 1] = AddInput(x, s, n)
    BY <1>13, <2>1, <2>2, <2>3 DEF one
  <2>5. PICK D \in SUBSET N : D = {o[i] : i \in 1 .. k}
    <3>1. \A i \in 1 .. k : o[i] \in N
      BY <1>3, <1>4, <2>1
    <3>2. QED
      BY <3>1
  <2>6. ASSUME NEW m \in D \cup {n}, m \in DOMAIN chains PROVE chains[m] \in D
    <3>1. PICK i \in 1 .. k + 1 : m = o[i]
      BY <2>1, <2>3, <2>5, <2>6
    <3>2. i \in 1 .. Len(o)
      BY <1>4, <2>1, <3>1
    <3>3. PICK j \in 1 .. i - 1 : o[j] = chains[m]
      BY <1>3, <2>6, <3>1, <3>2
    <3>4. j \in 1 .. k
      BY <3>1, <3>3
    <3>5. QED
      BY <2>5, <3>3, <3>4
  <2>7. Sound(N, x) /\ \A m \in D : Built(x, s, m)
    BY <2>2, <2>5 DEF S, Builders
  <2>8. PICK y : y = added[k + 1]
    OBVIOUS
  <2>9. \A m \in D \cup {n} : Built(y, s, m)
    <3>1. Feeders(InputChains(s), D, D \cup {n})
      BY <1>2, <2>6 DEF Feeders
    <3>2. AllBuilt(x, s, D)
      BY <2>7 DEF AllBuilt
    <3>3. AllBuilt(y, s, D \cup {n})
      BY <2>4, <2>7, <2>8, <3>1, <3>2, InputIsBuilt
    <3>4. QED
      BY <3>3 DEF AllBuilt
  <2>10. y \in S
    BY <1>5, <1>13, <2>1, <2>2, <2>8
  <2>11. \A i \in 1 .. k + 1 : o[i] \in D \cup {n}
    BY <2>1, <2>3, <2>5
  <2>12. QED
    BY <2>1, <2>8, <2>9, <2>10, <2>11
<1>16. l \in P
  <2>1. 0 \in 0 .. l /\ l \in 0 .. l
    BY <1>4
  <2> HIDE DEF P
  <2>2. \A k \in 0 .. l : k \in P
    BY <1>14, <1>15, <2>1, Climb
  <2>3. QED
    BY <2>1, <2>2
<1>17. ASSUME NEW n \in N PROVE Built(added[l], s, n)
  <2>1. PICK i \in 1 .. l : o[i] = n
    BY <1>3, <1>4 DEF Contains
  <2>2. QED
    BY <1>16, <2>1
<1>18. QED
  BY <1>11, <1>16, <1>17 DEF S, Builders, AllBuilt

-----------------------------------------------------------------------------
(* The slots that rules ask for.                                            *)
PlaceOfOperand(s, o) ==
  IF o.line = None THEN OutputOf(s.inputs[o.name]) ELSE Pos(Lines(s.inputs[o.name]), o.line)

HasOperand(b, s, o) ==
  HasLine(b, Key(s.inputs[o.name]), FeedOf(b, s, o.name), PlaceOfOperand(s, o), Line(b, s, o))

Placed(b, s, node) ==
  /\ node.key \in Comparators =>
       \A k \in 1 .. Len(node.of) : node.of[k].kind = "input" => HasOperand(b, s, node.of[k])
  /\ (node.key \in Brackets /\ node.of.type = "atr") =>
       HasLine(b, AtrKey(node.of), 0, 1, LineSlot(b, AtrKey(node.of), 0, 1))

(* More units and slots than b has, the inputs where they were.             *)
Extends(N, b, c) == Sound(N, c) /\ Grows(b, c) /\ c.index = b.index

LEMMA ExtendsItself ==
  ASSUME NEW N, NEW b, Sound(N, b)
  PROVE  Extends(N, b, b)
  BY DEF Extends, Grows, Prefix, Sound

LEMMA ExtendsOn ==
  ASSUME NEW N, NEW b, Sound(N, b), NEW c, Extends(N, b, c), NEW d, Extends(N, c, d)
  PROVE  Extends(N, b, d)
  BY GrowsOn DEF Extends

LEMMA BuiltIsKept ==
  ASSUME NEW N, NEW s, N = DOMAIN s.inputs, AreInputs(s.inputs), AreChains(s.inputs, InputChains(s)),
         NEW b, Sound(N, b), AllBuilt(b, s, N), NEW c, Extends(N, b, c)
  PROVE  AllBuilt(c, s, N)
<1>1. Sound(N, c) /\ Grows(b, c) /\ c.index = b.index
  BY DEF Extends
<1>2. ASSUME NEW n \in N PROVE Built(c, s, n)
  <2>1. HasLine(b, Key(s.inputs[n]), FeedOf(b, s, n), OutputOf(s.inputs[n]), b.index[n])
    BY DEF AllBuilt, Built, HasInput
  <2>2. HasLine(c, Key(s.inputs[n]), FeedOf(b, s, n), OutputOf(s.inputs[n]), b.index[n])
    BY <1>1, <2>1, LineIsKept
  <2>3. FeedOf(c, s, n) = FeedOf(b, s, n)
    BY <1>1 DEF FeedOf
  <2>4. QED
    BY <1>1, <2>2, <2>3 DEF AllBuilt, Built, HasInput
<1>3. QED
  BY <1>2 DEF AllBuilt

LEMMA OperandIsKept ==
  ASSUME NEW N, NEW s, NEW b, Sound(N, b), NEW c, Extends(N, b, c), NEW o, HasOperand(b, s, o)
  PROVE  HasOperand(c, s, o) /\ Line(c, s, o) = Line(b, s, o)
<1>1. Sound(N, c) /\ Grows(b, c) /\ c.index = b.index
  BY DEF Extends
<1>2. PICK key, feed, output, slot :
        /\ key = Key(s.inputs[o.name]) /\ feed = FeedOf(b, s, o.name) /\ output = PlaceOfOperand(s, o)
        /\ slot = Line(b, s, o)
  OBVIOUS
<1>3. HasLine(c, key, feed, output, slot)
  BY <1>1, <1>2, LineIsKept DEF HasOperand
<1>4. FeedOf(c, s, o.name) = feed
  BY <1>1, <1>2 DEF FeedOf
<1>5. LineSlot(c, key, feed, output) = slot
  BY <1>1, <1>3, LineIsFound
<1>6. Line(c, s, o) = slot
  BY <1>1, <1>2, <1>4, <1>5 DEF Line, PlaceOfOperand, Lines
<1>7. QED
  BY <1>2, <1>3, <1>4, <1>6 DEF HasOperand

LEMMA PlacedIsKept ==
  ASSUME NEW N, NEW s, NEW b, Sound(N, b), NEW c, Extends(N, b, c), NEW node, Placed(b, s, node)
  PROVE  Placed(c, s, node)
<1>1. ASSUME node.key \in Comparators, NEW k \in 1 .. Len(node.of), node.of[k].kind = "input"
      PROVE  HasOperand(c, s, node.of[k])
  BY <1>1, OperandIsKept DEF Placed
<1>2. ASSUME node.key \in Brackets, node.of.type = "atr"
      PROVE  HasLine(c, AtrKey(node.of), 0, 1, LineSlot(c, AtrKey(node.of), 0, 1))
  <2>1. PICK slot : slot = LineSlot(b, AtrKey(node.of), 0, 1) /\ HasLine(b, AtrKey(node.of), 0, 1, slot)
    BY <1>2 DEF Placed
  <2>2. Sound(N, c) /\ HasLine(c, AtrKey(node.of), 0, 1, slot)
    BY <2>1, LineIsKept DEF Extends
  <2>3. QED
    BY <2>2, LineIsFound
<1>3. QED
  BY <1>1, <1>2 DEF Placed

LEMMA AddLineIs ==
  ASSUME NEW s, AreInputs(s.inputs), AreChains(s.inputs, InputChains(s)),
         NEW N, N = DOMAIN s.inputs, NEW b, Sound(N, b), AllBuilt(b, s, N),
         NEW o, IsTerm(s.inputs, o), NEW c, c = AddLine(b, s, o)
  PROVE  Extends(N, b, c) /\ (o.kind = "input" => HasOperand(c, s, o))
<1>1. CASE o.kind # "input"
  BY <1>1, ExtendsItself DEF AddLine
<1>2. CASE o.kind = "input" /\ o.line = None
  <2>1. c = b /\ o.name \in N
    BY <1>2 DEF AddLine, IsTerm
  <2>2. HasInput(b, s, o.name)
    BY <2>1 DEF AllBuilt, Built
  <2>3. HasOperand(b, s, o)
    BY <1>2, <2>2 DEF HasInput, HasOperand, Line, PlaceOfOperand
  <2>4. QED
    BY <2>1, <2>3, ExtendsItself
<1>3. CASE o.kind = "input" /\ o.line # None
  <2>1. o.name \in N /\ Contains(Lines(s.inputs[o.name]), o.line)
    BY <1>3 DEF IsTerm
  <2>2. PICK n, input, key, feed, output :
          /\ n = o.name /\ input = s.inputs[n] /\ key = Key(input) /\ feed = FeedOf(b, s, n)
          /\ output = Pos(Lines(input), o.line)
    OBVIOUS
  <2>3. c = Attach(b, key, feed, output)
    BY <1>3, <2>2 DEF AddLine, Lines
  <2>4. IsInput(s.inputs, input)
    BY <2>1, <2>2 DEF AreInputs
  <2>5. key \in AllKeys /\ output \in 1 .. 2
    BY <2>1, <2>2, <2>4, InputKeyIs, PlaceOfLine DEF IsInput
  <2>6. feed \in 0 .. Len(b.slots)
    <3>1. Len(b.slots) \in Nat /\ \A m \in N : b.index[m] \in 0 .. Len(b.slots)
      BY DEF Sound
    <3>2. ChainsIn(N, InputChains(s))
      BY InputChainsAre
    <3>3. n \in DOMAIN InputChains(s) => InputChains(s)[n] \in N
      BY <3>2 DEF ChainsIn
    <3>4. QED
      BY <2>2, <3>1, <3>3 DEF FeedOf
  <2>7. /\ Sound(N, c) /\ Grows(b, c) /\ c.index = b.index
        /\ HasLine(c, key, feed, output, LineSlot(c, key, feed, output))
    BY <2>3, <2>5, <2>6, AttachIs
  <2>8. FeedOf(c, s, n) = feed
    BY <2>2, <2>7 DEF FeedOf
  <2>9. Line(c, s, o) = LineSlot(c, key, feed, output)
    BY <1>3, <2>2, <2>8 DEF Line, Lines
  <2>10. HasOperand(c, s, o)
    BY <1>3, <2>2, <2>7, <2>8, <2>9 DEF HasOperand, PlaceOfOperand
  <2>11. QED
    BY <2>7, <2>10 DEF Extends
<1>4. QED
  BY <1>1, <1>2, <1>3

(* What extends b, as a set.                                                *)
Extensions(N, b) ==
  {c \in [units : Seq(AllUnits), slots : Seq(AllSlots), index : [N -> Nat]] : Extends(N, b, c)}

LEMMA ExtensionsAre ==
  ASSUME NEW N, NEW b, NEW c
  PROVE  c \in Extensions(N, b) <=> Extends(N, b, c)
  BY DEF Extensions, Extends, Sound

LEMMA AddNodeIs ==
  ASSUME NEW s, AreInputs(s.inputs), AreChains(s.inputs, InputChains(s)),
         NEW N, N = DOMAIN s.inputs, NEW b, Sound(N, b), AllBuilt(b, s, N),
         NEW node, IsRead(s.inputs, node), NEW c, c = AddNode(b, s, node)
  PROVE  Extends(N, b, c) /\ Placed(c, s, node)
<1>1. Comparators \cap Brackets = {} /\ Comparators \cap Combinators = {} /\ Brackets \cap Combinators = {}
  BY DEF Comparators, Plain, Crossings, Trends, Brackets, Combinators
<1>2. CASE node.key \in Comparators
  <2>1. PICK of : of = node.of
    OBVIOUS
  <2>2. PICK l \in Nat : l = Len(of) /\ \A k \in 1 .. l : IsTerm(s.inputs, of[k])
    BY <1>2, <2>1 DEF IsRead, IsCompare, IsSequence
  <2> DEFINE one(k, x) == AddLine(x, s, of[k])
             Is(g) == g = [k \in 0 .. l |-> IF k = 0 THEN b ELSE one(k, g[k - 1])]
             S == Extensions(N, b)
  <2>3. ASSUME NEW k \in 1 .. l, NEW x \in S
        PROVE  /\ one(k, x) \in S /\ Extends(N, x, one(k, x))
               /\ of[k].kind = "input" => HasOperand(one(k, x), s, of[k])
    <3>1. Extends(N, b, x) /\ Sound(N, x)
      BY ExtensionsAre DEF Extends
    <3>2. AllBuilt(x, s, N)
      BY <3>1, BuiltIsKept
    <3>3. Extends(N, x, one(k, x)) /\ (of[k].kind = "input" => HasOperand(one(k, x), s, of[k]))
      BY <2>2, <3>1, <3>2, AddLineIs
    <3>4. Extends(N, b, one(k, x))
      BY <3>1, <3>3, ExtendsOn
    <3>5. QED
      BY <3>3, <3>4, ExtensionsAre
  <2>4. b \in S
    BY ExtendsItself, ExtensionsAre
  <2>5. PICK step : step = [k \in 1 .. l |-> [x \in S |-> one(k, x)]]
    OBVIOUS
  <2> HIDE DEF S, one
  <2>6. PICK f \in [0 .. l -> S] : IsFold(f, l, b, step)
    <3>1. StepsIn(l, S, step)
      BY <2>3, <2>5 DEF StepsIn
    <3>2. QED
      BY <2>4, <3>1, Folding
  <2>7. Is(f)
    <3>1. f[0] = b /\ \A k \in 1 .. l : f[k] = step[k][f[k - 1]]
      BY <2>6 DEF IsFold
    <3>2. ASSUME NEW k \in 1 .. l PROVE f[k] = one(k, f[k - 1])
      <4>1. k - 1 \in 0 .. l
        OBVIOUS
      <4>2. f[k - 1] \in S
        BY <2>6, <4>1
      <4>3. QED
        BY <2>5, <3>1, <4>2
    <3>3. QED
      BY <2>6, <3>1, <3>2
  <2>8. PICK lines : lines = CHOOSE g : Is(g)
    OBVIOUS
  <2>9. c = lines[l]
    BY <1>1, <1>2, <2>1, <2>2, <2>8 DEF AddNode, one
  <2>10. Is(lines)
    <3> HIDE DEF Is
    <3>1. QED
      BY <2>7, <2>8
  <2>11. lines[0] = b /\ \A k \in 1 .. l : lines[k] = one(k, lines[k - 1])
    BY <2>10
  <2> HIDE DEF Is
  <2> DEFINE P == {k \in 0 .. l : /\ lines[k] \in S
                                  /\ \A i \in 1 .. k : of[i].kind = "input" => HasOperand(lines[k], s, of[i])}
  <2>12. 0 \in P
    BY <2>4, <2>11
  <2>13. ASSUME NEW k \in 0 .. l - 1, k \in P PROVE k + 1 \in P
    <3>1. k + 1 \in 1 .. l /\ (k + 1) - 1 = k
      BY <2>2
    <3>2. PICK x \in S : x = lines[k]
      BY <2>13
    <3>3. PICK y : y = one(k + 1, x) /\ y = lines[k + 1]
      BY <2>11, <3>1, <3>2
    <3>4. y \in S /\ Extends(N, x, y) /\ (of[k + 1].kind = "input" => HasOperand(y, s, of[k + 1]))
      BY <2>3, <3>1, <3>2, <3>3
    <3>5. ASSUME NEW i \in 1 .. k + 1, of[i].kind = "input" PROVE HasOperand(y, s, of[i])
      <4>1. CASE i = k + 1
        BY <3>4, <3>5, <4>1
      <4>2. CASE i # k + 1
        <5>1. HasOperand(x, s, of[i])
          BY <2>13, <3>2, <3>5, <4>2
        <5>2. Sound(N, x)
          BY ExtensionsAre DEF S, Extends
        <5>3. QED
          BY <3>4, <5>1, <5>2, OperandIsKept
      <4>3. QED
        BY <4>1, <4>2
    <3>6. QED
      BY <3>1, <3>3, <3>4, <3>5
  <2>14. l \in P
    <3>1. 0 \in 0 .. l /\ l \in 0 .. l
      BY <2>2
    <3> HIDE DEF P
    <3>2. \A k \in 0 .. l : k \in P
      BY <2>12, <2>13, <3>1, Climb
    <3>3. QED
      BY <3>1, <3>2
  <2>15. Extends(N, b, c)
    BY <2>9, <2>14, ExtensionsAre DEF S
  <2>16. QED
    BY <1>1, <1>2, <2>1, <2>2, <2>9, <2>14, <2>15 DEF Placed
<1>3. CASE node.key \in Brackets /\ node.of.type = "atr"
  <2>1. PICK key : key = AtrKey(node.of)
    OBVIOUS
  <2>2. c = Attach(b, key, 0, 1)
    BY <1>1, <1>3, <2>1 DEF AddNode
  <2>3. node.of.period \in Nat \ {0}
    BY <1>3, LanguageAssumption DEF IsRead, IsLevel
  <2>4. key \in AllKeys
    BY <2>1, <2>3 DEF AtrKey, AllKeys, Sources, Registry
  <2>5. 0 \in 0 .. Len(b.slots)
    <3>1. Len(b.slots) \in Nat
      BY DEF Sound
    <3>2. QED
      BY <3>1
  <2>6. /\ Sound(N, c) /\ Grows(b, c) /\ c.index = b.index
        /\ HasLine(c, key, 0, 1, LineSlot(c, key, 0, 1))
    BY <2>2, <2>4, <2>5, AttachIs
  <2>7. QED
    BY <1>1, <1>3, <2>1, <2>6 DEF Extends, Placed
<1>4. CASE node.key \notin Comparators /\ ~(node.key \in Brackets /\ node.of.type = "atr")
  <2>1. c = b
    BY <1>4 DEF AddNode
  <2>2. QED
    BY <1>4, <2>1, ExtendsItself DEF Placed
<1>5. QED
  BY <1>2, <1>3, <1>4

LEMMA RuleSlotsAre ==
  ASSUME NEW s, AreInputs(s.inputs), AreChains(s.inputs, InputChains(s)),
         IsTree(s.rules), \A i \in 1 .. Len(s.rules) : IsRead(s.inputs, s.rules[i]),
         NEW N, N = DOMAIN s.inputs, NEW b, Sound(N, b), AllBuilt(b, s, N),
         NEW c, c = RuleSlots(b, s)
  PROVE  /\ Extends(N, b, c)
         /\ \A i \in 1 .. Len(s.rules) : i \in Reached(s) => Placed(c, s, s.rules[i])
<1>1. PICK rules : rules = s.rules
  OBVIOUS
<1>2. PICK l \in Nat : l = Len(rules) /\ \A k \in 1 .. l : IsRead(s.inputs, rules[k])
  BY <1>1 DEF IsTree, Ordered
<1> DEFINE one(k, x) == IF k \in Reached(s) THEN AddNode(x, s, rules[k]) ELSE x
           Is(g) == g = [k \in 0 .. l |-> IF k = 0 THEN b ELSE one(k, g[k - 1])]
           S == Extensions(N, b)
<1>3. ASSUME NEW k \in 1 .. l, NEW x \in S
      PROVE  /\ one(k, x) \in S /\ Extends(N, x, one(k, x))
             /\ k \in Reached(s) => Placed(one(k, x), s, rules[k])
  <2>1. Extends(N, b, x) /\ Sound(N, x)
    BY ExtensionsAre DEF Extends
  <2>2. AllBuilt(x, s, N)
    BY <2>1, BuiltIsKept
  <2>3. Extends(N, x, one(k, x)) /\ (k \in Reached(s) => Placed(one(k, x), s, rules[k]))
    <3>1. CASE k \in Reached(s)
      BY <1>2, <2>1, <2>2, <3>1, AddNodeIs
    <3>2. CASE k \notin Reached(s)
      BY <2>1, <3>2, ExtendsItself
    <3>3. QED
      BY <3>1, <3>2
  <2>4. Extends(N, b, one(k, x))
    BY <2>1, <2>3, ExtendsOn
  <2>5. QED
    BY <2>3, <2>4, ExtensionsAre
<1>4. b \in S
  BY ExtendsItself, ExtensionsAre
<1>5. PICK step : step = [k \in 1 .. l |-> [x \in S |-> one(k, x)]]
  OBVIOUS
<1> HIDE DEF S, one
<1>6. PICK f \in [0 .. l -> S] : IsFold(f, l, b, step)
  <2>1. StepsIn(l, S, step)
    BY <1>3, <1>5 DEF StepsIn
  <2>2. QED
    BY <1>4, <2>1, Folding
<1>7. Is(f)
  <2>1. f[0] = b /\ \A k \in 1 .. l : f[k] = step[k][f[k - 1]]
    BY <1>6 DEF IsFold
  <2>2. ASSUME NEW k \in 1 .. l PROVE f[k] = one(k, f[k - 1])
    <3>1. k - 1 \in 0 .. l
      OBVIOUS
    <3>2. f[k - 1] \in S
      BY <1>6, <3>1
    <3>3. QED
      BY <1>5, <2>1, <3>2
  <2>3. QED
    BY <1>6, <2>1, <2>2
<1>8. PICK upTo : upTo = CHOOSE g : Is(g)
  OBVIOUS
<1>9. c = upTo[l]
  BY <1>1, <1>2, <1>8 DEF RuleSlots, one
<1>10. Is(upTo)
  <2> HIDE DEF Is
  <2>1. QED
    BY <1>7, <1>8
<1>11. upTo[0] = b /\ \A k \in 1 .. l : upTo[k] = one(k, upTo[k - 1])
  <2>1. upTo = [k \in 0 .. l |-> IF k = 0 THEN b ELSE one(k, upTo[k - 1])]
    BY <1>10, Zenon
  <2> HIDE DEF Is
  <2>2. \A k \in 0 .. l : upTo[k] = IF k = 0 THEN b ELSE one(k, upTo[k - 1])
    BY <2>1, Zenon
  <2>3. 0 \in 0 .. l /\ \A k \in 1 .. l : k \in 0 .. l /\ k # 0
    BY <1>2
  <2>4. QED
    BY <2>2, <2>3, Zenon
<1> HIDE DEF Is
<1> DEFINE P == {k \in 0 .. l : /\ upTo[k] \in S
                                /\ \A i \in 1 .. k : i \in Reached(s) => Placed(upTo[k], s, rules[i])}
<1>12. 0 \in P
  <2>1. 0 \in 0 .. l
    BY <1>2
  <2>2. upTo[0] \in S
    BY <1>4, <1>11
  <2>3. \A i \in 1 .. 0 : FALSE
    OBVIOUS
  <2>4. QED
    BY <2>1, <2>2, <2>3, Zenon
<1>13. ASSUME NEW k \in 0 .. l - 1, k \in P PROVE k + 1 \in P
  <2>1. k + 1 \in 1 .. l /\ (k + 1) - 1 = k
    BY <1>2
  <2>2. PICK x \in S : x = upTo[k]
    BY <1>13
  <2>3. PICK y : y = one(k + 1, x) /\ y = upTo[k + 1]
    BY <1>11, <2>1, <2>2
  <2>4. y \in S /\ Extends(N, x, y) /\ (k + 1 \in Reached(s) => Placed(y, s, rules[k + 1]))
    BY <1>3, <2>1, <2>2, <2>3
  <2>5. ASSUME NEW i \in 1 .. k + 1, i \in Reached(s) PROVE Placed(y, s, rules[i])
    <3>1. CASE i = k + 1
      BY <2>4, <2>5, <3>1
    <3>2. CASE i # k + 1
      <4>1. Placed(x, s, rules[i])
        BY <1>13, <2>2, <2>5, <3>2
      <4>2. Sound(N, x)
        BY ExtensionsAre DEF S, Extends
      <4>3. QED
        BY <2>4, <4>1, <4>2, PlacedIsKept
    <3>3. QED
      BY <3>1, <3>2
  <2>6. QED
    BY <2>1, <2>3, <2>4, <2>5
<1>14. l \in P
  <2>1. 0 \in 0 .. l /\ l \in 0 .. l
    BY <1>2
  <2> HIDE DEF P
  <2>2. \A k \in 0 .. l : k \in P
    BY <1>12, <1>13, <2>1, Climb
  <2>3. QED
    BY <2>1, <2>2
<1>15. QED
  BY <1>1, <1>2, <1>9, <1>14, ExtensionsAre DEF S

LEMMA BuilderIs ==
  ASSUME NEW s, IsSpec(s), NEW N, N = DOMAIN s.inputs, NEW b, b = Builder(s)
  PROVE  /\ Sound(N, b) /\ AllBuilt(b, s, N)
         /\ \A i \in 1 .. Len(s.rules) : i \in Reached(s) => Placed(b, s, s.rules[i])
<1>1. PICK empty : empty = [units |-> <<>>, slots |-> <<>>, index |-> [n \in N |-> 0]]
  OBVIOUS
<1>2. empty.units = <<>> /\ empty.slots = <<>> /\ empty.index = [n \in N |-> 0]
  BY <1>1
<1>3. Sound(N, empty)
  <2>1. empty \in [units : Seq(AllUnits), slots : Seq(AllSlots), index : [N -> Nat]]
    BY <1>1
  <2>2. \A n \in N : empty.index[n] \in 0 .. Len(empty.slots)
    BY <1>2
  <2>3. QED
    BY <1>2, <2>1, <2>2 DEF Sound, Chained, Distinct
<1>4. PICK x : x = Inputs(empty, s)
  OBVIOUS
<1>5. Sound(N, x) /\ AllBuilt(x, s, N)
  BY <1>3, <1>4, InputsAreBuilt DEF IsSpec
<1>6. b = RuleSlots(x, s)
  BY <1>1, <1>4 DEF Builder
<1>7. Extends(N, x, b) /\ \A i \in 1 .. Len(s.rules) : i \in Reached(s) => Placed(b, s, s.rules[i])
  BY <1>5, <1>6, RuleSlotsAre DEF IsSpec
<1>8. AllBuilt(b, s, N)
  BY <1>5, <1>7, BuiltIsKept DEF IsSpec
<1>9. QED
  BY <1>7, <1>8 DEF Extends

-----------------------------------------------------------------------------
(* A plan that runs is what its stored spec compiles to.                    *)
PlanIsCompiled == Running => spec \notin {None, Fault} /\ plan = Compile(spec)

LEMMA PlanStaysCompiled ==
  /\ Init => StoredWasParsed /\ PlanIsCompiled
  /\ StoredWasParsed /\ PlanIsCompiled /\ [Next]_<<strategyVars, sweepVars>>
       => StoredWasParsed' /\ PlanIsCompiled'
<1>1. Init => StoredWasParsed /\ PlanIsCompiled
  BY DEF Init, StrategyInit, StoredWasParsed, PlanIsCompiled, Running
<1>2. ASSUME StoredWasParsed, PlanIsCompiled, [Next]_<<strategyVars, sweepVars>>
      PROVE  StoredWasParsed' /\ PlanIsCompiled'
  <2>1. CASE UNCHANGED <<spec, plan>>
    BY <1>2, <2>1 DEF StoredWasParsed, PlanIsCompiled, Running
  <2>2. ASSUME NEW d \in Drafts, SaveDraft(d) PROVE StoredWasParsed' /\ PlanIsCompiled'
    BY <2>2 DEF SaveDraft, StoredWasParsed, PlanIsCompiled, Running
  <2>3. ASSUME CompileSpec PROVE StoredWasParsed' /\ PlanIsCompiled'
    <3>1. spec \notin {None, Fault} /\ spec' = spec /\ plan' = Compile(Parse(Encode(spec)))
      BY <2>3 DEF CompileSpec
    <3>2. PICK d \in Drafts : spec = Parse(d)
      BY <1>2, <3>1 DEF StoredWasParsed
    <3>3. Parse(Encode(spec)) = spec
      BY <3>1, <3>2, SpecIsReadAgain, StrategyAssumption
    <3>4. QED
      BY <1>2, <3>1, <3>3 DEF StoredWasParsed, PlanIsCompiled
  <2>4. UNCHANGED <<spec, plan>> \/ CompileSpec \/ \E d \in Drafts : SaveDraft(d)
    BY <1>2 DEF Next, StrategyNext, Push, strategyVars
  <2>5. QED
    BY <2>1, <2>2, <2>3, <2>4
<1>3. QED
  BY <1>1, <1>2

LEMMA RunningSpecIs ==
  ASSUME StoredWasParsed, PlanIsCompiled, Running
  PROVE  IsSpec(spec) /\ plan = Compile(spec) /\ Compile(spec) # Fault
<1>1. spec \notin {None, Fault} /\ plan = Compile(spec) /\ plan # Fault
  BY DEF PlanIsCompiled, Running
<1>2. PICK d \in Drafts : spec = Parse(d)
  BY <1>1 DEF StoredWasParsed
<1>3. IsSpec(spec)
  BY <1>1, <1>2, SpecIs, StrategyAssumption
<1>4. QED
  BY <1>1, <1>3

LEMMA PlanIs ==
  ASSUME NEW s, NEW p, p = Compile(s), p # Fault, NEW b, b = Builder(s)
  PROVE  /\ p.units = b.units /\ p.slots = b.slots /\ p.index = b.index
         /\ p.rules = Rules(b, s, HoistedRules(s))
         /\ p.long = Leg(b, s, "long") /\ p.short = Leg(b, s, "short")
         /\ \E reached : /\ reached = UNION {Under(HoistedRules(s), r) :
                                               r \in {p.long.entry, p.long.exit, p.short.entry, p.short.exit} \ {0}}
                         /\ p.depth = Deepest(p.rules, reached)
         /\ p.warmup = Measure(b, p.depth).warmup /\ p.prime = Measure(b, p.depth).prime
<1>1. PICK h, rules, long, short :
        /\ h = HoistedRules(s) /\ rules = Rules(b, s, h) /\ long = Leg(b, s, "long") /\ short = Leg(b, s, "short")
  OBVIOUS
<1>2. p = PlanOf(b, h, rules, long, short)
  BY <1>1 DEF Compile
<1>3. PICK reached, depth, measured :
        /\ reached = UNION {Under(h, r) : r \in {long.entry, long.exit, short.entry, short.exit} \ {0}}
        /\ depth = Deepest(rules, reached) /\ measured = Measure(b, depth)
  OBVIOUS
<1>4. p = [units |-> b.units, slots |-> b.slots, index |-> b.index, rules |-> rules,
           long |-> long, short |-> short, depth |-> depth,
           warmup |-> measured.warmup, prime |-> measured.prime]
  BY <1>2, <1>3 DEF PlanOf
<1>5. /\ p.units = b.units /\ p.slots = b.slots /\ p.index = b.index /\ p.rules = rules
      /\ p.long = long /\ p.short = short /\ p.depth = depth
      /\ p.warmup = measured.warmup /\ p.prime = measured.prime
  BY <1>4
<1>6. QED
  BY <1>1, <1>3, <1>5

LEMMA PlanLegIs ==
  ASSUME Running, NEW s, plan = Compile(s), Compile(s) # Fault, NEW b, b = Builder(s), NEW leg \in Legs
  PROVE  PlanLeg(leg) = Leg(b, s, leg)
<1>1. plan.long = Leg(b, s, "long") /\ plan.short = Leg(b, s, "short")
  BY PlanIs
<1>2. QED
  BY <1>1 DEF PlanLeg, Legs

LEMMA BracketIs ==
  ASSUME NEW s, IsSpec(s), NEW b, b = Builder(s), NEW leg \in Legs, NEW key \in Brackets,
         NEW bracket \in Bracket(b, s.rules, ExitOf(s, leg), key), bracket.level.type = "atr"
  PROVE  \E u \in DOMAIN b.units :
           /\ bracket.slot \in DOMAIN b.slots /\ b.slots[bracket.slot] = [unit |-> u, output |-> 1]
           /\ b.units[u] = [key |-> AtrKey(bracket.level), feed |-> 0]
<1>1. PICK root, found, level :
        /\ root = ExitOf(s, leg) /\ found = Having(s.rules, root, key)
        /\ level = s.rules[CHOOSE i \in found : TRUE].of
  OBVIOUS
<1>2. /\ root # 0 /\ found # {}
      /\ bracket = [level |-> level, slot |-> IF level.type = "atr" THEN LineSlot(b, AtrKey(level), 0, 1) ELSE 0]
  BY <1>1 DEF Bracket
<1>3. bracket.level = level /\ bracket.slot = LineSlot(b, AtrKey(level), 0, 1) /\ level.type = "atr"
  BY <1>2
<1>4. PICK i \in found : level = s.rules[i].of
  BY <1>1, <1>2
<1>5. PICK n \in Nat : n = Len(s.rules)
  BY DEF IsSpec, IsTree, Ordered
<1>6. root = s.exit[leg] /\ root \in 1 .. n
  <2>1. s.exit[leg] \in 0 .. n
    BY <1>5 DEF IsSpec
  <2>2. root = s.exit[leg]
    BY <1>1, <1>2 DEF ExitOf
  <2>3. QED
    BY <1>2, <2>1, <2>2
<1>7. i \in Under(s.rules, root) /\ s.rules[i].key = key
  BY <1>1 DEF Having
<1>8. i \in 1 .. n
  <2>1. PICK sub : /\ \A r : Under(s.rules, r) = IF r = 0 THEN {} ELSE sub[r]
                   /\ \A j \in 1 .. n : sub[j] \subseteq 1 .. j
    BY <1>5, UnderIs DEF IsSpec, IsTree
  <2>2. i \in sub[root]
    BY <1>2, <1>7, <2>1
  <2>3. QED
    BY <1>6, <2>1, <2>2
<1>9. i \in Reached(s)
  BY <1>6, <1>7 DEF Reached, Legs
<1>10. Placed(b, s, s.rules[i])
  BY <1>5, <1>8, <1>9, BuilderIs
<1>11. HasLine(b, AtrKey(level), 0, 1, bracket.slot)
  BY <1>3, <1>4, <1>7, <1>10 DEF Placed
<1>12. DOMAIN b.units = 1 .. Len(b.units) /\ DOMAIN b.slots = 1 .. Len(b.slots)
  <2>1. Sound(DOMAIN s.inputs, b)
    BY BuilderIs
  <2>2. b.units \in Seq(AllUnits) /\ b.slots \in Seq(AllSlots)
    BY <2>1 DEF Sound
  <2>3. QED
    BY <2>2
<1>13. QED
  BY <1>3, <1>11, <1>12 DEF HasLine

(* LegsCarryTheirBrackets: each leg of a plan carries the brackets of its   *)
(* own exit, one that sizes by risk has a stop, and a range bracket names   *)
(* the slot of its own range (hoist and attach in compile.go, the stop      *)
(* guard in parse.go).                                                      *)
THEOREM LegsHaveTheirBrackets == Spec => []LegsCarryTheirBrackets
<1>1. StoredWasParsed /\ PlanIsCompiled => LegsCarryTheirBrackets
  <2> SUFFICES ASSUME StoredWasParsed, PlanIsCompiled, Running, NEW leg \in Legs
               PROVE  /\ (spec.sizing.type = "risk_pct" /\ PlanLeg(leg).entry # 0) => PlanLeg(leg).stop # {}
                      /\ \A bracket \in PlanLeg(leg).stop \cup PlanLeg(leg).target :
                           bracket.level.type = "atr" =>
                             \E u \in DOMAIN plan.units :
                               /\ bracket.slot \in DOMAIN plan.slots
                               /\ plan.slots[bracket.slot] = [unit |-> u, output |-> 1]
                               /\ plan.units[u] = [key |-> AtrKey(bracket.level), feed |-> 0]
    BY DEF LegsCarryTheirBrackets
  <2>1. IsSpec(spec) /\ plan = Compile(spec) /\ Compile(spec) # Fault
    BY RunningSpecIs
  <2>2. PICK b : b = Builder(spec)
    OBVIOUS
  <2>3. plan.units = b.units /\ plan.slots = b.slots
    BY <2>1, <2>2, PlanIs
  <2>4. PlanLeg(leg) = Leg(b, spec, leg)
    BY <2>1, <2>2, PlanLegIs
  <2>5. PICK exit : exit = ExitOf(spec, leg)
    OBVIOUS
  <2>6. /\ PlanLeg(leg).entry = spec.entry[leg]
        /\ PlanLeg(leg).stop = Bracket(b, spec.rules, exit, "stop_loss")
        /\ PlanLeg(leg).target = Bracket(b, spec.rules, exit, "take_profit")
    BY <2>4, <2>5 DEF Leg
  <2>7. ASSUME spec.sizing.type = "risk_pct", PlanLeg(leg).entry # 0 PROVE PlanLeg(leg).stop # {}
    <3>1. spec.entry[leg] # 0
      BY <2>6, <2>7
    <3>2. Having(spec.rules, spec.exit[leg], "stop_loss") # {}
      BY <2>1, <2>7, <3>1 DEF IsSpec, RiskHasStops, Legs
    <3>3. exit = spec.exit[leg]
      BY <2>5, <3>1 DEF ExitOf
    <3>4. exit # 0
      <4>1. Under(spec.rules, 0) = {}
        BY DEF Under
      <4>2. QED
        BY <3>2, <3>3, <4>1 DEF Having
    <3>5. QED
      BY <2>6, <3>2, <3>3, <3>4 DEF Bracket
  <2>8. ASSUME NEW bracket \in PlanLeg(leg).stop \cup PlanLeg(leg).target, bracket.level.type = "atr"
        PROVE  \E u \in DOMAIN plan.units :
                 /\ bracket.slot \in DOMAIN plan.slots
                 /\ plan.slots[bracket.slot] = [unit |-> u, output |-> 1]
                 /\ plan.units[u] = [key |-> AtrKey(bracket.level), feed |-> 0]
    <3>1. PICK key \in Brackets : bracket \in Bracket(b, spec.rules, exit, key)
      BY <2>6, <2>8 DEF Brackets
    <3>2. bracket \in Bracket(b, spec.rules, ExitOf(spec, leg), key)
      BY <2>5, <3>1
    <3>3. \E u \in DOMAIN b.units :
             /\ bracket.slot \in DOMAIN b.slots /\ b.slots[bracket.slot] = [unit |-> u, output |-> 1]
             /\ b.units[u] = [key |-> AtrKey(bracket.level), feed |-> 0]
      BY <2>1, <2>2, <2>8, <3>2, BracketIs
    <3>4. QED
      BY <2>3, <3>3
  <2>9. QED
    BY <2>7, <2>8
<1>2. QED
  BY <1>1, PlanStaysCompiled, PTL DEF Spec

-----------------------------------------------------------------------------
(* What an indicator computes is a number.                                  *)
LEMMA TotalIs ==
  ASSUME NEW n \in Nat, NEW w \in [1 .. n -> Int], Len(w) = n
  PROVE  Total(w) \in Int
<1> DEFINE Is(g) == g = [k \in 0 .. n |-> IF k = 0 THEN 0 ELSE g[k - 1] + w[k]]
<1>1. PICK step : step = [k \in 1 .. n |-> [v \in Int |-> v + w[k]]]
  OBVIOUS
<1>2. StepsIn(n, Int, step)
  BY <1>1 DEF StepsIn
<1>3. PICK f \in [0 .. n -> Int] : IsFold(f, n, 0, step)
  <2>1. n \in Nat /\ 0 \in Int
    OBVIOUS
  <2>2. QED
    BY <1>2, <2>1, Folding
<1>4. Is(f)
  <2>1. \A k \in 1 .. n : f[k] = f[k - 1] + w[k]
    <3> SUFFICES ASSUME NEW k \in 1 .. n PROVE f[k] = f[k - 1] + w[k]
      OBVIOUS
    <3>1. f[k - 1] \in Int
      BY <1>3
    <3>2. QED
      BY <1>1, <1>3, <3>1 DEF IsFold
  <2>2. f[0] = 0
    BY <1>3 DEF IsFold
  <2>3. QED
    BY <1>3, <2>1, <2>2
<1>5. PICK sum : sum = CHOOSE g : Is(g)
  OBVIOUS
<1>6. Is(sum)
  <2> HIDE DEF Is
  <2>1. QED
    BY <1>4, <1>5
<1>7. Total(w) = sum[n]
  BY <1>5 DEF Total
<1> DEFINE P == {k \in 0 .. n : sum[k] \in Int}
<1>8. 0 \in P
  BY <1>6
<1>9. \A k \in 0 .. n - 1 : k \in P => k + 1 \in P
  <2> SUFFICES ASSUME NEW k \in 0 .. n - 1, sum[k] \in Int PROVE k + 1 \in P
    OBVIOUS
  <2>1. k + 1 \in 1 .. n /\ (k + 1) - 1 = k
    OBVIOUS
  <2>2. sum[k + 1] = sum[k] + w[k + 1]
    BY <1>6, <2>1
  <2>3. w[k + 1] \in Int
    BY <2>1
  <2>4. QED
    BY <2>1, <2>2, <2>3
<1>10. n \in P
  <2>1. 0 \in 0 .. n /\ n \in 0 .. n
    OBVIOUS
  <2> HIDE DEF P
  <2>2. \A k \in 0 .. n : k \in P
    BY <1>8, <1>9, <2>1, Climb
  <2>3. QED
    BY <2>1, <2>2
<1>11. QED
  BY <1>7, <1>10

LEMMA LargestIs ==
  ASSUME NEW n \in Nat \ {0}, NEW w \in [1 .. n -> Int], DOMAIN w = 1 .. n
  PROVE  Max(ToSet(w)) \in Int /\ Max(ToSet(w)) \in ToSet(w) /\ \A y \in ToSet(w) : y <= Max(ToSet(w))
<1> DEFINE P == {k \in 1 .. n : \E i \in 1 .. k : \A j \in 1 .. k : w[j] <= w[i]}
<1>1. 1 \in P
  <2>1. \A j \in 1 .. 1 : w[j] <= w[1]
    OBVIOUS
  <2>2. QED
    BY <2>1
<1>2. \A k \in 1 .. n - 1 : k \in P => k + 1 \in P
  <2> SUFFICES ASSUME NEW k \in 1 .. n - 1, k \in P PROVE k + 1 \in P
    OBVIOUS
  <2>1. PICK i \in 1 .. k : \A j \in 1 .. k : w[j] <= w[i]
    OBVIOUS
  <2>2. k + 1 \in 1 .. n /\ i \in 1 .. n
    OBVIOUS
  <2>3. PICK m \in 1 .. k + 1 : m = IF w[k + 1] <= w[i] THEN i ELSE k + 1
    OBVIOUS
  <2>4. \A j \in 1 .. k + 1 : w[j] <= w[m]
    <3> SUFFICES ASSUME NEW j \in 1 .. k + 1 PROVE w[j] <= w[m]
      OBVIOUS
    <3>1. {w[j], w[i], w[k + 1], w[m]} \subseteq Int
      BY <2>2, <2>3
    <3>2. j # k + 1 => w[j] <= w[i]
      BY <2>1
    <3>3. CASE w[k + 1] <= w[i]
      BY <2>3, <3>1, <3>2, <3>3
    <3>4. CASE ~(w[k + 1] <= w[i])
      <4>1. m = k + 1
        BY <2>3, <3>4
      <4>2. CASE j = k + 1
        BY <3>1, <4>1, <4>2
      <4>3. CASE j # k + 1
        BY <3>1, <3>2, <3>4, <4>1, <4>3
      <4>4. QED
        BY <4>2, <4>3
    <3>5. QED
      BY <3>3, <3>4
  <2>5. QED
    BY <2>2, <2>3, <2>4
<1>3. n \in P
  <2>1. 1 \in 0 .. n /\ n \in 1 .. n
    OBVIOUS
  <2> HIDE DEF P
  <2>2. \A k \in 1 .. n : k \in P
    BY <1>1, <1>2, <2>1, Climb
  <2>3. QED
    BY <2>1, <2>2
<1>4. PICK i \in 1 .. n : \A j \in 1 .. n : w[j] <= w[i]
  BY <1>3
<1>5. PICK x \in Int : x = w[i]
  OBVIOUS
<1>6. /\ ToSet(w) \in SUBSET Int /\ x \in ToSet(w)
      /\ \A y \in ToSet(w) : y <= x
  BY <1>4, <1>5 DEF ToSet
<1>7. Max(ToSet(w)) = x
  BY <1>6, MaxIs
<1>8. QED
  BY <1>6, <1>7

LEMMA LineIs ==
  ASSUME NEW key \in AllKeys, NEW o \in 1 .. 2, NEW n \in Nat \ {0}, NEW w, w = [j \in 1 .. n |-> w[j]],
         \A j \in 1 .. n : w[j] \in Int
  PROVE  LineOf(key, o, w) \in Int
<1>1. w \in [1 .. n -> Int] /\ Len(w) = n /\ DOMAIN w = 1 .. n
  BY SMT
<1>2. CASE key.indicator = "atr"
  <2> DEFINE r(k) == IF w[k] > w[k + 1] THEN w[k] - w[k + 1] ELSE w[k + 1] - w[k]
  <2>1. PICK ranges : ranges = [k \in 1 .. n - 1 |-> r(k)]
    OBVIOUS
  <2>2. ranges \in [1 .. n - 1 -> Int] /\ n - 1 \in Nat
    <3>1. \A k \in 1 .. n - 1 : r(k) \in Int
      <4> SUFFICES ASSUME NEW k \in 1 .. n - 1 PROVE r(k) \in Int
        OBVIOUS
      <4>1. w[k] \in Int /\ w[k + 1] \in Int
        BY <1>1
      <4>2. QED
        BY <4>1
    <3>2. QED
      BY <2>1, <3>1
  <2>3. Len(ranges) = n - 1
    BY <2>2
  <2>4. Total(ranges) \in Int
    BY <2>2, <2>3, TotalIs
  <2>5. TotalRange(w) = Total(ranges)
    BY <1>1, <2>1 DEF TotalRange
  <2>6. QED
    BY <1>2, <2>4, <2>5 DEF LineOf
<1>3. CASE key.indicator # "atr" /\ o = 2
  BY <1>1, <1>3, LargestIs DEF LineOf
<1>4. CASE key.indicator # "atr" /\ o # 2
  <2>1. Total(w) \in Int
    BY <1>1, TotalIs
  <2>2. Total(w) \div n \in Int
    BY <2>1
  <2>3. QED
    BY <1>1, <1>4, <2>2 DEF LineOf
<1>5. QED
  BY <1>2, <1>3, <1>4

-----------------------------------------------------------------------------
(* What a plan's units are worth over a sequence of bars, without tape: a   *)
(* unit is fed from the bar its feed has its first value at, and has one    *)
(* itself when its window is full.                                          *)
AllBars == [close : Nat, open : Nat, volume : Nat]

Start(p, u) == IF p.units[u].feed = 0 THEN 0 ELSE Warmups(p)[p.slots[p.units[u].feed].unit]

FedAt(p, bars, val, u, k) ==
  IF p.units[u].feed = 0 THEN bars[k][p.units[u].key.source]
  ELSE val[p.slots[p.units[u].feed].unit][p.slots[p.units[u].feed].output][k]

LastFed(p, bars, val, u, k, w) == [j \in 1 .. w |-> FedAt(p, bars, val, u, k - w + j)]

ValueAt(p, bars, val, u, o, k) ==
  IF k <= Warmups(p)[u] THEN Unknown
  ELSE LineOf(p.units[u].key, o, LastFed(p, bars, val, u, k, Span(p.units[u].key)))

ValuesOf(p, bars, val, u) == [o \in 1 .. 2 |-> [k \in 1 .. Len(bars) |-> ValueAt(p, bars, val, u, o, k)]]

IsValues(p, bars, val) == val = [u \in 1 .. Len(p.units) |-> ValuesOf(p, bars, val, u)]

LEMMA UnitsAre ==
  ASSUME NEW p, Chained(p.units, p.slots)
  PROVE  /\ Len(p.units) \in Nat /\ Len(p.slots) \in Nat
         /\ DOMAIN p.units = 1 .. Len(p.units) /\ DOMAIN p.slots = 1 .. Len(p.slots)
         /\ \A u \in 1 .. Len(p.units) :
              /\ p.units[u].key \in AllKeys /\ p.units[u].key.source \in Sources
              /\ Span(p.units[u].key) \in Nat \ {0}
              /\ IndicatorWarmup(p.units[u].key) = Span(p.units[u].key) - 1
              /\ p.units[u].feed # 0 =>
                   /\ p.units[u].feed \in 1 .. Len(p.slots)
                   /\ p.slots[p.units[u].feed].unit \in 1 .. u - 1
                   /\ p.slots[p.units[u].feed].unit \in 1 .. Len(p.units)
         /\ \A s \in 1 .. Len(p.slots) : p.slots[s].unit \in 1 .. Len(p.units) /\ p.slots[s].output \in 1 .. 2
<1>1. p.units \in Seq(AllUnits) /\ p.slots \in Seq(AllSlots)
  BY DEF Chained
<1>2. ASSUME NEW u \in 1 .. Len(p.units)
      PROVE  /\ p.units[u].key \in AllKeys /\ p.units[u].key.source \in Sources
             /\ Span(p.units[u].key) \in Nat \ {0}
             /\ IndicatorWarmup(p.units[u].key) = Span(p.units[u].key) - 1
  <2>5. p.units[u] \in AllUnits
    BY <1>1
  <2>1. PICK key \in AllKeys : key = p.units[u].key
    BY <2>5 DEF AllUnits
  <2>2. key.period \in Nat \ {0} /\ key.source \in Sources
    BY DEF AllKeys
  <2>3. IndicatorWarmup(key) \in Nat
    BY <2>2 DEF IndicatorWarmup
  <2>4. QED
    BY <2>1, <2>2, <2>3 DEF Span
<1>3. ASSUME NEW s \in 1 .. Len(p.slots)
      PROVE  p.slots[s].unit \in 1 .. Len(p.units) /\ p.slots[s].output \in 1 .. 2
  <2>1. p.slots[s] \in AllSlots
    BY <1>1
  <2>2. QED
    BY <2>1 DEF AllSlots, Chained
<1>4. ASSUME NEW u \in 1 .. Len(p.units), p.units[u].feed # 0
      PROVE  /\ p.units[u].feed \in 1 .. Len(p.slots)
             /\ p.slots[p.units[u].feed].unit \in 1 .. u - 1
             /\ p.slots[p.units[u].feed].unit \in 1 .. Len(p.units)
  BY <1>3, <1>4 DEF Chained
<1>5. /\ Len(p.units) \in Nat /\ Len(p.slots) \in Nat
      /\ DOMAIN p.units = 1 .. Len(p.units) /\ DOMAIN p.slots = 1 .. Len(p.slots)
  BY <1>1
<1>6. QED
  BY <1>2, <1>3, <1>4, <1>5

LEMMA WarmupsAre ==
  ASSUME NEW p, Chained(p.units, p.slots)
  PROVE  /\ Warmups(p) \in [1 .. Len(p.units) -> Nat]
         /\ \A u \in 1 .. Len(p.units) :
              /\ Start(p, u) \in Nat
              /\ Warmups(p)[u] = Span(p.units[u].key) - 1 + Start(p, u)
<1>1. PICK n \in Nat : n = Len(p.units) /\ DOMAIN p.units = 1 .. n
  BY UnitsAre
<1> DEFINE at(g, u) == IndicatorWarmup(p.units[u].key)
                       + (IF p.units[u].feed = 0 THEN 0 ELSE g[p.slots[p.units[u].feed].unit])
           Is(g) == g = [u \in 1 .. n |-> at(g, u)]
<1>2. PICK step : step = [u \in 1 .. n |-> [g \in [1 .. u - 1 -> Nat] |-> at(g, u)]]
  OBVIOUS
<1>3. ASSUME NEW u \in 1 .. n
      PROVE  /\ IndicatorWarmup(p.units[u].key) \in Nat
             /\ p.units[u].feed # 0 => p.slots[p.units[u].feed].unit \in 1 .. u - 1
  BY <1>1, UnitsAre
<1>4. Steps(step, n, Nat)
  <2> SUFFICES ASSUME NEW u \in 1 .. n, NEW g \in [1 .. u - 1 -> Nat] PROVE step[u][g] \in Nat
    BY DEF Steps
  <2>1. at(g, u) \in Nat
    <3>1. CASE p.units[u].feed = 0
      BY <1>3, <3>1
    <3>2. CASE p.units[u].feed # 0
      <4>1. PICK k \in 1 .. u - 1 : k = p.slots[p.units[u].feed].unit
        BY <1>3, <3>2
      <4>2. g[k] \in Nat /\ IndicatorWarmup(p.units[u].key) \in Nat
        BY <1>3
      <4>3. at(g, u) = IndicatorWarmup(p.units[u].key) + g[k]
        BY <3>2, <4>1
      <4> HIDE DEF at
      <4>4. QED
        BY <4>2, <4>3
    <3>3. QED
      BY <3>1, <3>2
  <2> HIDE DEF at
  <2>2. QED
    BY <1>2, <2>1
<1>5. PICK f \in [1 .. n -> Nat] : Follows(f, step, n)
  <2> HIDE DEF at
  <2>1. QED
    BY <1>4, Recursion
<1>6. ASSUME NEW u \in 1 .. n PROVE f[u] = at(f, u)
  <2>1. PICK g : g = Before(f, u)
    OBVIOUS
  <2>2. g \in [1 .. u - 1 -> Nat] /\ \A k \in 1 .. u - 1 : g[k] = f[k]
    BY <2>1 DEF Before
  <2>3. f[u] = at(g, u)
    <3> HIDE DEF at
    <3>1. QED
      BY <1>2, <1>5, <2>1, <2>2 DEF Follows
  <2>4. at(g, u) = at(f, u)
    BY <1>3, <2>2
  <2>5. QED
    BY <2>3, <2>4
<1>7. Is(f)
  <2> HIDE DEF at
  <2>1. QED
    BY <1>6
<1>8. PICK warm : warm = CHOOSE g : Is(g)
  OBVIOUS
<1>9. Warmups(p) = warm
  BY <1>1, <1>8 DEF Warmups
<1>10. Is(warm)
  <2> HIDE DEF Is
  <2>1. QED
    BY <1>7, <1>8
<1>11. \A u \in 1 .. n : warm[u] = at(warm, u)
  <2> HIDE DEF at
  <2>1. QED
    BY <1>10
<1> DEFINE P == {u \in 1 .. n : warm[u] \in Nat}
<1>12. ASSUME NEW u \in 1 .. n, \A k \in 1 .. u - 1 : k \in P PROVE u \in P
  <2>1. CASE p.units[u].feed = 0
    BY <1>3, <1>11, <2>1
  <2>2. CASE p.units[u].feed # 0
    <3>1. PICK k \in 1 .. u - 1 : k = p.slots[p.units[u].feed].unit
      BY <1>3, <2>2
    <3>2. warm[k] \in Nat /\ IndicatorWarmup(p.units[u].key) \in Nat
      BY <1>3, <1>12
    <3>3. warm[u] = IndicatorWarmup(p.units[u].key) + warm[k]
      BY <1>11, <2>2, <3>1
    <3>4. QED
      BY <3>2, <3>3
  <2>3. QED
    BY <2>1, <2>2
<1>13. \A u \in 1 .. n : warm[u] \in Nat
  <2>1. \A u \in 1 .. n : u \in P
    <3> HIDE DEF P
    <3>1. QED
      BY <1>12, ClimbAll
  <2>2. QED
    BY <2>1
<1>14. warm \in [1 .. n -> Nat]
  <2> HIDE DEF at
  <2>1. QED
    BY <1>10, <1>13
<1>15. ASSUME NEW u \in 1 .. n
       PROVE  Start(p, u) \in Nat /\ warm[u] = Span(p.units[u].key) - 1 + Start(p, u)
  <2>1. Start(p, u) = IF p.units[u].feed = 0 THEN 0 ELSE warm[p.slots[p.units[u].feed].unit]
    BY <1>9 DEF Start
  <2>2. Start(p, u) \in Nat
    <3>1. p.units[u].feed # 0 => p.slots[p.units[u].feed].unit \in 1 .. n
      BY <1>1, UnitsAre
    <3>2. QED
      BY <1>13, <2>1, <3>1
  <2>3. IndicatorWarmup(p.units[u].key) = Span(p.units[u].key) - 1
    BY <1>1, UnitsAre
  <2>4. warm[u] = IndicatorWarmup(p.units[u].key) + Start(p, u)
    BY <1>11, <2>1
  <2>5. QED
    BY <2>2, <2>3, <2>4
<1>16. QED
  BY <1>1, <1>9, <1>14, <1>15

-----------------------------------------------------------------------------
(* There are such values, and they are known from the warm-up on.           *)
Cells == Int \cup {Unknown}

Known(p, bars, val, u) ==
  \A o \in 1 .. 2 : \A k \in 1 .. Len(bars) :
    /\ k <= Warmups(p)[u] => val[u][o][k] = Unknown
    /\ k > Warmups(p)[u] => val[u][o][k] \in Int

LEMMA FedIs ==
  ASSUME NEW p, Chained(p.units, p.slots), NEW bars \in Seq(AllBars), NEW val, NEW u \in 1 .. Len(p.units),
         \A f \in 1 .. u - 1 : Known(p, bars, val, f), NEW k \in 1 .. Len(bars)
  PROVE  /\ k <= Start(p, u) => FedAt(p, bars, val, u, k) = Unknown
         /\ k > Start(p, u) => FedAt(p, bars, val, u, k) \in Int
<1>1. CASE p.units[u].feed = 0
  <2>1. p.units[u].key.source \in Sources
    BY UnitsAre
  <2>2. bars[k] \in AllBars
    OBVIOUS
  <2>3. bars[k].close \in Nat /\ bars[k].open \in Nat
    BY <2>2 DEF AllBars
  <2>4. bars[k][p.units[u].key.source] \in Nat
    BY <2>1, <2>3 DEF Sources
  <2>5. Start(p, u) = 0 /\ FedAt(p, bars, val, u, k) \in Int
    BY <1>1, <2>4 DEF Start, FedAt
  <2>6. QED
    BY <2>5
<1>2. CASE p.units[u].feed # 0
  <2>1. PICK s : s = p.slots[p.units[u].feed]
    OBVIOUS
  <2>2. s.unit \in 1 .. u - 1 /\ s.output \in 1 .. 2
    BY <1>2, <2>1, UnitsAre
  <2>3. Start(p, u) = Warmups(p)[s.unit] /\ FedAt(p, bars, val, u, k) = val[s.unit][s.output][k]
    BY <1>2, <2>1 DEF Start, FedAt
  <2>4. Known(p, bars, val, s.unit)
    BY <2>2
  <2>5. QED
    BY <2>2, <2>3, <2>4 DEF Known
<1>3. QED
  BY <1>1, <1>2

LEMMA ValueIs ==
  ASSUME NEW p, Chained(p.units, p.slots), NEW bars \in Seq(AllBars), NEW val, NEW u \in 1 .. Len(p.units),
         \A f \in 1 .. u - 1 : Known(p, bars, val, f), NEW o \in 1 .. 2, NEW k \in 1 .. Len(bars)
  PROVE  /\ k <= Warmups(p)[u] => ValueAt(p, bars, val, u, o, k) = Unknown
         /\ k > Warmups(p)[u] => ValueAt(p, bars, val, u, o, k) \in Int
<1>1. PICK span \in Nat \ {0} : span = Span(p.units[u].key)
  BY UnitsAre
<1>2. PICK start \in Nat : start = Start(p, u)
  BY WarmupsAre
<1>3. Warmups(p)[u] = span - 1 + start
  BY <1>1, <1>2, WarmupsAre
<1>4. ASSUME k > Warmups(p)[u] PROVE ValueAt(p, bars, val, u, o, k) \in Int
  <2>1. PICK w : w = LastFed(p, bars, val, u, k, span)
    OBVIOUS
  <2>2. ASSUME NEW j \in 1 .. span PROVE FedAt(p, bars, val, u, k - span + j) \in Int
    <3>1. k - span + j \in 1 .. Len(bars) /\ k - span + j > start
      BY <1>3, <1>4
    <3>2. QED
      BY <1>2, <3>1, FedIs
  <2>3. w = [j \in 1 .. span |-> w[j]] /\ \A j \in 1 .. span : w[j] \in Int
    BY <2>1, <2>2 DEF LastFed
  <2>4. p.units[u].key \in AllKeys
    BY UnitsAre
  <2>5. LineOf(p.units[u].key, o, w) \in Int
    BY <2>3, <2>4, LineIs
  <2>6. ~(k <= Warmups(p)[u])
    BY <1>3, <1>4
  <2>7. QED
    BY <1>1, <2>1, <2>5, <2>6 DEF ValueAt
<1>5. QED
  BY <1>4 DEF ValueAt

LEMMA ValuesAreKnown ==
  ASSUME NEW p, Chained(p.units, p.slots), NEW bars \in Seq(AllBars), NEW val, IsValues(p, bars, val)
  PROVE  \A u \in 1 .. Len(p.units) :
           /\ Known(p, bars, val, u)
           /\ \A o \in 1 .. 2 : \A k \in 1 .. Len(bars) : val[u][o][k] = ValueAt(p, bars, val, u, o, k)
<1>1. PICK n \in Nat : n = Len(p.units)
  BY UnitsAre
<1>2. ASSUME NEW u \in 1 .. n, NEW o \in 1 .. 2, NEW k \in 1 .. Len(bars)
      PROVE  val[u][o][k] = ValueAt(p, bars, val, u, o, k)
  <2>1. val[u] = ValuesOf(p, bars, val, u)
    BY <1>1 DEF IsValues
  <2>2. QED
    BY <2>1 DEF ValuesOf
<1> DEFINE P == {u \in 1 .. n : Known(p, bars, val, u)}
<1>3. ASSUME NEW u \in 1 .. n, \A f \in 1 .. u - 1 : f \in P PROVE u \in P
  <2>1. \A f \in 1 .. u - 1 : Known(p, bars, val, f)
    BY <1>3
  <2>2. ASSUME NEW o \in 1 .. 2, NEW k \in 1 .. Len(bars)
        PROVE  /\ k <= Warmups(p)[u] => val[u][o][k] = Unknown
               /\ k > Warmups(p)[u] => val[u][o][k] \in Int
    BY <1>1, <1>2, <2>1, ValueIs
  <2>3. QED
    BY <2>2 DEF Known
<1>4. \A u \in 1 .. n : u \in P
  <2> HIDE DEF P
  <2>1. QED
    BY <1>3, ClimbAll
<1>5. QED
  BY <1>1, <1>2, <1>4

(* A unit's values are told by those of the units before it.                *)
LEMMA ValuesFromBefore ==
  ASSUME NEW p, Chained(p.units, p.slots), NEW bars, NEW f, NEW g, NEW u \in 1 .. Len(p.units),
         \A j \in 1 .. u - 1 : g[j] = f[j]
  PROVE  ValuesOf(p, bars, g, u) = ValuesOf(p, bars, f, u)
<1>1. ASSUME NEW k PROVE FedAt(p, bars, g, u, k) = FedAt(p, bars, f, u, k)
  <2>1. p.units[u].feed # 0 => p.slots[p.units[u].feed].unit \in 1 .. u - 1
    BY UnitsAre
  <2>2. QED
    BY <2>1 DEF FedAt
<1>2. ASSUME NEW k, NEW w PROVE LastFed(p, bars, g, u, k, w) = LastFed(p, bars, f, u, k, w)
  BY <1>1 DEF LastFed
<1>3. ASSUME NEW o, NEW k PROVE ValueAt(p, bars, g, u, o, k) = ValueAt(p, bars, f, u, o, k)
  BY <1>2 DEF ValueAt
<1>4. QED
  BY <1>3 DEF ValuesOf

LEMMA ValuesExist ==
  ASSUME NEW p, Chained(p.units, p.slots), NEW bars \in Seq(AllBars)
  PROVE  \E val : IsValues(p, bars, val)
<1>1. PICK n \in Nat : n = Len(p.units)
  BY UnitsAre
<1>2. PICK m \in Nat : m = Len(bars)
  OBVIOUS
<1>3. PICK V : V = [1 .. 2 -> [1 .. m -> Cells]]
  OBVIOUS
<1>4. PICK none \in V : none = [o \in 1 .. 2 |-> [k \in 1 .. m |-> Unknown]]
  BY <1>3 DEF Cells
<1> DEFINE at(g, u) == IF ValuesOf(p, bars, g, u) \in V THEN ValuesOf(p, bars, g, u) ELSE none
<1>5. PICK step : step = [u \in 1 .. n |-> [g \in [1 .. u - 1 -> V] |-> at(g, u)]]
  OBVIOUS
<1>6. Steps(step, n, V)
  <2> SUFFICES ASSUME NEW u \in 1 .. n, NEW g \in [1 .. u - 1 -> V] PROVE step[u][g] \in V
    BY DEF Steps
  <2>1. at(g, u) \in V
    OBVIOUS
  <2> HIDE DEF at
  <2>2. QED
    BY <1>5, <2>1
<1>7. PICK f \in [1 .. n -> V] : Follows(f, step, n)
  <2> HIDE DEF at
  <2>1. QED
    BY <1>6, Recursion
<1>8. ASSUME NEW u \in 1 .. n PROVE f[u] = at(f, u)
  <2>1. PICK g : g = Before(f, u)
    OBVIOUS
  <2>2. g \in [1 .. u - 1 -> V] /\ \A k \in 1 .. u - 1 : g[k] = f[k]
    BY <2>1 DEF Before
  <2>3. f[u] = at(g, u)
    <3> HIDE DEF at
    <3>1. QED
      BY <1>5, <1>7, <2>1, <2>2 DEF Follows
  <2>4. ValuesOf(p, bars, g, u) = ValuesOf(p, bars, f, u)
    BY <1>1, <2>2, ValuesFromBefore
  <2>5. QED
    BY <2>3, <2>4
<1> DEFINE P == {u \in 1 .. n : Known(p, bars, f, u) /\ f[u] = ValuesOf(p, bars, f, u)}
<1>9. ASSUME NEW u \in 1 .. n, \A j \in 1 .. u - 1 : j \in P PROVE u \in P
  <2>1. \A j \in 1 .. u - 1 : Known(p, bars, f, j)
    BY <1>9
  <2>2. ASSUME NEW o \in 1 .. 2, NEW k \in 1 .. m
        PROVE  /\ k <= Warmups(p)[u] => ValueAt(p, bars, f, u, o, k) = Unknown
               /\ k > Warmups(p)[u] => ValueAt(p, bars, f, u, o, k) \in Int
               /\ ValueAt(p, bars, f, u, o, k) \in Cells
    <3>1. /\ k <= Warmups(p)[u] => ValueAt(p, bars, f, u, o, k) = Unknown
          /\ k > Warmups(p)[u] => ValueAt(p, bars, f, u, o, k) \in Int
      BY <1>1, <1>2, <2>1, ValueIs
    <3>2. Warmups(p)[u] \in Nat
      BY <1>1, WarmupsAre
    <3>3. QED
      BY <3>1, <3>2 DEF Cells
  <2>3. ValuesOf(p, bars, f, u) \in V
    BY <1>2, <1>3, <2>2 DEF ValuesOf
  <2>4. f[u] = ValuesOf(p, bars, f, u)
    BY <1>8, <2>3
  <2>5. ASSUME NEW o \in 1 .. 2, NEW k \in 1 .. m PROVE f[u][o][k] = ValueAt(p, bars, f, u, o, k)
    BY <1>2, <2>4 DEF ValuesOf
  <2>6. Known(p, bars, f, u)
    BY <1>2, <2>2, <2>5 DEF Known
  <2>7. QED
    BY <2>4, <2>6
<1>10. \A u \in 1 .. n : u \in P
  <2> HIDE DEF P
  <2>1. QED
    BY <1>9, ClimbAll
<1>11. \A u \in 1 .. n : f[u] = ValuesOf(p, bars, f, u)
  BY <1>10
<1>12. f = [u \in 1 .. n |-> ValuesOf(p, bars, f, u)]
  BY <1>11
<1>13. QED
  BY <1>1, <1>12 DEF IsValues

-----------------------------------------------------------------------------
(* Rings.                                                                   *)
LEMMA RemainderIs ==
  ASSUME NEW s \in Nat \ {0}, NEW q \in Nat, NEW r \in 0 .. s - 1, NEW m \in Nat, m = q * s
  PROVE  (m + r) % s = r
<1>1. PICK x \in Nat : x = m + r
  OBVIOUS
<1>2. PICK p \in Nat, l \in Nat : p = x \div s /\ l = p * s
  OBVIOUS
<1>3. l <= x /\ x < l + s /\ x % s = x - l
  BY <1>2
<1>4. ~(q < p)
  <2> SUFFICES ASSUME q < p PROVE FALSE
    OBVIOUS
  <2>1. m + s <= l
    BY <1>2, LaterMultiple
  <2>2. QED
    BY <1>1, <1>3, <2>1
<1>5. ~(p < q)
  <2> SUFFICES ASSUME p < q PROVE FALSE
    OBVIOUS
  <2>1. l + s <= m
    BY <1>2, LaterMultiple
  <2>2. QED
    BY <1>1, <1>3, <2>1
<1>6. p = q
  BY <1>4, <1>5
<1>7. l = m
  BY <1>2, <1>6
<1>8. QED
  BY <1>1, <1>3, <1>7

LEMMA RingIs ==
  ASSUME NEW s \in Nat \ {0}, NEW a \in Nat, NEW b \in 0 .. s - 1, b <= a
  PROVE  /\ a % s \in 0 .. s - 1 /\ (a - b) % s \in 0 .. s - 1
         /\ ((a % s) - b + s) % s = (a - b) % s
         /\ b # 0 => (a - b) % s # a % s
<1>1. PICK q \in Nat, m \in Nat : q = a \div s /\ m = q * s
  OBVIOUS
<1>2. PICK r \in 0 .. s - 1 : r = a % s /\ a = m + r
  <2>1. a % s \in 0 .. s - 1 /\ a = m + (a % s)
    BY <1>1
  <2>2. QED
    BY <2>1
<1>3. CASE b <= r
  <2>1. r - b \in 0 .. s - 1
    BY <1>3
  <2>2. (m + (r - b)) % s = r - b
    BY <1>1, <2>1, RemainderIs
  <2>3. (s + (r - b)) % s = r - b
    <3>1. s = 1 * s
      OBVIOUS
    <3>2. QED
      BY <2>1, <3>1, RemainderIs
  <2>4. a - b = m + (r - b) /\ r - b + s = s + (r - b)
    BY <1>2
  <2>5. (a - b) % s = r - b /\ (r - b + s) % s = r - b
    BY <2>2, <2>3, <2>4
  <2>6. QED
    BY <1>2, <2>1, <2>5
<1>4. CASE ~(b <= r)
  <2>1. r - b + s \in 0 .. s - 1
    BY <1>4
  <2>2. PICK l \in Nat : l = m - s /\ q - 1 \in Nat /\ l = (q - 1) * s
    <3>1. q # 0
      BY <1>1, <1>2, <1>4
    <3>2. q - 1 \in Nat /\ (q - 1) * s \in Nat /\ (q - 1) * s = m - s
      BY <1>1, <3>1
    <3>3. QED
      BY <3>2
  <2>3. (l + (r - b + s)) % s = r - b + s
    <3>1. PICK c \in Nat, e \in 0 .. s - 1 : c = q - 1 /\ e = r - b + s
      BY <2>1, <2>2
    <3>2. l = c * s
      BY <2>2, <3>1
    <3>3. (l + e) % s = e
      BY <3>2, RemainderIs
    <3>4. QED
      BY <3>1, <3>3
  <2>4. (0 + (r - b + s)) % s = r - b + s
    <3>1. 0 = 0 * s
      OBVIOUS
    <3>2. QED
      BY <2>1, <3>1, RemainderIs
  <2>5. a - b = l + (r - b + s) /\ 0 + (r - b + s) = r - b + s
    BY <1>2, <2>2
  <2>6. (a - b) % s = r - b + s /\ (r - b + s) % s = r - b + s
    BY <2>3, <2>4, <2>5
  <2>7. QED
    BY <1>2, <2>1, <2>6
<1>5. QED
  BY <1>3, <1>4

LEMMA NextInRing ==
  ASSUME NEW s \in Nat \ {0}, NEW a \in Nat
  PROVE  ((a % s) + 1) % s = (a + 1) % s
<1>1. PICK q \in Nat, m \in Nat : q = a \div s /\ m = q * s
  OBVIOUS
<1>2. PICK r \in 0 .. s - 1 : r = a % s /\ a = m + r
  <2>1. a % s \in 0 .. s - 1 /\ a = m + (a % s)
    BY <1>1
  <2>2. QED
    BY <2>1
<1>3. CASE r + 1 \in 0 .. s - 1
  <2>1. (m + (r + 1)) % s = r + 1
    BY <1>1, <1>3, RemainderIs
  <2>2. (0 + (r + 1)) % s = r + 1
    <3>1. 0 = 0 * s
      OBVIOUS
    <3>2. QED
      BY <1>3, <3>1, RemainderIs
  <2>3. a + 1 = m + (r + 1) /\ r + 1 = 0 + (r + 1)
    BY <1>2
  <2>4. QED
    BY <1>2, <2>1, <2>2, <2>3
<1>4. CASE r + 1 = s
  <2>1. m + s \in Nat /\ m + s = (q + 1) * s /\ q + 1 \in Nat /\ 0 \in 0 .. s - 1
    BY <1>1
  <2>2. (m + s + 0) % s = 0
    <3>1. PICK c \in Nat, e \in Nat : c = q + 1 /\ e = m + s
      BY <2>1
    <3>2. e = c * s
      BY <2>1, <3>1
    <3>3. (e + 0) % s = 0
      BY <2>1, <3>2, RemainderIs
    <3>4. QED
      BY <3>1, <3>3
  <2>3. (s + 0) % s = 0
    <3>1. s = 1 * s /\ 0 \in 0 .. s - 1
      OBVIOUS
    <3>2. QED
      BY <3>1, RemainderIs
  <2>4. a + 1 = m + s + 0 /\ r + 1 = s + 0
    BY <1>2, <1>4
  <2>5. QED
    BY <1>2, <2>2, <2>3, <2>4
<1>5. QED
  BY <1>3, <1>4

(* A ring shows the first now of k entries, as many of them as it has cells.*)
Shows(ring, s, line, k, now) == \A j \in 1 .. now : k - j < s => ring[(j - 1) % s] = line[j]

LEMMA ShowsNext ==
  ASSUME NEW s \in Nat \ {0}, NEW V, NEW ring \in [0 .. s - 1 -> V], NEW line, NEW k \in Nat \ {0},
         Shows(ring, s, line, k, k - 1), NEW v, v = line[k]
  PROVE  Shows([ring EXCEPT ![(k - 1) % s] = v], s, line, k, k)
<1>1. PICK at \in 0 .. s - 1 : at = (k - 1) % s
  <2>1. k - 1 \in Nat /\ 0 \in 0 .. s - 1 /\ 0 <= k - 1
    OBVIOUS
  <2>2. (k - 1) % s \in 0 .. s - 1
    BY <2>1, RingIs
  <2>3. QED
    BY <2>2
<1>2. PICK new : new = [ring EXCEPT ![at] = v]
  OBVIOUS
<1>3. ASSUME NEW j \in 1 .. k, k - j < s PROVE new[(j - 1) % s] = line[j]
  <2>1. CASE j = k
    BY <1>1, <1>2, <2>1
  <2>2. CASE j # k
    <3>1. k - 1 \in Nat /\ k - j \in 0 .. s - 1 /\ k - j <= k - 1 /\ k - j # 0 /\ (k - 1) - (k - j) = j - 1
      BY <1>3, <2>2
    <3>2. (j - 1) % s \in 0 .. s - 1 /\ (j - 1) % s # (k - 1) % s
      <4>1. PICK a \in Nat, b \in 0 .. s - 1 : a = k - 1 /\ b = k - j
        BY <3>1
      <4>2. b <= a /\ b # 0 /\ a - b = j - 1
        BY <3>1, <4>1
      <4>3. (a - b) % s \in 0 .. s - 1 /\ (a - b) % s # a % s
        BY <4>2, RingIs
      <4>4. QED
        BY <4>1, <4>2, <4>3
    <3>3. new[(j - 1) % s] = ring[(j - 1) % s]
      BY <1>1, <1>2, <3>2
    <3>4. j \in 1 .. k - 1
      BY <2>2
    <3>5. QED
      BY <1>3, <3>3, <3>4 DEF Shows
  <2>3. QED
    BY <2>1, <2>2
<1>4. QED
  BY <1>1, <1>2, <1>3 DEF Shows

LEMMA ShowsAgain ==
  ASSUME NEW s \in Nat \ {0}, NEW ring, NEW line, NEW k \in Nat, Shows(ring, s, line, k, k)
  PROVE  Shows(ring, s, line, k + 1, k)
  BY DEF Shows

-----------------------------------------------------------------------------
(* Windows.                                                                 *)
Width(p, u, k) ==
  IF k <= Start(p, u) THEN 0
  ELSE IF k - Start(p, u) > Span(p.units[u].key) THEN Span(p.units[u].key) ELSE k - Start(p, u)

Window(p, bars, val, u, k) == LastFed(p, bars, val, u, k, Width(p, u, k))

LEMMA WindowMoves ==
  ASSUME NEW p, Chained(p.units, p.slots), NEW bars \in Seq(AllBars), NEW val, IsValues(p, bars, val),
         NEW u \in 1 .. Len(p.units), NEW k \in 1 .. Len(bars),
         NEW fed, fed = FedAt(p, bars, val, u, k)
  PROVE  /\ Window(p, bars, val, u, k - 1) \in Seq(Int)
         /\ k <= Start(p, u) => fed = Unknown /\ Window(p, bars, val, u, k) = Window(p, bars, val, u, k - 1)
         /\ k > Start(p, u) =>
              /\ fed \in Int
              /\ Window(p, bars, val, u, k) = Update(p.units[u].key, Window(p, bars, val, u, k - 1), fed)
         /\ Ready(p.units[u].key, Window(p, bars, val, u, k)) <=> k > Warmups(p)[u]
         /\ k > Warmups(p)[u] =>
              Window(p, bars, val, u, k) = LastFed(p, bars, val, u, k, Span(p.units[u].key))
<1>1. PICK span \in Nat \ {0} : span = Span(p.units[u].key)
  BY UnitsAre
<1>2. PICK start \in Nat : start = Start(p, u)
  BY WarmupsAre
<1>3. Warmups(p)[u] = span - 1 + start
  BY <1>1, <1>2, WarmupsAre
<1>4. PICK F : F = [i \in 1 .. Len(bars) |-> FedAt(p, bars, val, u, i)]
  OBVIOUS
<1>5. ASSUME NEW i \in 1 .. Len(bars), i > start PROVE F[i] \in Int /\ F[i] = FedAt(p, bars, val, u, i)
  <2>1. \A f \in 1 .. u - 1 : Known(p, bars, val, f)
    <3>1. \A f \in 1 .. u - 1 : f \in 1 .. Len(p.units)
      BY UnitsAre
    <3>2. QED
      BY <3>1, ValuesAreKnown
  <2>2. QED
    BY <1>2, <1>4, <1>5, <2>1, FedIs
<1>18. k \in Nat \ {0} /\ Len(bars) \in Nat /\ k <= Len(bars)
  OBVIOUS
<1>6. PICK w \in Nat : w = IF k - 1 <= start THEN 0 ELSE IF k - 1 - start > span THEN span ELSE k - 1 - start
  <2>1. (IF k - 1 <= start THEN 0 ELSE IF k - 1 - start > span THEN span ELSE k - 1 - start) \in Nat
    BY <1>18
  <2>2. QED
    BY <2>1
<1>7. PICK v \in Nat : v = IF k <= start THEN 0 ELSE IF k - start > span THEN span ELSE k - start
  <2>1. (IF k <= start THEN 0 ELSE IF k - start > span THEN span ELSE k - start) \in Nat
    BY <1>18
  <2>2. QED
    BY <2>1
<1>8. PICK old, new : old = Window(p, bars, val, u, k - 1) /\ new = Window(p, bars, val, u, k)
  OBVIOUS
<1>9. old = [j \in 1 .. w |-> F[k - 1 - w + j]] /\ \A j \in 1 .. w : F[k - 1 - w + j] \in Int
  <2>1. \A j \in 1 .. w : k - 1 - w + j \in 1 .. Len(bars) /\ k - 1 - w + j > start
    BY <1>6
  <2>2. Width(p, u, k - 1) = w
    BY <1>1, <1>2, <1>6 DEF Width
  <2>3. \A j \in 1 .. w : FedAt(p, bars, val, u, k - 1 - w + j) = F[k - 1 - w + j]
    BY <1>5, <2>1
  <2>4. old = [j \in 1 .. w |-> FedAt(p, bars, val, u, k - 1 - w + j)]
    BY <1>8, <2>2 DEF Window, LastFed
  <2>5. [j \in 1 .. w |-> FedAt(p, bars, val, u, k - 1 - w + j)] = [j \in 1 .. w |-> F[k - 1 - w + j]]
    BY <2>3
  <2>6. QED
    BY <1>5, <2>1, <2>4, <2>5
<1>10. new = [j \in 1 .. v |-> F[k - v + j]] /\ \A j \in 1 .. v : F[k - v + j] \in Int
  <2>1. \A j \in 1 .. v : k - v + j \in 1 .. Len(bars) /\ k - v + j > start
    BY <1>7
  <2>2. Width(p, u, k) = v
    BY <1>1, <1>2, <1>7 DEF Width
  <2>3. \A j \in 1 .. v : FedAt(p, bars, val, u, k - v + j) = F[k - v + j]
    BY <1>5, <2>1
  <2>4. new = [j \in 1 .. v |-> FedAt(p, bars, val, u, k - v + j)]
    BY <1>8, <2>2 DEF Window, LastFed
  <2>5. [j \in 1 .. v |-> FedAt(p, bars, val, u, k - v + j)] = [j \in 1 .. v |-> F[k - v + j]]
    BY <2>3
  <2>6. QED
    BY <1>5, <2>1, <2>4, <2>5
<1>11. old \in [1 .. w -> Int] /\ old \in Seq(Int) /\ Len(old) = w
  <2>1. old \in [1 .. w -> Int]
    BY <1>9
  <2>2. QED
    BY <2>1
<1>12. new \in [1 .. v -> Int] /\ new \in Seq(Int) /\ Len(new) = v
  <2>1. new \in [1 .. v -> Int]
    BY <1>10
  <2>2. QED
    BY <2>1
<1>13. ASSUME k <= start PROVE fed = Unknown /\ new = old
  <2>1. w = 0 /\ v = 0
    BY <1>6, <1>7, <1>13
  <2>2. new = old
    BY <1>9, <1>10, <2>1
  <2>3. \A f \in 1 .. u - 1 : Known(p, bars, val, f)
    <3>1. \A f \in 1 .. u - 1 : f \in 1 .. Len(p.units)
      BY UnitsAre
    <3>2. QED
      BY <3>1, ValuesAreKnown
  <2>4. QED
    BY <1>2, <1>13, <2>2, <2>3, FedIs
<1>14. ASSUME k > start PROVE fed \in Int /\ new = Update(p.units[u].key, old, fed)
  <2>1. fed \in Int /\ F[k] = fed
    BY <1>5, <1>14
  <2>2. PICK longer : longer = Append(old, fed)
    OBVIOUS
  <2>3. /\ longer \in Seq(Int) /\ Len(longer) = w + 1
        /\ \A j \in 1 .. w + 1 : longer[j] = F[k - 1 - w + j]
    <3>1. longer \in Seq(Int) /\ Len(longer) = w + 1
      BY <1>11, <2>1, <2>2
    <3>2. ASSUME NEW j \in 1 .. w + 1 PROVE longer[j] = F[k - 1 - w + j]
      <4>1. CASE j = w + 1
        <5>1. longer[w + 1] = fed
          BY <1>11, <2>2
        <5>2. k - 1 - w + (w + 1) = k
          OBVIOUS
        <5>3. QED
          BY <2>1, <4>1, <5>1, <5>2
      <4>2. CASE j # w + 1
        <5>1. j \in 1 .. w
          BY <4>2
        <5>2. longer[j] = old[j]
          BY <1>11, <2>2, <5>1
        <5>3. QED
          BY <1>9, <5>1, <5>2
      <4>3. QED
        BY <4>1, <4>2
    <3>3. QED
      BY <3>1, <3>2
  <2>4. CASE w + 1 > span
    <3>1. w = span /\ v = span
      BY <1>6, <1>7, <1>14, <2>4
    <3>2. PICK rest : rest = Tail(longer)
      OBVIOUS
    <3>3. rest \in Seq(Int) /\ Len(rest) = w /\ \A j \in 1 .. w : rest[j] = longer[j + 1]
      <4>1. longer \in Seq(Int) /\ Len(longer) = w + 1 /\ w + 1 - 1 = w
        BY <2>3
      <4>2. longer # << >>
        BY <3>1, <4>1
      <4>3. /\ rest \in Seq(Int) /\ Len(rest) = Len(longer) - 1
            /\ \A j \in 1 .. Len(rest) : rest[j] = longer[j + 1]
        BY <3>2, <4>1, <4>2, TailIs
      <4>4. QED
        BY <4>1, <4>3
    <3>4. \A j \in 1 .. v : rest[j] = F[k - v + j]
      <4> SUFFICES ASSUME NEW j \in 1 .. v PROVE rest[j] = F[k - v + j]
        OBVIOUS
      <4>1. rest[j] = longer[j + 1] /\ j + 1 \in 1 .. w + 1
        BY <3>1, <3>3
      <4>2. k - 1 - w + (j + 1) = k - v + j
        BY <3>1
      <4>3. QED
        BY <2>3, <4>1, <4>2
    <3>5. rest = [j \in 1 .. v |-> rest[j]]
      BY <3>1, <3>3
    <3>6. rest = new
      BY <1>10, <3>4, <3>5
    <3>7. Update(p.units[u].key, old, fed) = rest
      BY <1>1, <2>2, <2>3, <2>4, <3>2 DEF Update
    <3>8. QED
      BY <2>1, <3>6, <3>7
  <2>5. CASE ~(w + 1 > span)
    <3>1. v = w + 1
      BY <1>6, <1>7, <1>14, <2>5
    <3>2. \A j \in 1 .. v : longer[j] = F[k - v + j]
      <4>1. \A j \in 1 .. v : k - 1 - w + j = k - v + j
        BY <3>1
      <4>2. QED
        BY <2>3, <3>1, <4>1
    <3>3. longer = [j \in 1 .. v |-> longer[j]]
      BY <2>3, <3>1
    <3>4. longer = new
      BY <1>10, <3>2, <3>3
    <3>5. Update(p.units[u].key, old, fed) = longer
      BY <1>1, <2>2, <2>3, <2>5 DEF Update
    <3>6. QED
      BY <2>1, <3>4, <3>5
  <2>6. QED
    BY <2>4, <2>5
<1>15. Ready(p.units[u].key, new) <=> k > Warmups(p)[u]
  <2>1. Ready(p.units[u].key, new) <=> v = span
    BY <1>1, <1>12 DEF Ready
  <2>2. v = span <=> k > span - 1 + start
    BY <1>7
  <2>3. QED
    BY <1>3, <2>1, <2>2
<1>16. ASSUME k > Warmups(p)[u] PROVE new = LastFed(p, bars, val, u, k, span)
  <2>1. v = span
    BY <1>3, <1>7, <1>16
  <2>2. Width(p, u, k) = v
    BY <1>1, <1>2, <1>7 DEF Width
  <2>3. QED
    BY <1>8, <2>1, <2>2 DEF Window
<1>17. QED
  BY <1>1, <1>2, <1>8, <1>11, <1>13, <1>14, <1>15, <1>16

-----------------------------------------------------------------------------
(* What a tape is, and that feeding a unit leaves one.                      *)
IsPlan(p) == Chained(p.units, p.slots) /\ p.depth \in Nat

Tapes(p) ==
  [at : -1 .. Size(p) - 1, filled : Nat, bars : [0 .. Size(p) - 1 -> AllBars \cup {Unknown}],
   values : [1 .. Len(p.slots) -> [0 .. Size(p) - 1 -> Cells]],
   windows : [1 .. Len(p.units) -> Seq(Int)]]

LiveTapes(p) == {t \in Tapes(p) : t.at \in 0 .. Size(p) - 1}

LEMMA SizeIs ==
  ASSUME NEW p, p.depth \in Nat
  PROVE  Size(p) \in Nat \ {0} /\ Size(p) > p.depth
<1>1. PICK d \in Nat : d = p.depth
  OBVIOUS
<1>2. PICK m \in Nat : m = IF d + 1 >= 2 THEN d + 1 ELSE 2
  OBVIOUS
<1>3. PICK S : S = {d + 1, 2}
  OBVIOUS
<1>4. S \in SUBSET Int /\ m \in S /\ \A y \in S : y <= m
  BY <1>2, <1>3
<1>5. Max(S) = m
  BY <1>4, MaxIs
<1>6. Size(p) = m
  BY <1>1, <1>3, <1>5 DEF Size
<1>7. QED
  BY <1>1, <1>2, <1>6

Taken(p, t, u, bar) ==
  IF p.units[u].feed = 0 THEN bar[p.units[u].key.source] ELSE Slot(p, t, p.units[u].feed, 0)

Filled(p, t, u, bar) ==
  IF Taken(p, t, u, bar) = Unknown THEN t.windows[u] ELSE Update(p.units[u].key, t.windows[u], Taken(p, t, u, bar))

Shown(p, t, u, bar, s) ==
  IF Taken(p, t, u, bar) = Unknown \/ ~Ready(p.units[u].key, Filled(p, t, u, bar)) THEN Unknown
  ELSE LineOf(p.units[u].key, p.slots[s].output, Filled(p, t, u, bar))

ValuesFed(p, t, u, bar) ==
  [s \in DOMAIN t.values |->
     IF p.slots[s].unit # u THEN t.values[s] ELSE [t.values[s] EXCEPT ![t.at] = Shown(p, t, u, bar, s)]]

LEMMA FedTapeIs ==
  ASSUME NEW p, NEW t \in Tapes(p), NEW u, NEW bar
  PROVE  FeedUnit(p, t, u, bar) =
           [at |-> t.at, filled |-> t.filled, bars |-> t.bars, values |-> ValuesFed(p, t, u, bar),
            windows |-> [t.windows EXCEPT ![u] = Filled(p, t, u, bar)]]
<1>1. PICK a, f, b, v, w : t = [at |-> a, filled |-> f, bars |-> b, values |-> v, windows |-> w]
  BY DEF Tapes
<1>2. t.at = a /\ t.filled = f /\ t.bars = b /\ t.values = v /\ t.windows = w
  BY <1>1
<1>3. PICK values, window : values = ValuesFed(p, t, u, bar) /\ window = Filled(p, t, u, bar)
  OBVIOUS
<1>4. FeedUnit(p, t, u, bar) = [t EXCEPT !.windows[u] = window, !.values = values]
  BY <1>3 DEF FeedUnit, ValuesFed, Shown, Filled, Taken
<1>5. PICK windows : windows = [w EXCEPT ![u] = window]
  OBVIOUS
<1>6. PICK first : first = [t EXCEPT !.windows[u] = window]
  OBVIOUS
<1>7. first = [at |-> a, filled |-> f, bars |-> b, values |-> v, windows |-> windows]
  BY <1>1, <1>2, <1>5, <1>6
<1>8. PICK second : second = [first EXCEPT !.values = values]
  OBVIOUS
<1>9. second = [at |-> a, filled |-> f, bars |-> b, values |-> values, windows |-> windows]
  BY <1>7, <1>8
<1>10. [t EXCEPT !.windows[u] = window, !.values = values] = second
  BY <1>6, <1>8
<1>11. QED
  BY <1>2, <1>3, <1>4, <1>5, <1>9, <1>10

LEMMA SlotIs ==
  ASSUME NEW p, IsPlan(p), NEW t \in Tapes(p), NEW s \in 1 .. Len(p.slots), NEW back \in Nat
  PROVE  Slot(p, t, s, back) \in Cells
<1>1. PICK size \in Nat \ {0} : size = Size(p)
  BY SizeIs DEF IsPlan
<1>2. t.values[s] \in [0 .. size - 1 -> Cells] /\ t.at \in -1 .. size - 1 /\ t.filled \in Nat
  BY <1>1 DEF Tapes
<1>3. CASE Reachable(p, t, back)
  <2>1. t.at - back + size \in Nat
    BY <1>1, <1>2, <1>3 DEF Reachable
  <2>2. Index(p, t, back) \in 0 .. size - 1
    <3>1. PICK x \in Nat : x = t.at - back + size
      BY <2>1
    <3>2. x % size \in 0 .. size - 1
      OBVIOUS
    <3>3. QED
      BY <1>1, <3>1, <3>2 DEF Index
  <2>3. QED
    BY <1>2, <1>3, <2>2 DEF Slot
<1>4. CASE ~Reachable(p, t, back)
  BY <1>4 DEF Slot, Cells
<1>5. QED
  BY <1>3, <1>4

LEMMA FedTapeLives ==
  ASSUME NEW p, IsPlan(p), NEW t \in LiveTapes(p), NEW u \in 1 .. Len(p.units), NEW bar \in AllBars
  PROVE  FeedUnit(p, t, u, bar) \in LiveTapes(p)
<1>1. PICK taken, window : taken = Taken(p, t, u, bar) /\ window = Filled(p, t, u, bar)
  OBVIOUS
<1>2. t \in Tapes(p) /\ t.at \in 0 .. Size(p) - 1
  BY DEF LiveTapes
<1>3. /\ p.units[u].key \in AllKeys /\ p.units[u].key.source \in Sources
      /\ Span(p.units[u].key) \in Nat \ {0}
      /\ p.units[u].feed # 0 => p.units[u].feed \in 1 .. Len(p.slots)
  BY UnitsAre DEF IsPlan
<1>4. taken \in Cells
  <2>1. CASE p.units[u].feed = 0
    <3>1. bar.close \in Nat /\ bar.open \in Nat
      BY DEF AllBars
    <3>2. bar[p.units[u].key.source] \in Nat
      BY <1>3, <3>1 DEF Sources
    <3>3. QED
      BY <1>1, <2>1, <3>2 DEF Taken, Cells
  <2>2. CASE p.units[u].feed # 0
    <3>1. Slot(p, t, p.units[u].feed, 0) \in Cells
      BY <1>2, <1>3, <2>2, SlotIs
    <3>2. QED
      BY <1>1, <2>2, <3>1 DEF Taken
  <2>3. QED
    BY <2>1, <2>2
<1>5. t.windows \in [1 .. Len(p.units) -> Seq(Int)]
      /\ t.values \in [1 .. Len(p.slots) -> [0 .. Size(p) - 1 -> Cells]]
  BY <1>2 DEF Tapes
<1>6. window \in Seq(Int)
  <2>1. PICK old \in Seq(Int) : old = t.windows[u]
    BY <1>5
  <2>2. CASE taken = Unknown
    BY <1>1, <2>1, <2>2 DEF Filled
  <2>3. CASE taken # Unknown
    <3>1. taken \in Int
      BY <1>4, <2>3 DEF Cells
    <3>6. Append(old, taken) \in Seq(Int) /\ Len(Append(old, taken)) = Len(old) + 1 /\ Len(old) \in Nat
      BY <3>1
    <3>7. PICK longer : longer = Append(old, taken)
      OBVIOUS
    <3>2. longer \in Seq(Int) /\ longer = Append(old, taken) /\ Len(longer) > 0
      BY <3>6, <3>7
    <3>3. Tail(longer) \in Seq(Int)
      BY <3>2
    <3>4. Update(p.units[u].key, old, taken) \in Seq(Int)
      BY <3>2, <3>3 DEF Update
    <3>5. QED
      BY <1>1, <2>1, <2>3, <3>4 DEF Filled
  <2>4. QED
    BY <2>2, <2>3
<1>7. ASSUME NEW s \in 1 .. Len(p.slots), p.slots[s].unit = u PROVE Shown(p, t, u, bar, s) \in Cells
  <2>1. CASE taken = Unknown \/ ~Ready(p.units[u].key, window)
    BY <1>1, <2>1 DEF Shown, Cells
  <2>2. CASE ~(taken = Unknown \/ ~Ready(p.units[u].key, window))
    <3>1. PICK n \in Nat \ {0} : n = Len(window)
      BY <1>3, <2>2 DEF Ready
    <3>2. window = [j \in 1 .. n |-> window[j]] /\ \A j \in 1 .. n : window[j] \in Int
      BY <1>6, <3>1
    <3>3. p.slots[s].output \in 1 .. 2
      BY UnitsAre DEF IsPlan
    <3>4. LineOf(p.units[u].key, p.slots[s].output, window) \in Int
      BY <1>3, <3>2, <3>3, LineIs
    <3>5. QED
      BY <1>1, <2>2, <3>4 DEF Shown, Cells
  <2>3. QED
    BY <2>1, <2>2
<1>8. PICK values : values = ValuesFed(p, t, u, bar)
  OBVIOUS
<1>9. values \in [1 .. Len(p.slots) -> [0 .. Size(p) - 1 -> Cells]]
  <2>1. DOMAIN t.values = 1 .. Len(p.slots)
    BY <1>5
  <2>2. ASSUME NEW s \in 1 .. Len(p.slots) PROVE values[s] \in [0 .. Size(p) - 1 -> Cells]
    <3>1. t.values[s] \in [0 .. Size(p) - 1 -> Cells]
      BY <1>5
    <3>2. CASE p.slots[s].unit # u
      BY <1>8, <2>1, <3>1, <3>2 DEF ValuesFed
    <3>3. CASE p.slots[s].unit = u
      <4>1. PICK v \in Cells : v = Shown(p, t, u, bar, s)
        BY <1>7, <3>3
      <4>2. values[s] = [t.values[s] EXCEPT ![t.at] = v]
        BY <1>8, <2>1, <3>3, <4>1 DEF ValuesFed
      <4>3. QED
        BY <3>1, <4>2
    <3>4. QED
      BY <3>2, <3>3
  <2>3. values = [s \in 1 .. Len(p.slots) |-> values[s]]
    BY <1>8, <2>1 DEF ValuesFed
  <2>4. QED
    BY <2>2, <2>3
<1>10. PICK windows : windows = [t.windows EXCEPT ![u] = window]
  OBVIOUS
<1>11. windows \in [1 .. Len(p.units) -> Seq(Int)]
  BY <1>5, <1>6, <1>10
<1>12. FeedUnit(p, t, u, bar) = [at |-> t.at, filled |-> t.filled, bars |-> t.bars,
                                values |-> values, windows |-> windows]
  BY <1>1, <1>2, <1>8, <1>10, FedTapeIs
<1>13. t.at \in -1 .. Size(p) - 1 /\ t.filled \in Nat /\ t.bars \in [0 .. Size(p) - 1 -> AllBars \cup {Unknown}]
  BY <1>2 DEF Tapes
<1>14. QED
  BY <1>2, <1>9, <1>11, <1>12, <1>13 DEF LiveTapes, Tapes

-----------------------------------------------------------------------------
(* What a tape that k bars were pushed on shows of them; while the k-th is  *)
(* taken, units up to the u-th have it already.                             *)
LineOfSlot(p, val, s) == val[p.slots[s].unit][p.slots[s].output]

Stands(p, t, bars, val, k, u) ==
  /\ t \in LiveTapes(p) /\ t.filled = k /\ t.at = (k - 1) % Size(p)
  /\ Shows(t.bars, Size(p), bars, k, k)
  /\ \A s \in 1 .. Len(p.slots) :
       Shows(t.values[s], Size(p), LineOfSlot(p, val, s), k, IF p.slots[s].unit <= u THEN k ELSE k - 1)
  /\ \A i \in 1 .. Len(p.units) : t.windows[i] = Window(p, bars, val, i, IF i <= u THEN k ELSE k - 1)

InRing(p, t, k) == t \in Tapes(p) /\ t.filled = k /\ (k # 0 => t.at = (k - 1) % Size(p))

LEMMA SlotInRing ==
  ASSUME NEW p, IsPlan(p), NEW k \in Nat, NEW t, InRing(p, t, k),
         NEW s \in 1 .. Len(p.slots), NEW line, Shows(t.values[s], Size(p), line, k, k),
         NEW back \in Nat, back < Size(p)
  PROVE  Slot(p, t, s, back) = IF back < k THEN line[k - back] ELSE Unknown
<1>1. PICK size \in Nat \ {0} : size = Size(p)
  BY SizeIs DEF IsPlan
<1>2. CASE back < k
  <2>1. k - 1 \in Nat /\ back \in 0 .. size - 1 /\ back <= k - 1 /\ (k - 1) - back = (k - back) - 1
    BY <1>1, <1>2
  <2>2. (((k - 1) % size) - back + size) % size = ((k - 1) - back) % size
    BY <2>1, RingIs
  <2>3. Index(p, t, back) = ((k - back) - 1) % size
    <3>1. t.at = (k - 1) % size
      BY <1>1, <1>2 DEF InRing
    <3>2. Index(p, t, back) = (((k - 1) % size) - back + size) % size
      BY <1>1, <3>1 DEF Index
    <3>3. QED
      BY <2>1, <2>2, <3>2
  <2>4. k - back \in 1 .. k /\ k - (k - back) < size
    BY <1>1, <1>2
  <2>5. t.values[s][((k - back) - 1) % size] = line[k - back]
    BY <1>1, <2>4 DEF Shows
  <2>6. Reachable(p, t, back)
    BY <1>2 DEF Reachable, InRing
  <2>7. QED
    BY <1>2, <2>3, <2>5, <2>6 DEF Slot
<1>3. CASE ~(back < k)
  BY <1>3 DEF Slot, Reachable, InRing
<1>4. QED
  BY <1>2, <1>3

LEMMA UnitTakes ==
  ASSUME NEW p, IsPlan(p), NEW bars \in Seq(AllBars), NEW val, IsValues(p, bars, val),
         NEW k \in 1 .. Len(bars), NEW u \in 1 .. Len(p.units), NEW t, Stands(p, t, bars, val, k, u - 1)
  PROVE  Taken(p, t, u, bars[k]) = FedAt(p, bars, val, u, k)
<1>1. CASE p.units[u].feed = 0
  BY <1>1 DEF Taken, FedAt
<1>2. CASE p.units[u].feed # 0
  <2>1. PICK s : s = p.units[u].feed
    OBVIOUS
  <2>2. s \in 1 .. Len(p.slots) /\ p.slots[s].unit \in 1 .. u - 1
    BY <1>2, <2>1, UnitsAre DEF IsPlan
  <2>3. p.slots[s].unit <= u - 1
    BY <2>2
  <2>4. /\ t \in Tapes(p) /\ t.filled = k /\ t.at = (k - 1) % Size(p)
        /\ Shows(t.values[s], Size(p), LineOfSlot(p, val, s), k, k)
    BY <2>2, <2>3 DEF Stands, LiveTapes
  <2>5. Size(p) \in Nat \ {0} /\ k \in Nat /\ 0 \in Nat /\ 0 < Size(p)
    BY SizeIs DEF IsPlan
  <2>6. Slot(p, t, s, 0) = LineOfSlot(p, val, s)[k - 0]
    <3>1. PICK line : line = LineOfSlot(p, val, s)
      OBVIOUS
    <3>2. Shows(t.values[s], Size(p), line, k, k)
      BY <2>4, <3>1
    <3>3. 0 < k
      OBVIOUS
    <3>4. Slot(p, t, s, 0) = IF 0 < k THEN line[k - 0] ELSE Unknown
      <4>1. InRing(p, t, k)
        BY <2>4 DEF InRing
      <4>2. QED
        BY <2>2, <2>5, <3>2, <4>1, SlotInRing
    <3>5. QED
      BY <3>1, <3>3, <3>4
  <2>7. k - 0 = k
    OBVIOUS
  <2>8. QED
    BY <1>2, <2>1, <2>6, <2>7 DEF Taken, FedAt, LineOfSlot
<1>3. QED
  BY <1>1, <1>2

LEMMA UnitIsFed ==
  ASSUME NEW p, IsPlan(p), NEW bars \in Seq(AllBars), NEW val, IsValues(p, bars, val),
         NEW k \in 1 .. Len(bars), NEW u \in 1 .. Len(p.units), NEW t, Stands(p, t, bars, val, k, u - 1)
  PROVE  Stands(p, FeedUnit(p, t, u, bars[k]), bars, val, k, u)
<1>1. PICK new : new = FeedUnit(p, t, u, bars[k])
  OBVIOUS
<1>2. t \in LiveTapes(p) /\ t \in Tapes(p) /\ bars[k] \in AllBars
  BY DEF Stands, LiveTapes
<1>3. new \in LiveTapes(p)
  BY <1>1, <1>2, FedTapeLives
<1>4. PICK size \in Nat \ {0} : size = Size(p)
  BY SizeIs DEF IsPlan
<1>5. PICK window, fed : window = Filled(p, t, u, bars[k]) /\ fed = FedAt(p, bars, val, u, k)
  OBVIOUS
<1>6. /\ new.at = t.at /\ new.filled = t.filled /\ new.bars = t.bars
      /\ new.values = ValuesFed(p, t, u, bars[k])
      /\ new.windows = [t.windows EXCEPT ![u] = window]
  BY <1>1, <1>2, <1>5, FedTapeIs
<1>7. Taken(p, t, u, bars[k]) = fed
  BY <1>5, UnitTakes
<1>8. t.windows[u] = Window(p, bars, val, u, k - 1)
  <2>1. ~(u <= u - 1)
    OBVIOUS
  <2>2. QED
    BY <2>1 DEF Stands
<1>9. PICK warm \in Nat : warm = Warmups(p)[u] /\ warm >= Start(p, u) /\ Start(p, u) \in Nat
  <2>1. Start(p, u) \in Nat /\ Warmups(p)[u] = Span(p.units[u].key) - 1 + Start(p, u)
        /\ Span(p.units[u].key) \in Nat \ {0}
    BY WarmupsAre, UnitsAre DEF IsPlan
  <2>2. QED
    BY <2>1
<1>10. /\ k <= Start(p, u) => fed = Unknown /\ Window(p, bars, val, u, k) = Window(p, bars, val, u, k - 1)
       /\ k > Start(p, u) =>
            /\ fed \in Int
            /\ Window(p, bars, val, u, k) = Update(p.units[u].key, Window(p, bars, val, u, k - 1), fed)
       /\ Ready(p.units[u].key, Window(p, bars, val, u, k)) <=> k > warm
       /\ k > warm => Window(p, bars, val, u, k) = LastFed(p, bars, val, u, k, Span(p.units[u].key))
  BY <1>5, <1>9, WindowMoves DEF IsPlan
<1>11. window = Window(p, bars, val, u, k)
  <2>1. CASE k <= Start(p, u)
    BY <1>5, <1>7, <1>8, <1>10, <2>1 DEF Filled
  <2>2. CASE k > Start(p, u)
    <3>1. fed # Unknown
      BY <1>10, <2>2, StrategyAssumption
    <3>2. QED
      BY <1>5, <1>7, <1>8, <1>10, <2>2, <3>1 DEF Filled
  <2>3. QED
    BY <1>9, <2>1, <2>2
<1>12. ASSUME NEW i \in 1 .. Len(p.units)
       PROVE  new.windows[i] = Window(p, bars, val, i, IF i <= u THEN k ELSE k - 1)
  <2>1. t.windows \in [1 .. Len(p.units) -> Seq(Int)]
    BY <1>2 DEF Tapes
  <2>2. CASE i = u
    BY <1>6, <1>11, <2>1, <2>2
  <2>3. CASE i # u
    <3>1. new.windows[i] = t.windows[i]
      BY <1>6, <2>1, <2>3
    <3>2. (i <= u - 1) <=> (i <= u)
      BY <2>3
    <3>3. QED
      BY <3>1, <3>2 DEF Stands
  <2>4. QED
    BY <2>2, <2>3
<1>13. ASSUME NEW s \in 1 .. Len(p.slots)
       PROVE  Shows(new.values[s], size, LineOfSlot(p, val, s), k, IF p.slots[s].unit <= u THEN k ELSE k - 1)
  <2>1. t.values \in [1 .. Len(p.slots) -> [0 .. size - 1 -> Cells]]
    BY <1>2, <1>4 DEF Tapes
  <2>2. p.slots[s].unit \in 1 .. Len(p.units) /\ p.slots[s].output \in 1 .. 2
    BY UnitsAre DEF IsPlan
  <2>3. Shows(t.values[s], size, LineOfSlot(p, val, s), k, IF p.slots[s].unit <= u - 1 THEN k ELSE k - 1)
    BY <1>4 DEF Stands
  <2>4. CASE p.slots[s].unit # u
    <3>1. new.values[s] = t.values[s]
      BY <1>6, <2>1, <2>4 DEF ValuesFed
    <3>2. p.slots[s].unit <= u - 1 <=> p.slots[s].unit <= u
      BY <2>2, <2>4
    <3>3. QED
      BY <2>3, <3>1, <3>2
  <2>5. CASE p.slots[s].unit = u
    <3>1. PICK v : v = Shown(p, t, u, bars[k], s)
      OBVIOUS
    <3>2. new.values[s] = [t.values[s] EXCEPT ![t.at] = v]
      BY <1>6, <2>1, <2>5, <3>1 DEF ValuesFed
    <3>3. t.at = (k - 1) % size
      BY <1>4 DEF Stands
    <3>4. v = LineOfSlot(p, val, s)[k]
      <4>1. LineOfSlot(p, val, s)[k] = ValueAt(p, bars, val, u, p.slots[s].output, k)
        BY <2>2, <2>5, ValuesAreKnown DEF LineOfSlot, IsPlan
      <4>2. CASE k > warm
        <5>1. fed # Unknown /\ Ready(p.units[u].key, window)
          BY <1>9, <1>10, <1>11, <4>2, StrategyAssumption
        <5>2. v = LineOf(p.units[u].key, p.slots[s].output, window)
          BY <1>5, <1>7, <3>1, <5>1 DEF Shown
        <5>3. window = LastFed(p, bars, val, u, k, Span(p.units[u].key))
          BY <1>10, <1>11, <4>2
        <5>4. ~(k <= Warmups(p)[u])
          BY <1>9, <4>2
        <5>5. QED
          BY <4>1, <5>2, <5>3, <5>4 DEF ValueAt
      <4>3. CASE ~(k > warm)
        <5>1. ~Ready(p.units[u].key, window)
          BY <1>10, <1>11, <4>3
        <5>2. v = Unknown
          BY <1>5, <3>1, <5>1 DEF Shown
        <5>3. k <= Warmups(p)[u]
          BY <1>9, <4>3
        <5>4. QED
          BY <4>1, <5>2, <5>3 DEF ValueAt
      <4>4. QED
        BY <4>2, <4>3
    <3>5. Shows(t.values[s], size, LineOfSlot(p, val, s), k, k - 1)
      <4>1. ~(p.slots[s].unit <= u - 1)
        BY <2>5
      <4>2. QED
        BY <2>3, <4>1
    <3>6. k \in Nat \ {0} /\ t.values[s] \in [0 .. size - 1 -> Cells]
      BY <2>1
    <3>7. Shows([t.values[s] EXCEPT ![(k - 1) % size] = v], size, LineOfSlot(p, val, s), k, k)
      BY <3>4, <3>5, <3>6, ShowsNext
    <3>8. QED
      BY <2>5, <3>2, <3>3, <3>7
  <2>6. QED
    BY <2>4, <2>5
<1>14. QED
  BY <1>1, <1>3, <1>4, <1>6, <1>12, <1>13 DEF Stands

-----------------------------------------------------------------------------
(* One bar after the other.                                                 *)
Moved(p, t, bar) ==
  [at |-> (t.at + 1) % Size(p), filled |-> t.filled + 1,
   bars |-> [t.bars EXCEPT ![(t.at + 1) % Size(p)] = bar], values |-> t.values, windows |-> t.windows]

TakenAt(t, at, bar) == [t EXCEPT !.at = at, !.filled = @ + 1, !.bars[at] = bar]

LEMMA MovedIs ==
  ASSUME NEW p, IsPlan(p), NEW t \in Tapes(p), NEW bar \in AllBars, NEW at, at = (t.at + 1) % Size(p)
  PROVE  Moved(p, t, bar) \in LiveTapes(p) /\ TakenAt(t, at, bar) = Moved(p, t, bar)
<1>1. PICK size \in Nat \ {0} : size = Size(p)
  BY SizeIs DEF IsPlan
<1>2. at \in 0 .. size - 1
  <2>1. PICK x \in Nat : x = t.at + 1
    <3>1. t.at \in -1 .. Size(p) - 1
      BY DEF Tapes
    <3>2. t.at + 1 \in Nat
      BY <1>1, <3>1
    <3>3. QED
      BY <3>2
  <2>2. x % size \in 0 .. size - 1
    OBVIOUS
  <2>3. QED
    BY <1>1, <2>1, <2>2
<1>3. PICK a, f, b, v, w : t = [at |-> a, filled |-> f, bars |-> b, values |-> v, windows |-> w]
  BY DEF Tapes
<1>4. t.at = a /\ t.filled = f /\ t.bars = b /\ t.values = v /\ t.windows = w
  BY <1>3
<1>5. PICK bars : bars = [b EXCEPT ![at] = bar]
  OBVIOUS
<1>6. PICK new : new = Moved(p, t, bar)
  OBVIOUS
<1>7. new = [at |-> at, filled |-> f + 1, bars |-> bars, values |-> v, windows |-> w]
  BY <1>4, <1>5, <1>6 DEF Moved
<1>8. [t EXCEPT !.at = at, !.filled = @ + 1, !.bars[at] = bar] = new
  <2>1. PICK first : first = [t EXCEPT !.at = at]
    OBVIOUS
  <2>2. first = [at |-> at, filled |-> f, bars |-> b, values |-> v, windows |-> w]
    BY <1>3, <2>1
  <2>3. PICK second : second = [first EXCEPT !.filled = @ + 1]
    OBVIOUS
  <2>4. first.filled = f
    BY <2>2
  <2>5. second = [at |-> at, filled |-> f + 1, bars |-> b, values |-> v, windows |-> w]
    BY <2>2, <2>3, <2>4
  <2>6. second.bars = b
    BY <2>5
  <2>7. PICK third : third = [second EXCEPT !.bars[at] = bar]
    OBVIOUS
  <2>8. third = [at |-> at, filled |-> f + 1, bars |-> bars, values |-> v, windows |-> w]
    BY <1>5, <2>5, <2>6, <2>7
  <2>9. [t EXCEPT !.at = at, !.filled = @ + 1, !.bars[at] = bar] = third
    BY <2>1, <2>3, <2>7
  <2>10. QED
    BY <1>7, <2>8, <2>9
<1>9. /\ f \in Nat /\ b \in [0 .. Size(p) - 1 -> AllBars \cup {Unknown}]
      /\ v \in [1 .. Len(p.slots) -> [0 .. Size(p) - 1 -> Cells]]
      /\ w \in [1 .. Len(p.units) -> Seq(Int)]
  BY <1>4 DEF Tapes
<1>10. bars \in [0 .. Size(p) - 1 -> AllBars \cup {Unknown}]
  BY <1>1, <1>2, <1>5, <1>9
<1>11. at \in -1 .. Size(p) - 1 /\ at \in 0 .. Size(p) - 1 /\ f + 1 \in Nat
  BY <1>1, <1>2, <1>9
<1>12. new \in Tapes(p)
  BY <1>7, <1>9, <1>10, <1>11 DEF Tapes
<1>13. new.at = at
  BY <1>7
<1>14. QED
  BY <1>6, <1>8, <1>11, <1>12, <1>13 DEF LiveTapes, TakenAt

IsPush(p, t, bar, f) ==
  /\ f \in [0 .. Len(p.units) -> LiveTapes(p)] /\ f[0] = Moved(p, t, bar)
  /\ \A u \in 1 .. Len(p.units) : f[u] = FeedUnit(p, f[u - 1], u, bar)
  /\ PushTape(p, t, bar) = f[Len(p.units)]

LEMMA PushIs ==
  ASSUME NEW p, IsPlan(p), NEW t \in Tapes(p), NEW bar \in AllBars
  PROVE  \E f : IsPush(p, t, bar, f)
<1>1. PICK n \in Nat : n = Len(p.units)
  BY UnitsAre DEF IsPlan
<1>2. PICK moved \in LiveTapes(p) : moved = Moved(p, t, bar)
  BY MovedIs
<1> DEFINE Is(g) == g = [u \in 0 .. n |-> IF u = 0 THEN moved ELSE FeedUnit(p, g[u - 1], u, bar)]
<1>3. PICK step : step = [u \in 1 .. n |-> [v \in LiveTapes(p) |-> FeedUnit(p, v, u, bar)]]
  OBVIOUS
<1>4. StepsIn(n, LiveTapes(p), step)
  <2> SUFFICES ASSUME NEW u \in 1 .. n, NEW v \in LiveTapes(p) PROVE step[u][v] \in LiveTapes(p)
    BY DEF StepsIn
  <2>1. FeedUnit(p, v, u, bar) \in LiveTapes(p)
    BY <1>1, FedTapeLives
  <2>2. QED
    BY <1>3, <2>1
<1>5. PICK f \in [0 .. n -> LiveTapes(p)] : IsFold(f, n, moved, step)
  BY <1>4, Folding
<1>6. \A u \in 1 .. n : f[u] = FeedUnit(p, f[u - 1], u, bar)
  <2> SUFFICES ASSUME NEW u \in 1 .. n PROVE f[u] = FeedUnit(p, f[u - 1], u, bar)
    OBVIOUS
  <2>1. f[u - 1] \in LiveTapes(p) /\ f[u] = step[u][f[u - 1]]
    BY <1>5 DEF IsFold
  <2>2. QED
    BY <1>3, <2>1
<1>7. f[0] = moved
  BY <1>5 DEF IsFold
<1>8. Is(f)
  BY <1>5, <1>6, <1>7
<1>9. PICK g : g = CHOOSE h : Is(h)
  OBVIOUS
<1>10. Is(g)
  <2> HIDE DEF Is
  <2>1. QED
    BY <1>8, <1>9
<1>11. PushTape(p, t, bar) = g[n]
  <2>1. PICK at : at = (t.at + 1) % Size(p)
    OBVIOUS
  <2>2. PICK new : new = [t EXCEPT !.at = at, !.filled = @ + 1, !.bars[at] = bar]
    OBVIOUS
  <2>3. new = moved
    <3>1. TakenAt(t, at, bar) = Moved(p, t, bar)
      BY <2>1, MovedIs
    <3>2. QED
      BY <1>2, <2>2, <3>1 DEF TakenAt
  <2>4. PushTape(p, t, bar) =
          LET upTo[u \in 0 .. n] == IF u = 0 THEN new ELSE FeedUnit(p, upTo[u - 1], u, bar) IN upTo[n]
    BY <1>1, <2>1, <2>2 DEF PushTape
  <2>5. QED
    BY <1>9, <2>3, <2>4
<1> DEFINE P == {u \in 0 .. n : g[u] = f[u]}
<1>12. \A u \in 0 .. n : u \in P
  <2>1. 0 \in P
    BY <1>7, <1>10
  <2>2. ASSUME NEW u \in 0 .. n - 1, u \in P PROVE u + 1 \in P
    <3>1. u + 1 \in 1 .. n /\ (u + 1) - 1 = u
      OBVIOUS
    <3>2. g[u + 1] = FeedUnit(p, g[u], u + 1, bar)
      BY <1>10, <3>1
    <3>3. f[u + 1] = FeedUnit(p, f[u], u + 1, bar)
      BY <1>6, <3>1
    <3>4. QED
      BY <2>2, <3>1, <3>2, <3>3
  <2>3. 0 \in 0 .. n
    OBVIOUS
  <2> HIDE DEF P, Is
  <2>4. QED
    BY <2>1, <2>2, <2>3, Climb
<1>13. PushTape(p, t, bar) = f[n]
  BY <1>11, <1>12
<1>14. QED
  BY <1>1, <1>2, <1>5, <1>6, <1>7, <1>13 DEF IsPush

(* What a tape that k bars were pushed on shows of them.                    *)
IsTape(p, t, bars, val, k) ==
  /\ t \in Tapes(p) /\ t.filled = k /\ t.at = IF k = 0 THEN -1 ELSE (k - 1) % Size(p)
  /\ Shows(t.bars, Size(p), bars, k, k)
  /\ \A s \in 1 .. Len(p.slots) : Shows(t.values[s], Size(p), LineOfSlot(p, val, s), k, k)
  /\ \A i \in 1 .. Len(p.units) : t.windows[i] = Window(p, bars, val, i, k)

LEMMA MovedStands ==
  ASSUME NEW p, IsPlan(p), NEW bars \in Seq(AllBars), NEW val, NEW k \in 1 .. Len(bars),
         NEW t, IsTape(p, t, bars, val, k - 1)
  PROVE  Stands(p, Moved(p, t, bars[k]), bars, val, k, 0)
<1>1. PICK size \in Nat \ {0} : size = Size(p)
  BY SizeIs DEF IsPlan
<1>2. PICK at, new : at = (t.at + 1) % size /\ new = Moved(p, t, bars[k])
  OBVIOUS
<1>3. t \in Tapes(p) /\ bars[k] \in AllBars
  BY DEF IsTape
<1>4. new \in LiveTapes(p)
  BY <1>2, <1>3, MovedIs
<1>5. /\ new.at = at /\ new.filled = t.filled + 1 /\ new.bars = [t.bars EXCEPT ![at] = bars[k]]
      /\ new.values = t.values /\ new.windows = t.windows
  BY <1>1, <1>2 DEF Moved
<1>6. at = (k - 1) % size
  <2>1. CASE k = 1
    <3>1. t.at = -1
      BY <2>1 DEF IsTape
    <3>2. QED
      BY <1>2, <2>1, <3>1
  <2>2. CASE k # 1
    <3>1. t.at = (k - 2) % size /\ k - 2 \in Nat
      BY <1>1, <2>2 DEF IsTape
    <3>2. (((k - 2) % size) + 1) % size = ((k - 2) + 1) % size
      BY <3>1, NextInRing
    <3>3. (k - 2) + 1 = k - 1
      OBVIOUS
    <3>4. QED
      BY <1>2, <3>1, <3>2, <3>3
  <2>3. QED
    BY <2>1, <2>2
<1>7. new.filled = k
  <2>1. t.filled = k - 1
    BY DEF IsTape
  <2>2. QED
    BY <1>5, <2>1
<1>8. k - 1 \in Nat /\ (k - 1) + 1 = k /\ k \in Nat \ {0}
  OBVIOUS
<1>9. Shows(new.bars, size, bars, k, k)
  <2>1. Shows(t.bars, size, bars, k - 1, k - 1)
    BY <1>1 DEF IsTape
  <2>2. Shows(t.bars, size, bars, k, k - 1)
    BY <1>8, <2>1, ShowsAgain
  <2>3. t.bars \in [0 .. size - 1 -> AllBars \cup {Unknown}]
    BY <1>1, <1>3 DEF Tapes
  <2>4. Shows([t.bars EXCEPT ![(k - 1) % size] = bars[k]], size, bars, k, k)
    BY <1>8, <2>2, <2>3, ShowsNext
  <2>5. QED
    BY <1>5, <1>6, <2>4
<1>10. ASSUME NEW s \in 1 .. Len(p.slots)
       PROVE  Shows(new.values[s], size, LineOfSlot(p, val, s), k, IF p.slots[s].unit <= 0 THEN k ELSE k - 1)
  <2>1. Shows(t.values[s], size, LineOfSlot(p, val, s), k - 1, k - 1)
    BY <1>1 DEF IsTape
  <2>2. Shows(t.values[s], size, LineOfSlot(p, val, s), k, k - 1)
    BY <1>8, <2>1, ShowsAgain
  <2>3. ~(p.slots[s].unit <= 0)
    <3>1. p.slots[s].unit \in 1 .. Len(p.units) /\ Len(p.units) \in Nat
      BY UnitsAre DEF IsPlan
    <3>2. QED
      BY <3>1
  <2>4. QED
    BY <1>5, <2>2, <2>3
<1>11. ASSUME NEW i \in 1 .. Len(p.units)
       PROVE  new.windows[i] = Window(p, bars, val, i, IF i <= 0 THEN k ELSE k - 1)
  <2>1. t.windows[i] = Window(p, bars, val, i, k - 1) /\ ~(i <= 0)
    BY DEF IsTape
  <2>2. QED
    BY <1>5, <2>1
<1>12. QED
  BY <1>1, <1>2, <1>4, <1>5, <1>6, <1>7, <1>9, <1>10, <1>11 DEF Stands

LEMMA PushedIs ==
  ASSUME NEW p, IsPlan(p), NEW bars \in Seq(AllBars), NEW val, IsValues(p, bars, val),
         NEW k \in 1 .. Len(bars), NEW t, IsTape(p, t, bars, val, k - 1)
  PROVE  IsTape(p, PushTape(p, t, bars[k]), bars, val, k)
<1>1. PICK n \in Nat : n = Len(p.units)
  BY UnitsAre DEF IsPlan
<1>2. t \in Tapes(p) /\ bars[k] \in AllBars
  BY DEF IsTape
<1>3. PICK f : IsPush(p, t, bars[k], f)
  BY <1>2, PushIs
<1> DEFINE P == {u \in 0 .. n : Stands(p, f[u], bars, val, k, u)}
<1>4. 0 \in P
  BY <1>3, MovedStands DEF IsPush
<1>5. ASSUME NEW u \in 0 .. n - 1, u \in P PROVE u + 1 \in P
  <2>1. u + 1 \in 1 .. n /\ (u + 1) - 1 = u
    OBVIOUS
  <2>2. PICK v : v = u + 1
    OBVIOUS
  <2>3. v \in 1 .. n /\ v - 1 = u
    BY <2>1, <2>2
  <2>4. f[v] = FeedUnit(p, f[v - 1], v, bars[k])
    BY <1>1, <1>3, <2>3 DEF IsPush
  <2>5. Stands(p, f[v - 1], bars, val, k, v - 1)
    BY <1>5, <2>3
  <2>6. Stands(p, f[v], bars, val, k, v)
    BY <1>1, <2>3, <2>4, <2>5, UnitIsFed
  <2>7. QED
    BY <2>2, <2>3, <2>6
<1>6. n \in P
  <2>1. 0 \in 0 .. n /\ n \in 0 .. n
    OBVIOUS
  <2> HIDE DEF P
  <2>2. \A u \in 0 .. n : u \in P
    BY <1>4, <1>5, <2>1, Climb
  <2>3. QED
    BY <2>1, <2>2
<1>7. PICK new : new = PushTape(p, t, bars[k])
  OBVIOUS
<1>8. Stands(p, new, bars, val, k, n)
  BY <1>1, <1>3, <1>6, <1>7 DEF IsPush
<1>9. ASSUME NEW s \in 1 .. Len(p.slots) PROVE Shows(new.values[s], Size(p), LineOfSlot(p, val, s), k, k)
  <2>1. p.slots[s].unit <= n
    <3>1. p.slots[s].unit \in 1 .. n
      BY <1>1, UnitsAre DEF IsPlan
    <3>2. QED
      BY <3>1
  <2>2. QED
    BY <1>8, <2>1 DEF Stands
<1>10. ASSUME NEW i \in 1 .. n PROVE new.windows[i] = Window(p, bars, val, i, k)
  BY <1>1, <1>8 DEF Stands
<1>11. k # 0
  OBVIOUS
<1>12. QED
  BY <1>1, <1>7, <1>8, <1>9, <1>10, <1>11 DEF Stands, IsTape, LiveTapes

LEMMA NewTapeIs ==
  ASSUME NEW p, IsPlan(p), NEW bars, NEW val
  PROVE  NewTape(p) \in Tapes(p) /\ IsTape(p, NewTape(p), bars, val, 0)
<1>1. PICK size \in Nat \ {0} : size = Size(p)
  BY SizeIs DEF IsPlan
<1>2. DOMAIN p.slots = 1 .. Len(p.slots) /\ DOMAIN p.units = 1 .. Len(p.units)
  BY UnitsAre DEF IsPlan
<1>3. PICK t : t = NewTape(p)
  OBVIOUS
<1>4. /\ t.at = -1 /\ t.filled = 0
      /\ t.windows = [u \in 1 .. Len(p.units) |-> <<>>]
  BY <1>2, <1>3 DEF NewTape
<1>5. t \in Tapes(p)
  <2>1. -1 \in -1 .. size - 1 /\ 0 \in Nat
    OBVIOUS
  <2>2. [k \in 0 .. size - 1 |-> Unknown] \in [0 .. size - 1 -> AllBars \cup {Unknown}]
    OBVIOUS
  <2>3. [s \in 1 .. Len(p.slots) |-> [k \in 0 .. size - 1 |-> Unknown]]
          \in [1 .. Len(p.slots) -> [0 .. size - 1 -> Cells]]
    BY DEF Cells
  <2>4. [u \in 1 .. Len(p.units) |-> <<>>] \in [1 .. Len(p.units) -> Seq(Int)]
    OBVIOUS
  <2>5. QED
    BY <1>1, <1>2, <1>3, <2>1, <2>2, <2>3, <2>4 DEF NewTape, Tapes
<1>6. ASSUME NEW i \in 1 .. Len(p.units) PROVE t.windows[i] = Window(p, bars, val, i, 0)
  <2>1. 0 <= Start(p, i)
    <3>1. Start(p, i) \in Nat
      BY WarmupsAre DEF IsPlan
    <3>2. QED
      BY <3>1
  <2>2. Width(p, i, 0) = 0
    BY <2>1 DEF Width
  <2>3. Window(p, bars, val, i, 0) = [j \in 1 .. 0 |-> FedAt(p, bars, val, i, 0 - 0 + j)]
    BY <2>2 DEF Window, LastFed
  <2>4. [j \in 1 .. 0 |-> FedAt(p, bars, val, i, 0 - 0 + j)] = <<>>
    OBVIOUS
  <2>5. QED
    BY <1>4, <2>3, <2>4
<1>7. \A ring, line : Shows(ring, size, line, 0, 0)
  BY DEF Shows
<1>8. QED
  BY <1>1, <1>3, <1>4, <1>5, <1>6, <1>7 DEF IsTape

-----------------------------------------------------------------------------
(* Priming.                                                                 *)
IsPriming(p, bars, f) ==
  /\ f \in [0 .. Len(bars) -> Tapes(p)] /\ f[0] = NewTape(p)
  /\ \A k \in 1 .. Len(bars) : f[k] = PushTape(p, f[k - 1], bars[k])
  /\ Prime(p, bars) = f[Len(bars)]

LEMMA PrimeIs ==
  ASSUME NEW p, IsPlan(p), NEW bars \in Seq(AllBars)
  PROVE  \E f : IsPriming(p, bars, f)
<1>1. PICK n \in Nat : n = Len(bars)
  OBVIOUS
<1>2. PICK new \in Tapes(p) : new = NewTape(p)
  BY NewTapeIs
<1> DEFINE Is(g) == g = [k \in 0 .. n |-> IF k = 0 THEN new ELSE PushTape(p, g[k - 1], bars[k])]
<1>3. PICK step : step = [k \in 1 .. n |-> [v \in Tapes(p) |-> PushTape(p, v, bars[k])]]
  OBVIOUS
<1>4. StepsIn(n, Tapes(p), step)
  <2> SUFFICES ASSUME NEW k \in 1 .. n, NEW v \in Tapes(p) PROVE step[k][v] \in Tapes(p)
    BY DEF StepsIn
  <2>1. bars[k] \in AllBars
    BY <1>1
  <2>2. PICK f : IsPush(p, v, bars[k], f)
    BY <2>1, PushIs
  <2>3. Len(p.units) \in Nat
    BY UnitsAre DEF IsPlan
  <2>4. PushTape(p, v, bars[k]) \in Tapes(p)
    BY <2>2, <2>3 DEF IsPush, LiveTapes
  <2>5. QED
    BY <1>3, <2>4
<1>5. PICK f \in [0 .. n -> Tapes(p)] : IsFold(f, n, new, step)
  BY <1>4, Folding
<1>6. \A k \in 1 .. n : f[k] = PushTape(p, f[k - 1], bars[k])
  <2> SUFFICES ASSUME NEW k \in 1 .. n PROVE f[k] = PushTape(p, f[k - 1], bars[k])
    OBVIOUS
  <2>1. f[k - 1] \in Tapes(p) /\ f[k] = step[k][f[k - 1]]
    BY <1>5 DEF IsFold
  <2>2. QED
    BY <1>3, <2>1
<1>7. f[0] = new
  BY <1>5 DEF IsFold
<1>8. Is(f)
  BY <1>5, <1>6, <1>7
<1>9. PICK g : g = CHOOSE h : Is(h)
  OBVIOUS
<1>10. Is(g)
  <2> HIDE DEF Is
  <2>1. QED
    BY <1>8, <1>9
<1>11. Prime(p, bars) = g[n]
  BY <1>1, <1>2, <1>9 DEF Prime
<1> DEFINE P == {k \in 0 .. n : g[k] = f[k]}
<1>12. \A k \in 0 .. n : k \in P
  <2>1. 0 \in P
    BY <1>7, <1>10
  <2>2. ASSUME NEW k \in 0 .. n - 1, k \in P PROVE k + 1 \in P
    <3>1. k + 1 \in 1 .. n /\ (k + 1) - 1 = k
      OBVIOUS
    <3>2. g[k + 1] = PushTape(p, g[k], bars[k + 1])
      BY <1>10, <3>1
    <3>3. f[k + 1] = PushTape(p, f[k], bars[k + 1])
      BY <1>6, <3>1
    <3>4. QED
      BY <2>2, <3>1, <3>2, <3>3
  <2>3. 0 \in 0 .. n
    OBVIOUS
  <2> HIDE DEF P, Is
  <2>4. QED
    BY <2>1, <2>2, <2>3, Climb
<1>13. Prime(p, bars) = f[n]
  BY <1>11, <1>12
<1>14. QED
  BY <1>1, <1>2, <1>5, <1>6, <1>7, <1>13 DEF IsPriming

LEMMA PrimedIs ==
  ASSUME NEW p, IsPlan(p), NEW bars \in Seq(AllBars), NEW val, IsValues(p, bars, val)
  PROVE  IsTape(p, Prime(p, bars), bars, val, Len(bars))
<1>1. PICK n \in Nat : n = Len(bars)
  OBVIOUS
<1>2. PICK f : IsPriming(p, bars, f)
  BY PrimeIs
<1> DEFINE P == {k \in 0 .. n : IsTape(p, f[k], bars, val, k)}
<1>3. 0 \in P
  BY <1>2, NewTapeIs DEF IsPriming
<1>4. ASSUME NEW j \in 0 .. n - 1, j \in P PROVE j + 1 \in P
  <2>1. PICK k : k = j + 1
    OBVIOUS
  <2>2. k \in 1 .. n /\ k - 1 = j
    BY <2>1
  <2>3. f[k] = PushTape(p, f[k - 1], bars[k])
    BY <1>1, <1>2, <2>2 DEF IsPriming
  <2>4. IsTape(p, f[k - 1], bars, val, k - 1)
    BY <1>4, <2>2
  <2>5. IsTape(p, f[k], bars, val, k)
    BY <1>1, <2>2, <2>3, <2>4, PushedIs
  <2>6. QED
    BY <2>1, <2>2, <2>5
<1>5. n \in P
  <2>1. 0 \in 0 .. n /\ n \in 0 .. n
    OBVIOUS
  <2> HIDE DEF P
  <2>2. \A k \in 0 .. n : k \in P
    BY <1>3, <1>4, <2>1, Climb
  <2>3. QED
    BY <2>1, <2>2
<1>6. QED
  BY <1>1, <1>2, <1>5 DEF IsPriming

LEMMA PrimedWithOneMore ==
  ASSUME NEW p, IsPlan(p), NEW bars \in Seq(AllBars), NEW bar \in AllBars
  PROVE  Prime(p, Append(bars, bar)) = PushTape(p, Prime(p, bars), bar)
<1>1. PICK n \in Nat : n = Len(bars)
  OBVIOUS
<1>2. PICK more : more = Append(bars, bar)
  OBVIOUS
<1>3. more \in Seq(AllBars) /\ Len(more) = n + 1 /\ more[n + 1] = bar /\ \A k \in 1 .. n : more[k] = bars[k]
  BY <1>1, <1>2
<1>4. PICK f : IsPriming(p, bars, f)
  BY PrimeIs
<1>5. PICK g : IsPriming(p, more, g)
  BY <1>3, PrimeIs
<1> DEFINE P == {k \in 0 .. n : f[k] = g[k]}
<1>6. 0 \in P
  BY <1>4, <1>5 DEF IsPriming
<1>7. ASSUME NEW j \in 0 .. n - 1, j \in P PROVE j + 1 \in P
  <2>1. PICK k : k = j + 1
    OBVIOUS
  <2>2. k \in 1 .. n /\ k - 1 = j /\ k \in 1 .. n + 1
    BY <2>1
  <2>3. f[k] = PushTape(p, f[k - 1], bars[k])
    BY <1>1, <1>4, <2>2 DEF IsPriming
  <2>4. g[k] = PushTape(p, g[k - 1], bars[k])
    BY <1>3, <1>5, <2>2 DEF IsPriming
  <2>5. f[k - 1] = g[k - 1]
    BY <1>7, <2>2
  <2>6. QED
    BY <2>1, <2>2, <2>3, <2>4, <2>5
<1>8. f[n] = g[n]
  <2>1. 0 \in 0 .. n /\ n \in 0 .. n
    OBVIOUS
  <2> HIDE DEF P
  <2>2. \A k \in 0 .. n : k \in P
    BY <1>6, <1>7, <2>1, Climb
  <2>3. n \in P
    BY <2>1, <2>2
  <2>4. QED
    BY <2>3 DEF P
<1>9. g[n + 1] = PushTape(p, g[n], bar)
  <2>1. n + 1 \in 1 .. n + 1 /\ (n + 1) - 1 = n
    OBVIOUS
  <2>2. QED
    BY <1>3, <1>5, <2>1 DEF IsPriming
<1>10. Prime(p, bars) = f[n] /\ Prime(p, more) = g[n + 1]
  BY <1>1, <1>3, <1>4, <1>5 DEF IsPriming
<1>11. QED
  BY <1>2, <1>8, <1>9, <1>10

-----------------------------------------------------------------------------
(* What a term reads, over bars and values and without tape: the field or   *)
(* the line of so many bars ago.                                            *)
IsPlanTerm(p, term) ==
  \/ term.kind = "literal" /\ term.value \in Int
  \/ term.kind = "field" /\ term.field \in Fields /\ term.back \in Nat
  \/ term.kind = "input" /\ term.slot \in 1 .. Len(p.slots) /\ term.back \in Nat

TermOver(p, bars, val, term, extra) ==
  IF term.kind = "literal" THEN term.value
  ELSE IF Len(bars) - term.back - extra < 1 THEN Unknown
  ELSE IF term.kind = "field" THEN bars[Len(bars) - term.back - extra][term.field]
  ELSE LineOfSlot(p, val, term.slot)[Len(bars) - term.back - extra]

LEMMA FieldInRing ==
  ASSUME NEW p, IsPlan(p), NEW t \in Tapes(p), NEW k \in Nat, t.filled = k,
         k # 0 => t.at = (k - 1) % Size(p),
         NEW bars, Shows(t.bars, Size(p), bars, k, k),
         NEW field, NEW back \in Nat, back < Size(p)
  PROVE  Field(p, t, field, back) = IF back < k THEN bars[k - back][field] ELSE Unknown
<1>1. PICK size \in Nat \ {0} : size = Size(p)
  BY SizeIs DEF IsPlan
<1>2. CASE back < k
  <2>1. k - 1 \in Nat /\ back \in 0 .. size - 1 /\ back <= k - 1 /\ (k - 1) - back = (k - back) - 1
    BY <1>1, <1>2
  <2>2. (((k - 1) % size) - back + size) % size = ((k - 1) - back) % size
    BY <2>1, RingIs
  <2>3. Index(p, t, back) = ((k - back) - 1) % size
    <3>1. t.at = (k - 1) % size
      BY <1>1, <1>2
    <3>2. Index(p, t, back) = (((k - 1) % size) - back + size) % size
      BY <1>1, <3>1 DEF Index
    <3>3. QED
      BY <2>1, <2>2, <3>2
  <2>4. k - back \in 1 .. k /\ k - (k - back) < size
    BY <1>1, <1>2
  <2>5. t.bars[((k - back) - 1) % size] = bars[k - back]
    BY <1>1, <2>4 DEF Shows
  <2>6. Reachable(p, t, back)
    BY <1>2 DEF Reachable
  <2>7. QED
    BY <1>2, <2>3, <2>5, <2>6 DEF Field
<1>3. CASE ~(back < k)
  BY <1>3 DEF Field, Reachable
<1>4. QED
  BY <1>2, <1>3

LEMMA TermOnTape ==
  ASSUME NEW p, IsPlan(p), NEW bars \in Seq(AllBars), NEW val, NEW t, IsTape(p, t, bars, val, Len(bars)),
         NEW term, IsPlanTerm(p, term), NEW extra \in Nat,
         term.kind # "literal" => term.back + extra <= p.depth
  PROVE  TermAt(p, t, term, extra) = TermOver(p, bars, val, term, extra)
<1>1. PICK k \in Nat : k = Len(bars)
  OBVIOUS
<1>2. CASE term.kind = "literal"
  BY <1>2 DEF TermAt, TermOver
<1>3. CASE term.kind # "literal"
  <2>1. PICK back \in Nat : back = term.back + extra
    <3>1. term.back \in Nat
      BY <1>3 DEF IsPlanTerm
    <3>2. QED
      BY <3>1
  <2>2. back < Size(p)
    <3>1. Size(p) \in Nat /\ Size(p) > p.depth /\ p.depth \in Nat
      BY SizeIs DEF IsPlan
    <3>2. QED
      BY <1>3, <2>1, <3>1
  <2>3. /\ k - term.back - extra = k - back
        /\ k - back < 1 <=> ~(back < k)
    <3>1. term.back \in Nat
      BY <1>3 DEF IsPlanTerm
    <3>2. QED
      BY <2>1, <3>1
  <2>4. /\ t \in Tapes(p) /\ t.filled = k /\ (k # 0 => t.at = (k - 1) % Size(p))
        /\ Shows(t.bars, Size(p), bars, k, k)
        /\ \A s \in 1 .. Len(p.slots) : Shows(t.values[s], Size(p), LineOfSlot(p, val, s), k, k)
    BY <1>1 DEF IsTape
  <2>5. CASE term.kind = "field"
    <3>1. PICK field : field = term.field
      OBVIOUS
    <3>2. Field(p, t, field, back) = IF back < k THEN bars[k - back][field] ELSE Unknown
      BY <2>2, <2>4, FieldInRing
    <3>3. TermAt(p, t, term, extra) = Field(p, t, field, back)
      BY <2>1, <2>5, <3>1 DEF TermAt
    <3>4. QED
      BY <1>1, <2>3, <2>5, <3>1, <3>2, <3>3 DEF TermOver
  <2>6. CASE term.kind # "field"
    <3>1. PICK s \in 1 .. Len(p.slots) : s = term.slot
      BY <1>3, <2>6 DEF IsPlanTerm
    <3>2. PICK line : line = LineOfSlot(p, val, s)
      OBVIOUS
    <3>3. Shows(t.values[s], Size(p), line, k, k)
      BY <2>4, <3>2
    <3>4. Slot(p, t, s, back) = IF back < k THEN line[k - back] ELSE Unknown
      <4>1. InRing(p, t, k)
        BY <2>4 DEF InRing
      <4>2. QED
        BY <2>2, <3>3, <4>1, SlotInRing
    <3>5. TermAt(p, t, term, extra) = Slot(p, t, s, back)
      BY <1>3, <2>1, <2>6, <3>1 DEF TermAt
    <3>6. QED
      BY <1>1, <1>3, <2>3, <2>6, <3>1, <3>2, <3>4, <3>5 DEF TermOver
  <2>7. QED
    BY <2>5, <2>6
<1>4. QED
  BY <1>2, <1>3

LEMMA TermIs ==
  ASSUME NEW p, IsPlan(p), NEW bars \in Seq(AllBars), NEW val, IsValues(p, bars, val),
         NEW term, IsPlanTerm(p, term), NEW extra \in Nat
  PROVE  /\ TermOver(p, bars, val, term, extra) \in Cells
         /\ TermOver(p, bars, val, term, extra) = Unknown => TermOver(p, bars, val, term, extra + 1) = Unknown
<1>1. PICK m \in Nat : m = Len(bars)
  OBVIOUS
<1>2. CASE term.kind = "literal"
  BY <1>2, StrategyAssumption DEF TermOver, IsPlanTerm, Cells
<1>3. CASE term.kind # "literal"
  <2>1. PICK back \in Nat : back = term.back
    BY <1>3 DEF IsPlanTerm
  <2>2. PICK now \in Int : now = m - back - extra
    OBVIOUS
  <2>3. m - back - (extra + 1) = now - 1
    BY <2>2
  <2>4. CASE now < 1
    <3>1. now - 1 < 1
      BY <2>4
    <3>2. QED
      BY <1>1, <1>3, <2>1, <2>2, <2>3, <2>4, <3>1 DEF TermOver, Cells
  <2>5. CASE ~(now < 1)
    <3>1. now \in 1 .. m
      BY <2>2, <2>5
    <3>2. CASE term.kind = "field"
      <4>1. bars[now] \in AllBars
        BY <1>1, <3>1
      <4>2. bars[now].close \in Nat /\ bars[now].open \in Nat /\ bars[now].volume \in Nat
        BY <4>1 DEF AllBars
      <4>3. term.field \in {"close", "open", "volume"}
        BY <3>2 DEF IsPlanTerm, Fields, Sources
      <4>4. bars[now][term.field] \in Int
        BY <4>2, <4>3
      <4>5. TermOver(p, bars, val, term, extra) = bars[now][term.field]
        BY <1>1, <1>3, <2>1, <2>2, <2>5, <3>2 DEF TermOver
      <4>6. QED
        BY <4>4, <4>5, StrategyAssumption DEF Cells
    <3>3. CASE term.kind # "field"
      <4>1. PICK s \in 1 .. Len(p.slots) : s = term.slot
        BY <1>3, <3>3 DEF IsPlanTerm
      <4>2. PICK u, o : u = p.slots[s].unit /\ o = p.slots[s].output
        OBVIOUS
      <4>3. u \in 1 .. Len(p.units) /\ o \in 1 .. 2
        BY <4>2, UnitsAre DEF IsPlan
      <4>4. PICK warm \in Nat : warm = Warmups(p)[u]
        BY <4>3, WarmupsAre DEF IsPlan
      <4>5. \A k \in 1 .. m : /\ k <= warm => val[u][o][k] = Unknown
                              /\ k > warm => val[u][o][k] \in Int
        <5>1. Known(p, bars, val, u)
          BY <4>3, ValuesAreKnown DEF IsPlan
        <5>2. QED
          BY <1>1, <4>3, <4>4, <5>1 DEF Known
      <4>6. TermOver(p, bars, val, term, extra) = val[u][o][now]
        BY <1>1, <1>3, <2>1, <2>2, <2>5, <3>3, <4>1, <4>2 DEF TermOver, LineOfSlot
      <4>7. TermOver(p, bars, val, term, extra + 1) = IF now - 1 < 1 THEN Unknown ELSE val[u][o][now - 1]
        BY <1>1, <1>3, <2>1, <2>3, <3>3, <4>1, <4>2 DEF TermOver, LineOfSlot
      <4>8. CASE now <= warm
        <5>1. now - 1 < 1 \/ (now - 1 \in 1 .. m /\ now - 1 <= warm)
          BY <3>1, <4>8
        <5>2. QED
          BY <3>1, <4>5, <4>6, <4>7, <4>8, <5>1 DEF Cells
      <4>9. CASE now > warm
        BY <3>1, <4>5, <4>6, <4>9, StrategyAssumption DEF Cells
      <4>10. QED
        BY <3>1, <4>8, <4>9
    <3>4. QED
      BY <3>2, <3>3
  <2>6. QED
    BY <2>4, <2>5
<1>4. QED
  BY <1>2, <1>3

-----------------------------------------------------------------------------
(* The unit of an input, and what the rules' own account of an input's      *)
(* value has to do with it.                                                 *)
UnitOfInput(b, n) == b.slots[b.index[n]].unit

IsUnitOf(b, s, n, u) ==
  /\ u = UnitOfInput(b, n) /\ u \in 1 .. Len(b.units)
  /\ b.units[u].key = Key(s.inputs[n])
  /\ b.index[n] # 0 /\ b.slots[b.index[n]].output = OutputOf(s.inputs[n])
  /\ ~Feeds(s.inputs[n]) => b.units[u].feed = 0
  /\ Feeds(s.inputs[n]) => s.inputs[n].source \in DOMAIN s.inputs /\ b.units[u].feed = b.index[s.inputs[n].source]

LEMMA InputHasUnit ==
  ASSUME NEW s, AreInputs(s.inputs), AreChains(s.inputs, InputChains(s)),
         NEW N, N = DOMAIN s.inputs, NEW b, Sound(N, b), AllBuilt(b, s, N), NEW n \in N
  PROVE  IsUnitOf(b, s, n, UnitOfInput(b, n))
<1>1. PICK slot : slot = b.index[n]
  OBVIOUS
<1>2. Built(b, s, n)
  BY DEF AllBuilt
<1>3. HasLine(b, Key(s.inputs[n]), FeedOf(b, s, n), OutputOf(s.inputs[n]), slot)
  BY <1>1, <1>2 DEF Built, HasInput
<1>4. PICK u \in 1 .. Len(b.units) :
        /\ b.units[u] = [key |-> Key(s.inputs[n]), feed |-> FeedOf(b, s, n)]
        /\ b.slots[slot] = [unit |-> u, output |-> OutputOf(s.inputs[n])]
  BY <1>3 DEF HasLine
<1>5. slot # 0
  BY <1>3 DEF HasLine
<1>6. /\ n \in DOMAIN InputChains(s) <=> Feeds(s.inputs[n])
      /\ n \in DOMAIN InputChains(s) =>
           InputChains(s)[n] = s.inputs[n].source /\ s.inputs[n].source \in N
  <2>1. PICK c : c = InputChains(s)
    OBVIOUS
  <2>2. /\ ChainsIn(N, c) /\ (n \in DOMAIN c <=> Feeds(s.inputs[n]))
        /\ n \in DOMAIN c => c[n] = s.inputs[n].source
    BY <2>1, InputChainsAre
  <2>3. QED
    BY <2>1, <2>2 DEF ChainsIn
<1>7. /\ ~Feeds(s.inputs[n]) => FeedOf(b, s, n) = 0
      /\ Feeds(s.inputs[n]) => FeedOf(b, s, n) = b.index[s.inputs[n].source]
  BY <1>6 DEF FeedOf
<1>8. u = UnitOfInput(b, n)
  BY <1>1, <1>4 DEF UnitOfInput
<1>9. /\ b.units[u].key = Key(s.inputs[n]) /\ b.units[u].feed = FeedOf(b, s, n)
      /\ b.slots[slot].output = OutputOf(s.inputs[n])
  BY <1>4
<1>10. QED
  BY <1>1, <1>4, <1>5, <1>6, <1>7, <1>8, <1>9 DEF IsUnitOf

(* When an input is settled.                                                *)
SettledAt(s, g, n) ==
  Span(Key(s.inputs[n])) - 1 + (IF Feeds(s.inputs[n]) THEN g[s.inputs[n].source] ELSE 0)
IsSettled(s, g) == g = [n \in DOMAIN s.inputs |-> SettledAt(s, g, n)]

LEMMA WarmupOfInput ==
  ASSUME NEW s, AreInputs(s.inputs), AreChains(s.inputs, InputChains(s)),
         NEW N, N = DOMAIN s.inputs, NEW b, Sound(N, b), AllBuilt(b, s, N), NEW n \in N,
         NEW p, p.units = b.units, p.slots = b.slots
  PROVE  /\ ~Feeds(s.inputs[n]) => Warmups(p)[UnitOfInput(b, n)] = Span(Key(s.inputs[n])) - 1 + 0
         /\ Feeds(s.inputs[n]) =>
              /\ s.inputs[n].source \in N
              /\ Warmups(p)[UnitOfInput(b, n)] =
                   Span(Key(s.inputs[n])) - 1 + Warmups(p)[UnitOfInput(b, s.inputs[n].source)]
<1>1. PICK u : u = UnitOfInput(b, n)
  OBVIOUS
<1>2. IsUnitOf(b, s, n, u)
  BY <1>1, InputHasUnit
<1>3. Chained(p.units, p.slots)
  BY DEF Sound
<1>4. u \in 1 .. Len(p.units) /\ p.units[u].key = Key(s.inputs[n])
  BY <1>2 DEF IsUnitOf
<1>5. Warmups(p)[u] = Span(Key(s.inputs[n])) - 1 + Start(p, u)
  BY <1>3, <1>4, WarmupsAre
<1>6. CASE ~Feeds(s.inputs[n])
  <2>1. Start(p, u) = 0
    BY <1>2, <1>6 DEF Start, IsUnitOf
  <2>2. QED
    BY <1>1, <1>5, <1>6, <2>1
<1>7. CASE Feeds(s.inputs[n])
  <2>1. PICK m : m = s.inputs[n].source
    OBVIOUS
  <2>2. m \in N /\ p.units[u].feed = b.index[m]
    BY <1>2, <1>7, <2>1 DEF IsUnitOf
  <2>3. b.index[m] # 0
    BY <2>2, InputHasUnit DEF IsUnitOf
  <2>4. Start(p, u) = Warmups(p)[UnitOfInput(b, m)]
    BY <2>2, <2>3 DEF Start, UnitOfInput
  <2>5. QED
    BY <1>1, <1>5, <1>7, <2>1, <2>2, <2>4
<1>8. QED
  BY <1>6, <1>7

LEMMA SettledIs ==
  ASSUME NEW s, AreInputs(s.inputs), AreChains(s.inputs, InputChains(s)),
         NEW N, N = DOMAIN s.inputs, NEW b, Sound(N, b), AllBuilt(b, s, N),
         NEW p, p.units = b.units, p.slots = b.slots
  PROVE  /\ \E g : IsSettled(s, g)
         /\ \A g : IsSettled(s, g) => \A n \in N : g[n] = Warmups(p)[UnitOfInput(b, n)]
<1>1. PICK w : w = [n \in N |-> Warmups(p)[UnitOfInput(b, n)]]
  OBVIOUS
<1>2. ASSUME NEW n \in N PROVE w[n] = SettledAt(s, w, n)
  <2>1. CASE ~Feeds(s.inputs[n])
    BY <1>1, <2>1, WarmupOfInput DEF SettledAt
  <2>2. CASE Feeds(s.inputs[n])
    <3>1. /\ s.inputs[n].source \in N
          /\ Warmups(p)[UnitOfInput(b, n)] =
               Span(Key(s.inputs[n])) - 1 + Warmups(p)[UnitOfInput(b, s.inputs[n].source)]
      BY <2>2, WarmupOfInput
    <3>2. w[n] = Span(Key(s.inputs[n])) - 1 + w[s.inputs[n].source]
      BY <1>1, <3>1
    <3>3. QED
      BY <2>2, <3>2 DEF SettledAt
  <2>3. QED
    BY <2>1, <2>2
<1>3. IsSettled(s, w)
  <2>1. w = [n \in N |-> w[n]]
    BY <1>1
  <2>2. QED
    BY <1>2, <2>1 DEF IsSettled
<1>4. ASSUME NEW g, IsSettled(s, g) PROVE \A n \in N : g[n] = w[n]
  <2>1. \A n \in N : g[n] = SettledAt(s, g, n)
    BY <1>4 DEF IsSettled
  <2>2. PICK c : c = InputChains(s)
    OBVIOUS
  <2>3. /\ ChainsIn(N, c)
        /\ \A n \in N : n \in DOMAIN c <=> Feeds(s.inputs[n])
        /\ \A n \in DOMAIN c : c[n] = s.inputs[n].source
    BY <2>2, InputChainsAre
  <2>4. PICK P : P = {n \in N : g[n] = w[n]}
    OBVIOUS
  <2>5. ASSUME NEW n \in N, n \in DOMAIN c => c[n] \in P PROVE n \in P
    <3>1. CASE ~Feeds(s.inputs[n])
      BY <1>2, <2>1, <2>4, <3>1 DEF SettledAt
    <3>2. CASE Feeds(s.inputs[n])
      <4>1. g[s.inputs[n].source] = w[s.inputs[n].source]
        BY <2>3, <2>4, <2>5, <3>2
      <4>2. SettledAt(s, g, n) = SettledAt(s, w, n)
        BY <4>1 DEF SettledAt
      <4>3. QED
        BY <1>2, <2>1, <2>4, <4>2
    <3>3. QED
      BY <3>1, <3>2
  <2>6. N \subseteq P
    BY <2>3, <2>5, ChainInduction
  <2>7. QED
    BY <2>4, <2>6
<1>5. QED
  BY <1>1, <1>3, <1>4

(* Its values.                                                              *)
Reads(s, g, bars, n, i) ==
  IF Feeds(s.inputs[n]) THEN g[s.inputs[n].source][OutputOf(s.inputs[s.inputs[n].source])][i]
  ELSE bars[i][Key(s.inputs[n]).source]

MeantAt(s, bars, settled, g, n, o, k) ==
  IF k <= settled[n] THEN Unknown
  ELSE LineOf(Key(s.inputs[n]), o,
              [j \in 1 .. Span(Key(s.inputs[n])) |-> Reads(s, g, bars, n, k - Span(Key(s.inputs[n])) + j)])

MeantOf(s, bars, settled, g, n) ==
  [o \in 1 .. 2 |-> [k \in 1 .. Len(bars) |-> MeantAt(s, bars, settled, g, n, o, k)]]
AreMeant(s, bars, settled, g) == g = [n \in DOMAIN s.inputs |-> MeantOf(s, bars, settled, g, n)]

LEMMA MeantByUnit ==
  ASSUME NEW s, AreInputs(s.inputs), AreChains(s.inputs, InputChains(s)),
         NEW N, N = DOMAIN s.inputs, NEW b, Sound(N, b), AllBuilt(b, s, N),
         NEW p, p.units = b.units, p.slots = b.slots,
         NEW bars \in Seq(AllBars), NEW val, IsValues(p, bars, val),
         NEW settled, \A n \in N : settled[n] = Warmups(p)[UnitOfInput(b, n)],
         NEW n \in N, NEW g,
         Feeds(s.inputs[n]) => g[s.inputs[n].source] = val[UnitOfInput(b, s.inputs[n].source)]
  PROVE  MeantOf(s, bars, settled, g, n) = val[UnitOfInput(b, n)]
<1>1. PICK u : u = UnitOfInput(b, n)
  OBVIOUS
<1>2. IsUnitOf(b, s, n, u)
  BY <1>1, InputHasUnit
<1>3. u \in 1 .. Len(p.units) /\ p.units[u].key = Key(s.inputs[n])
  BY <1>2 DEF IsUnitOf
<1>4. ASSUME NEW i PROVE Reads(s, g, bars, n, i) = FedAt(p, bars, val, u, i)
  <2>1. CASE ~Feeds(s.inputs[n])
    <3>1. p.units[u].feed = 0
      BY <1>2, <2>1 DEF IsUnitOf
    <3>2. QED
      BY <1>3, <2>1, <3>1 DEF Reads, FedAt
  <2>2. CASE Feeds(s.inputs[n])
    <3>1. PICK m : m = s.inputs[n].source
      OBVIOUS
    <3>2. m \in N /\ p.units[u].feed = b.index[m]
      BY <1>2, <2>2, <3>1 DEF IsUnitOf
    <3>3. b.index[m] # 0 /\ b.slots[b.index[m]].output = OutputOf(s.inputs[m])
      BY <3>2, InputHasUnit DEF IsUnitOf
    <3>4. FedAt(p, bars, val, u, i) = val[UnitOfInput(b, m)][OutputOf(s.inputs[m])][i]
      BY <3>2, <3>3 DEF FedAt, UnitOfInput
    <3>5. QED
      BY <2>2, <3>1, <3>4 DEF Reads
  <2>3. QED
    BY <2>1, <2>2
<1>5. ASSUME NEW o, NEW k PROVE MeantAt(s, bars, settled, g, n, o, k) = ValueAt(p, bars, val, u, o, k)
  <2>1. PICK span : span = Span(Key(s.inputs[n]))
    OBVIOUS
  <2>2. [j \in 1 .. span |-> Reads(s, g, bars, n, k - span + j)] = LastFed(p, bars, val, u, k, span)
    BY <1>4 DEF LastFed
  <2>3. settled[n] = Warmups(p)[u]
    BY <1>1
  <2>4. QED
    BY <1>3, <2>1, <2>2, <2>3 DEF MeantAt, ValueAt
<1>6. MeantOf(s, bars, settled, g, n) = ValuesOf(p, bars, val, u)
  BY <1>5 DEF MeantOf, ValuesOf
<1>7. val[u] = ValuesOf(p, bars, val, u)
  BY <1>3 DEF IsValues
<1>8. QED
  BY <1>1, <1>6, <1>7

LEMMA MeantIs ==
  ASSUME NEW s, AreInputs(s.inputs), AreChains(s.inputs, InputChains(s)),
         NEW N, N = DOMAIN s.inputs, NEW b, Sound(N, b), AllBuilt(b, s, N),
         NEW p, p.units = b.units, p.slots = b.slots,
         NEW bars \in Seq(AllBars), NEW val, IsValues(p, bars, val),
         NEW settled, \A n \in N : settled[n] = Warmups(p)[UnitOfInput(b, n)]
  PROVE  /\ \E g : AreMeant(s, bars, settled, g)
         /\ \A g : AreMeant(s, bars, settled, g) => \A n \in N : g[n] = val[UnitOfInput(b, n)]
<1>1. PICK w : w = [n \in N |-> val[UnitOfInput(b, n)]]
  OBVIOUS
<1>2. PICK c : c = InputChains(s)
  OBVIOUS
<1>3. /\ ChainsIn(N, c)
      /\ \A n \in N : n \in DOMAIN c <=> Feeds(s.inputs[n])
      /\ \A n \in DOMAIN c : c[n] = s.inputs[n].source
      /\ \A n \in DOMAIN c : c[n] \in N
  <2>1. ChainsIn(N, c)
    BY <1>2, InputChainsAre
  <2>2. QED
    BY <1>2, <2>1, InputChainsAre DEF ChainsIn
<1>4. ASSUME NEW n \in N PROVE w[n] = MeantOf(s, bars, settled, w, n)
  <2>1. Feeds(s.inputs[n]) => w[s.inputs[n].source] = val[UnitOfInput(b, s.inputs[n].source)]
    BY <1>1, <1>3
  <2>2. MeantOf(s, bars, settled, w, n) = val[UnitOfInput(b, n)]
    BY <2>1, MeantByUnit
  <2>3. QED
    BY <1>1, <2>2
<1>5. AreMeant(s, bars, settled, w)
  <2>1. w = [n \in N |-> w[n]]
    BY <1>1
  <2>2. QED
    BY <1>4, <2>1 DEF AreMeant
<1>6. ASSUME NEW g, AreMeant(s, bars, settled, g) PROVE \A n \in N : g[n] = val[UnitOfInput(b, n)]
  <2>1. \A n \in N : g[n] = MeantOf(s, bars, settled, g, n)
    BY <1>6 DEF AreMeant
  <2>2. PICK P : P = {n \in N : g[n] = val[UnitOfInput(b, n)]}
    OBVIOUS
  <2>3. ASSUME NEW n \in N, n \in DOMAIN c => c[n] \in P PROVE n \in P
    <3>1. Feeds(s.inputs[n]) => g[s.inputs[n].source] = val[UnitOfInput(b, s.inputs[n].source)]
      BY <1>3, <2>2, <2>3
    <3>2. MeantOf(s, bars, settled, g, n) = val[UnitOfInput(b, n)]
      BY <3>1, MeantByUnit
    <3>3. QED
      BY <2>1, <2>2, <3>2
  <2>4. N \subseteq P
    BY <1>3, <2>3, ChainInduction
  <2>5. QED
    BY <2>2, <2>4
<1>7. QED
  BY <1>5, <1>6

-----------------------------------------------------------------------------
(* What the rules mean by an operand is what a term of the plan reads.      *)
PlaceRead(s, n, line) == IF line = None THEN OutputOf(s.inputs[n]) ELSE Pos(Lines(s.inputs[n]), line)

LEMMA ValueOfIs ==
  ASSUME AreInputs(spec.inputs), AreChains(spec.inputs, InputChains(spec)),
         NEW N, N = DOMAIN spec.inputs, NEW b, Sound(N, b), AllBuilt(b, spec, N),
         NEW p, p.units = b.units, p.slots = b.slots,
         seen \in Seq(AllBars), NEW val, IsValues(p, seen, val),
         NEW n \in N, NEW line, NEW now \in Int
  PROVE  ValueOf(n, line, now) =
           IF now < 1 THEN Unknown ELSE val[UnitOfInput(b, n)][PlaceRead(spec, n, line)][now]
<1>2. IsSettled(spec, SettledAfter) /\ \A m \in N : SettledAfter[m] = Warmups(p)[UnitOfInput(b, m)]
  <2>1. \E g : IsSettled(spec, g)
    BY SettledIs
  <2>2. IsSettled(spec, SettledAfter)
    <3>1. SettledAfter = CHOOSE g : IsSettled(spec, g)
      BY DEF SettledAfter, IsSettled, SettledAt, Feeds
    <3>2. QED
      BY <2>1, <3>1
  <2>3. QED
    BY <2>2, SettledIs
<1>3. AreMeant(spec, seen, SettledAfter, LinesMeant) /\ \A m \in N : LinesMeant[m] = val[UnitOfInput(b, m)]
  <2>1. \E g : AreMeant(spec, seen, SettledAfter, g)
    BY <1>2, MeantIs
  <2>2. LinesMeant = CHOOSE g : AreMeant(spec, seen, SettledAfter, g)
    BY DEF LinesMeant, AreMeant, MeantOf, MeantAt, Reads, OutputOf, Lines, Feeds
  <2>3. AreMeant(spec, seen, SettledAfter, LinesMeant)
    BY <2>1, <2>2
  <2>4. QED
    BY <1>2, <2>3, MeantIs
<1>4. ValueOf(n, line, now) = IF now < 1 THEN Unknown ELSE LinesMeant[n][PlaceRead(spec, n, line)][now]
  BY DEF ValueOf, PlaceRead, OutputOf, Lines
<1>5. QED
  BY <1>3, <1>4

TermOf(b, s, o) ==
  [kind |-> o.kind, field |-> o.name, value |-> o.value, back |-> o.back,
   slot |-> IF o.kind = "input" THEN Line(b, s, o) ELSE 0]

LEMMA OperandIs ==
  ASSUME AreInputs(spec.inputs), AreChains(spec.inputs, InputChains(spec)),
         NEW N, N = DOMAIN spec.inputs, NEW b, Sound(N, b), AllBuilt(b, spec, N),
         NEW p, p.units = b.units, p.slots = b.slots,
         seen \in Seq(AllBars), NEW val, IsValues(p, seen, val),
         NEW o, IsTerm(spec.inputs, o), o.kind = "input" => HasOperand(b, spec, o),
         NEW back \in Nat
  PROVE  /\ IsPlanTerm(p, TermOf(b, spec, o))
         /\ TermOver(p, seen, val, TermOf(b, spec, o), back) = OperandAt(o, back)
<1>1. PICK term : term = TermOf(b, spec, o)
  OBVIOUS
<1>2. /\ term.kind = o.kind /\ term.field = o.name /\ term.value = o.value /\ term.back = o.back
      /\ o.kind = "input" => term.slot = Line(b, spec, o)
  BY <1>1 DEF TermOf
<1>3. CASE o.kind = "literal"
  <2>1. o.value \in Int
    BY <1>3 DEF IsTerm
  <2>2. QED
    BY <1>1, <1>2, <1>3, <2>1 DEF IsPlanTerm, TermOver, OperandAt
<1>4. CASE o.kind = "field"
  <2>1. o.name \in Fields /\ o.back \in Nat
    BY <1>4, LanguageAssumption DEF IsTerm
  <2>2. QED
    BY <1>1, <1>2, <1>4, <2>1 DEF IsPlanTerm, TermOver, OperandAt
<1>5. CASE o.kind = "input"
  <2>1. PICK n \in N : n = o.name
    BY <1>5 DEF IsTerm
  <2>2. o.back \in Nat
    BY <1>5, LanguageAssumption DEF IsTerm
  <2>3. PICK slot : slot = Line(b, spec, o)
    OBVIOUS
  <2>4. HasLine(b, Key(spec.inputs[n]), FeedOf(b, spec, n), PlaceOfOperand(spec, o), slot)
    BY <1>5, <2>1, <2>3 DEF HasOperand
  <2>5. slot \in 1 .. Len(b.slots)
    BY <2>4 DEF HasLine
  <2>6. PICK u \in 1 .. Len(b.units) :
          /\ b.units[u] = [key |-> Key(spec.inputs[n]), feed |-> FeedOf(b, spec, n)]
          /\ b.slots[slot] = [unit |-> u, output |-> PlaceOfOperand(spec, o)]
    BY <2>4 DEF HasLine
  <2>7. u = UnitOfInput(b, n)
    <3>1. HasLine(b, Key(spec.inputs[n]), FeedOf(b, spec, n), OutputOf(spec.inputs[n]), b.index[n])
      BY DEF AllBuilt, Built, HasInput
    <3>2. PICK v \in 1 .. Len(b.units) :
            /\ b.units[v] = [key |-> Key(spec.inputs[n]), feed |-> FeedOf(b, spec, n)]
            /\ b.slots[b.index[n]] = [unit |-> v, output |-> OutputOf(spec.inputs[n])]
      BY <3>1 DEF HasLine
    <3>3. u = v
      BY <2>6, <3>2 DEF Sound, Distinct
    <3>4. b.slots[b.index[n]].unit = v
      BY <3>2
    <3>5. QED
      BY <3>3, <3>4 DEF UnitOfInput
  <2>8. LineOfSlot(p, val, slot) = val[u][PlaceOfOperand(spec, o)]
    BY <2>6 DEF LineOfSlot
  <2>9. PlaceOfOperand(spec, o) = PlaceRead(spec, n, o.line)
    BY <2>1 DEF PlaceOfOperand, PlaceRead
  <2>10. PICK now \in Int : now = Len(seen) - o.back - back
    BY <2>2
  <2>11. ValueOf(n, o.line, now) = IF now < 1 THEN Unknown ELSE val[u][PlaceRead(spec, n, o.line)][now]
    BY <2>7, ValueOfIs
  <2>12. OperandAt(o, back) = ValueOf(n, o.line, now)
    BY <1>5, <2>1, <2>10 DEF OperandAt
  <2>13. TermOver(p, seen, val, term, back) = IF now < 1 THEN Unknown ELSE LineOfSlot(p, val, slot)[now]
    BY <1>2, <1>5, <2>3, <2>10 DEF TermOver
  <2>14. IsPlanTerm(p, term)
    BY <1>2, <1>5, <2>2, <2>3, <2>5 DEF IsPlanTerm
  <2>15. QED
    BY <1>1, <2>8, <2>9, <2>11, <2>12, <2>13, <2>14
<1>6. QED
  BY <1>3, <1>4, <1>5 DEF IsTerm

-----------------------------------------------------------------------------
(* A compiled comparison, and how far back it reads.                        *)
LEMMA MaxOfFinite ==
  ASSUME NEW S \in SUBSET Int, IsFiniteSet(S), S # {}
  PROVE  Max(S) \in S /\ \A y \in S : y <= Max(S)
<1>1. PICK q \in Seq(S) : \A x \in S : \E i \in 1 .. Len(q) : q[i] = x
  BY DEF IsFiniteSet
<1>2. PICK n \in Nat : n = Len(q)
  OBVIOUS
<1>3. n \in Nat \ {0}
  <2>1. PICK x : x \in S
    OBVIOUS
  <2>2. PICK i : i \in 1 .. n /\ q[i] = x
    BY <1>1, <1>2, <2>1
  <2>3. QED
    BY <2>2
<1>4. DOMAIN q = 1 .. n /\ q = [i \in 1 .. n |-> q[i]] /\ \A i \in 1 .. n : q[i] \in S
  BY <1>2
<1>7. q \in [1 .. n -> Int]
  BY <1>4
<1>5. ToSet(q) = S
  <2>1. ToSet(q) = {q[i] : i \in 1 .. n}
    BY <1>4 DEF ToSet
  <2>2. \A x \in ToSet(q) : x \in S
    BY <1>4, <2>1
  <2>3. \A x \in S : x \in ToSet(q)
    BY <1>1, <1>2, <2>1
  <2>4. QED
    BY <2>2, <2>3
<1>6. QED
  BY <1>3, <1>4, <1>5, <1>7, LargestIs

Terms(node) == IF node.key \in Trends THEN 1 .. 1 ELSE 1 .. Len(node.of)

LEMMA CompareIs ==
  ASSUME NEW inputs, NEW node, IsCompare(inputs, node), NEW b, NEW s, NEW rule, rule = Compare(b, s, node)
  PROVE  /\ rule.op = node.key
         /\ rule.bars = IF node.key \in Trends THEN node.of[2].value ELSE 1
         /\ DOMAIN rule.of = Terms(node)
         /\ \A k \in Terms(node) : rule.of[k] = TermOf(b, s, node.of[k])
         /\ Terms(node) \subseteq 1 .. Len(node.of) /\ 1 \in Terms(node)
         /\ Len(node.of) = IF node.key = "between" THEN 3 ELSE 2
<1>1. PICK of : of = IF node.key \in Trends THEN SubSeq(node.of, 1, 1) ELSE node.of
  OBVIOUS
<1>2. /\ IsSequence(node.of) /\ Len(node.of) = IF node.key = "between" THEN 3 ELSE 2
      /\ DOMAIN node.of = 1 .. Len(node.of)
  BY DEF IsCompare, IsSequence
<1>3. DOMAIN of = Terms(node) /\ \A k \in Terms(node) : of[k] = node.of[k]
  <2>1. CASE node.key \in Trends
    <3>1. SubSeq(node.of, 1, 1) = [i \in 1 .. 1 |-> node.of[1]]
      BY <1>2
    <3>2. QED
      BY <1>1, <2>1, <3>1 DEF Terms
  <2>2. CASE node.key \notin Trends
    BY <1>1, <1>2, <2>2 DEF Terms
  <2>3. QED
    BY <2>1, <2>2
<1>4. rule = [op |-> node.key, bars |-> IF node.key \in Trends THEN node.of[2].value ELSE 1,
              of |-> [k \in DOMAIN of |-> TermOf(b, s, of[k])]]
  BY <1>1 DEF Compare, TermOf
<1>5. /\ rule.op = node.key /\ rule.bars = IF node.key \in Trends THEN node.of[2].value ELSE 1
      /\ rule.of = [k \in DOMAIN of |-> TermOf(b, s, of[k])]
  BY <1>4
<1>6. Terms(node) \subseteq 1 .. Len(node.of) /\ 1 \in Terms(node)
  BY <1>2 DEF Terms
<1>7. QED
  BY <1>2, <1>3, <1>5, <1>6

Extra(rule) == IF rule.op \in Crossings THEN 1 ELSE IF rule.op \in Trends THEN rule.bars ELSE 0

LEMMA DepthIs ==
  ASSUME NEW inputs, NEW node, node.key \in Comparators, IsCompare(inputs, node),
         NEW b, NEW s, NEW rule, rule = Compare(b, s, node)
  PROVE  /\ Extra(rule) \in Nat /\ Depth(rule) \in Nat
         /\ \A k \in Terms(node) : rule.of[k].kind # "literal" =>
              rule.of[k].back \in Nat /\ rule.of[k].back + Extra(rule) <= Depth(rule)
<1>1. /\ rule.op = node.key
      /\ rule.bars = IF node.key \in Trends THEN node.of[2].value ELSE 1
      /\ DOMAIN rule.of = Terms(node)
      /\ \A k \in Terms(node) : rule.of[k] = TermOf(b, s, node.of[k])
      /\ Terms(node) \subseteq 1 .. Len(node.of) /\ Len(node.of) \in Nat
  <2>1. Len(node.of) = IF node.key = "between" THEN 3 ELSE 2
    BY CompareIs
  <2>2. QED
    BY <2>1, CompareIs
<1>2. PICK extra \in Nat : extra = Extra(rule)
  <2>1. node.key \in Trends => node.of[2].value \in Nat
    BY LanguageAssumption DEF IsCompare
  <2>2. QED
    BY <1>1, <2>1 DEF Extra
<1>3. ASSUME NEW k \in Terms(node), rule.of[k].kind # "literal" PROVE rule.of[k].back \in Nat
  <2>1. IsTerm(inputs, node.of[k])
    BY <1>1 DEF IsCompare
  <2>2. rule.of[k].kind = node.of[k].kind /\ rule.of[k].back = node.of[k].back
    <3>1. rule.of[k] = TermOf(b, s, node.of[k])
      BY <1>1
    <3>2. QED
      BY <3>1 DEF TermOf
  <2>3. QED
    BY <1>3, <2>1, <2>2, LanguageAssumption DEF IsTerm
<1>4. PICK ks : ks = {k \in Terms(node) : rule.of[k].kind # "literal"}
  OBVIOUS
<1>5. PICK S : S = {0} \cup {rule.of[k].back + extra : k \in ks}
  OBVIOUS
<1>6. Depth(rule) = Max(S)
  <2>1. Extra(rule) = CASE rule.op \in Crossings -> 1 [] rule.op \in Trends -> rule.bars [] OTHER -> 0
    BY DEF Extra, Crossings, Trends
  <2>2. QED
    BY <1>1, <1>2, <1>4, <1>5, <2>1 DEF Depth
<1>7. S \in SUBSET Nat
  BY <1>2, <1>3, <1>4, <1>5
<1>8. IsFiniteSet(S)
  <2>1. IsFiniteSet(1 .. Len(node.of))
    BY <1>1, FS_Interval
  <2>2. IsFiniteSet(ks)
    BY <1>1, <1>4, <2>1, FS_Subset
  <2>3. PICK R : R = {rule.of[k].back + extra : k \in ks}
    OBVIOUS
  <2>4. IsFiniteSet(R)
    <3>1. PICK f : f = [k \in ks |-> rule.of[k].back + extra]
      OBVIOUS
    <3>2. f \in Surjection(ks, R)
      BY <2>3, <3>1 DEF Surjection
    <3>3. QED
      BY <2>2, <3>2, FS_Surjection
  <2>5. IsFiniteSet({0} \cup R)
    BY <2>4, FS_AddElement
  <2>6. QED
    BY <1>5, <2>3, <2>5
<1>9. Max(S) \in S /\ \A y \in S : y <= Max(S)
  <2>1. S # {} /\ S \in SUBSET Int
    BY <1>5, <1>7
  <2>2. QED
    BY <1>8, <2>1, MaxOfFinite
<1>10. QED
  BY <1>2, <1>3, <1>4, <1>5, <1>6, <1>7, <1>9

-----------------------------------------------------------------------------
(* A verdict says what truth values a comparison may turn out to have.      *)
Meaning(v) == IF v = "true" THEN {TRUE} ELSE IF v = "false" THEN {FALSE} ELSE BOOLEAN

Verdicts == {"true", "false", "unknown"}
Outlooks == {{TRUE}, {FALSE}, BOOLEAN}

LEMMA VerdictIs ==
  ASSUME NEW vs, NEW known \in BOOLEAN, known <=> Unknown \notin vs, NEW holds, known => holds \in BOOLEAN
  PROVE  Verdict(known, holds) \in Verdicts /\ Meaning(Verdict(known, holds)) = Outcomes(vs, holds)
<1>1. CASE ~known
  <2>1. Verdict(known, holds) = "unknown"
    BY <1>1 DEF Verdict
  <2>2. Outcomes(vs, holds) = BOOLEAN
    BY <1>1 DEF Outcomes
  <2>3. QED
    BY <2>1, <2>2 DEF Meaning, Verdicts
<1>2. CASE known /\ holds
  <2>1. Verdict(known, holds) = "true"
    BY <1>2 DEF Verdict
  <2>2. Outcomes(vs, holds) = {holds} /\ {holds} = {TRUE}
    BY <1>2 DEF Outcomes
  <2>3. QED
    BY <2>1, <2>2 DEF Meaning, Verdicts
<1>3. CASE known /\ ~holds
  <2>1. Verdict(known, holds) = "false"
    BY <1>3 DEF Verdict
  <2>2. Outcomes(vs, holds) = {holds} /\ {holds} = {FALSE}
    BY <1>3 DEF Outcomes
  <2>3. QED
    BY <2>1, <2>2 DEF Meaning, Verdicts
<1>4. QED
  BY <1>1, <1>2, <1>3

(* The steps of a trend: once one is unknown, those before it are too.      *)
Met(w, k) == Unknown \notin {w[k], w[k + 1]}
Went(op, w, k) == IF op = "rising" THEN w[k] > w[k + 1] ELSE w[k] < w[k + 1]
Ends(n, op, w) == {k \in 0 .. n - 1 : ~Met(w, k) \/ ~Went(op, w, k)}
TrendVerdict(n, op, w) ==
  IF Ends(n, op, w) = {} THEN "true" ELSE Verdict(Met(w, Min(Ends(n, op, w))), FALSE)
TrendSteps(n, op, w) == {Outcomes({w[k], w[k + 1]}, Went(op, w, k)) : k \in 0 .. n - 1}
TrendOutlook(n, op, w) ==
  {x \in BOOLEAN : IF x THEN \A s \in TrendSteps(n, op, w) : TRUE \in s
                        ELSE \E s \in TrendSteps(n, op, w) : FALSE \in s}

LEMMA OutlookIs ==
  ASSUME NEW X, NEW y, NEW z,
         X = {x \in BOOLEAN : IF x THEN y ELSE z}, y \in BOOLEAN, z \in BOOLEAN
  PROVE  /\ (y /\ ~z) => X = {TRUE}
         /\ (~y /\ z) => X = {FALSE}
         /\ (y /\ z) => X = BOOLEAN
  OBVIOUS

LEMMA TrendIs ==
  ASSUME NEW n \in Nat \ {0}, NEW op \in Trends, NEW w \in [0 .. n -> Cells],
         \A k \in 0 .. n - 1 : w[k] = Unknown => w[k + 1] = Unknown
  PROVE  TrendVerdict(n, op, w) \in Verdicts /\ Meaning(TrendVerdict(n, op, w)) = TrendOutlook(n, op, w)
<1>1. PICK steps, y, z :
        /\ steps = TrendSteps(n, op, w)
        /\ y = (\A s \in steps : TRUE \in s) /\ z = (\E s \in steps : FALSE \in s)
  OBVIOUS
<1>2. TrendOutlook(n, op, w) = {x \in BOOLEAN : IF x THEN y ELSE z} /\ y \in BOOLEAN /\ z \in BOOLEAN
  BY <1>1 DEF TrendOutlook
<1>3. /\ (y /\ ~z) => TrendOutlook(n, op, w) = {TRUE}
      /\ (~y /\ z) => TrendOutlook(n, op, w) = {FALSE}
      /\ (y /\ z) => TrendOutlook(n, op, w) = BOOLEAN
  BY <1>2, OutlookIs
<1>4. ASSUME NEW k \in 0 .. n - 1
      PROVE  /\ ~Met(w, k) => Outcomes({w[k], w[k + 1]}, Went(op, w, k)) = BOOLEAN
             /\ (Met(w, k) /\ Went(op, w, k)) => Outcomes({w[k], w[k + 1]}, Went(op, w, k)) = {TRUE}
             /\ (Met(w, k) /\ ~Went(op, w, k)) => Outcomes({w[k], w[k + 1]}, Went(op, w, k)) = {FALSE}
  <2>1. Met(w, k) => Went(op, w, k) \in BOOLEAN
    <3>1. w[k] \in Cells /\ w[k + 1] \in Cells
      OBVIOUS
    <3>2. Met(w, k) => w[k] \in Int /\ w[k + 1] \in Int
      BY <3>1 DEF Met, Cells
    <3>3. Met(w, k) => (w[k] > w[k + 1]) \in BOOLEAN /\ (w[k] < w[k + 1]) \in BOOLEAN
      BY <3>2
    <3>4. QED
      BY <3>3 DEF Went
  <2>2. QED
    BY <2>1 DEF Outcomes, Met
<1>5. CASE Ends(n, op, w) = {}
  <2>1. \A k \in 0 .. n - 1 : Met(w, k) /\ Went(op, w, k)
    BY <1>5 DEF Ends
  <2>2. \A s \in steps : s = {TRUE}
    BY <1>1, <1>4, <2>1 DEF TrendSteps
  <2>3. y /\ ~z
    BY <1>1, <2>2
  <2>4. TrendVerdict(n, op, w) = "true"
    BY <1>5 DEF TrendVerdict
  <2>5. QED
    BY <1>3, <2>3, <2>4 DEF Meaning, Verdicts
<1>6. CASE Ends(n, op, w) # {}
  <2>1. PICK ends \in SUBSET Nat : ends = Ends(n, op, w)
    <3>1. Ends(n, op, w) \subseteq 0 .. n - 1
      BY DEF Ends
    <3>2. Ends(n, op, w) \in SUBSET Nat
      BY <3>1
    <3>3. QED
      BY <3>2
  <2>2. PICK j \in ends : \A i \in ends : j <= i
    BY <1>6, <2>1, LeastNatural
  <2>3. Min(Ends(n, op, w)) = j
    <3>1. ends \in SUBSET Int
      BY <2>1
    <3>2. QED
      BY <2>1, <2>2, <3>1, MinIs
  <2>4. j \in 0 .. n - 1 /\ (~Met(w, j) \/ ~Went(op, w, j))
    BY <2>1, <2>2 DEF Ends
  <2>5. PICK s : s = Outcomes({w[j], w[j + 1]}, Went(op, w, j))
    OBVIOUS
  <2>6. s \in steps /\ FALSE \in s
    <3>1. s \in steps
      BY <1>1, <2>4, <2>5 DEF TrendSteps
    <3>2. s = BOOLEAN \/ s = {FALSE}
      BY <1>4, <2>4, <2>5
    <3>3. QED
      BY <3>1, <3>2
  <2>7. z
    BY <1>1, <2>6
  <2>8. CASE Met(w, j)
    <3>1. s = {FALSE}
      BY <1>4, <2>4, <2>5, <2>8
    <3>2. ~y
      BY <1>1, <2>6, <3>1
    <3>3. TrendVerdict(n, op, w) = "false"
      BY <1>6, <2>3, <2>8 DEF TrendVerdict, Verdict
    <3>4. QED
      BY <1>3, <2>7, <3>2, <3>3 DEF Meaning, Verdicts
  <2>9. CASE ~Met(w, j)
    <3>1. TrendVerdict(n, op, w) = "unknown"
      BY <1>6, <2>3, <2>9 DEF TrendVerdict, Verdict
    <3>2. w[j + 1] = Unknown
      BY <2>4, <2>9 DEF Met
    <3>3. \A k \in j + 1 .. n : w[k] = Unknown
      <4>1. PICK P : P = {k \in 0 .. n : w[k] = Unknown}
        OBVIOUS
      <4>2. PICK first \in 0 .. n : first = j + 1
        BY <2>4
      <4>3. first \in P
        BY <3>2, <4>1, <4>2
      <4>4. \A k \in first .. n - 1 : k \in P => k + 1 \in P
        BY <4>1, <4>2
      <4>5. \A k \in first .. n : k \in P
        BY <4>3, <4>4, Climb
      <4>6. QED
        BY <4>1, <4>2, <4>5
    <3>4. ASSUME NEW k \in 0 .. n - 1
          PROVE  TRUE \in Outcomes({w[k], w[k + 1]}, Went(op, w, k))
      <4>1. CASE k < j
        <5>1. k \notin Ends(n, op, w)
          BY <2>1, <2>2, <2>4, <4>1
        <5>2. Met(w, k) /\ Went(op, w, k)
          BY <5>1 DEF Ends
        <5>3. QED
          BY <1>4, <5>2
      <4>2. CASE ~(k < j)
        <5>1. k + 1 \in j + 1 .. n
          BY <2>4, <4>2
        <5>2. ~Met(w, k)
          BY <3>3, <5>1 DEF Met
        <5>3. QED
          BY <1>4, <5>2
      <4>3. QED
        BY <4>1, <4>2
    <3>5. y
      BY <1>1, <3>4 DEF TrendSteps
    <3>6. QED
      BY <1>3, <2>7, <3>1, <3>5 DEF Meaning, Verdicts
  <2>10. QED
    BY <2>8, <2>9
<1>7. QED
  BY <1>5, <1>6

-----------------------------------------------------------------------------
(* A comparison of the plan over the tape means what it means over the bars *)
(* there have been.                                                         *)
Reading(p, b, t, val) ==
  /\ AreInputs(spec.inputs) /\ AreChains(spec.inputs, InputChains(spec))
  /\ Sound(DOMAIN spec.inputs, b) /\ AllBuilt(b, spec, DOMAIN spec.inputs)
  /\ p.units = b.units /\ p.slots = b.slots /\ IsPlan(p)
  /\ seen \in Seq(AllBars) /\ IsValues(p, seen, val) /\ IsTape(p, t, seen, val, Len(seen))

Compared(p, b, node, rule) ==
  /\ node.key \in Comparators /\ IsCompare(spec.inputs, node) /\ Placed(b, spec, node)
  /\ rule = Compare(b, spec, node) /\ Depth(rule) <= p.depth

LEMMA TermMeans ==
  ASSUME NEW p, NEW b, NEW t, NEW val, Reading(p, b, t, val),
         NEW node, NEW rule, Compared(p, b, node, rule),
         NEW k \in Terms(node), NEW back \in Nat
  PROVE  /\ IsPlanTerm(p, rule.of[k])
         /\ OperandAt(node.of[k], back) \in Cells
         /\ OperandAt(node.of[k], back) = Unknown => OperandAt(node.of[k], back + 1) = Unknown
         /\ back <= Extra(rule) => TermAt(p, t, rule.of[k], back) = OperandAt(node.of[k], back)
<1>1. PICK o : o = node.of[k]
  OBVIOUS
<1>2. /\ IsCompare(spec.inputs, node) /\ node.key \in Comparators /\ rule = Compare(b, spec, node)
      /\ Depth(rule) <= p.depth
  BY DEF Compared
<1>3. rule.of[k] = TermOf(b, spec, o) /\ k \in 1 .. Len(node.of)
  BY <1>1, <1>2, CompareIs
<1>4. IsTerm(spec.inputs, o)
  BY <1>1, <1>2, <1>3 DEF IsCompare
<1>5. o.kind = "input" => HasOperand(b, spec, o)
  BY <1>1, <1>2, <1>3 DEF Compared, Placed
<1>6. PICK term : term = rule.of[k]
  OBVIOUS
<1>7. IsPlan(p) /\ seen \in Seq(AllBars) /\ IsValues(p, seen, val) /\ IsTape(p, t, seen, val, Len(seen))
  BY DEF Reading
<1>8. ASSUME NEW e \in Nat
      PROVE  IsPlanTerm(p, term) /\ TermOver(p, seen, val, term, e) = OperandAt(o, e)
  <2>1. /\ IsPlanTerm(p, TermOf(b, spec, o))
        /\ TermOver(p, seen, val, TermOf(b, spec, o), e) = OperandAt(o, e)
    BY <1>4, <1>5, OperandIs DEF Reading
  <2>2. QED
    BY <1>3, <1>6, <2>1
<1>9. /\ TermOver(p, seen, val, term, back) \in Cells
      /\ TermOver(p, seen, val, term, back) = Unknown => TermOver(p, seen, val, term, back + 1) = Unknown
  <2>1. IsPlanTerm(p, term)
    BY <1>8
  <2>2. QED
    BY <1>7, <2>1, TermIs
<1>10. ASSUME back <= Extra(rule) PROVE TermAt(p, t, term, back) = TermOver(p, seen, val, term, back)
  <2>1. Extra(rule) \in Nat /\ Depth(rule) \in Nat /\ p.depth \in Nat
    BY <1>2, <1>7, DepthIs DEF IsPlan
  <2>2. term.kind # "literal" => term.back \in Nat /\ term.back + Extra(rule) <= Depth(rule)
    BY <1>2, <1>6, DepthIs
  <2>3. term.kind # "literal" => term.back + back <= p.depth
    BY <1>2, <1>10, <2>1, <2>2
  <2>4. IsPlanTerm(p, term)
    BY <1>8
  <2>5. QED
    BY <1>7, <2>3, <2>4, TermOnTape
<1>11. back + 1 \in Nat
  OBVIOUS
<1>12. QED
  BY <1>1, <1>6, <1>8, <1>9, <1>10, <1>11

LEMMA PlainMeans ==
  ASSUME NEW p, NEW b, NEW t, NEW val, Reading(p, b, t, val),
         NEW node, NEW rule, Compared(p, b, node, rule), node.key \in Plain
  PROVE  EvalCompare(p, t, rule) \in Verdicts /\ Meaning(EvalCompare(p, t, rule)) = CompareMeans(node)
<1>1. /\ node.key \notin Trends /\ node.key \notin Crossings /\ node.key # "between"
  BY DEF Plain, Trends, Crossings
<1>2. /\ IsCompare(spec.inputs, node) /\ rule = Compare(b, spec, node)
  BY DEF Compared
<1>3. rule.op = node.key /\ Terms(node) = 1 .. 2
  <2>1. rule.op = node.key /\ Len(node.of) = 2
    BY <1>1, <1>2, CompareIs
  <2>2. QED
    BY <1>1, <2>1 DEF Terms
<1>4. Extra(rule) = 0
  BY <1>1, <1>3 DEF Extra
<1>5. PICK x, y : x = OperandAt(node.of[1], 0) /\ y = OperandAt(node.of[2], 0)
  OBVIOUS
<1>6. /\ x \in Cells /\ y \in Cells
      /\ TermAt(p, t, rule.of[1], 0) = x /\ TermAt(p, t, rule.of[2], 0) = y
  <2>1. 1 \in Terms(node) /\ 2 \in Terms(node) /\ 0 \in Nat /\ 0 <= Extra(rule)
    BY <1>3, <1>4
  <2>2. QED
    BY <1>5, <2>1, TermMeans
<1>7. PICK known \in BOOLEAN : known <=> Unknown \notin {x, y}
  OBVIOUS
<1>8. PICK holds : holds = Holds(node.key, x, y)
  OBVIOUS
<1>9. known => holds \in BOOLEAN
  <2>1. known => x \in Int /\ y \in Int
    BY <1>6, <1>7 DEF Cells
  <2>2. known => /\ (x > y) \in BOOLEAN /\ (x < y) \in BOOLEAN /\ (x >= y) \in BOOLEAN
                 /\ (x <= y) \in BOOLEAN /\ (x = y) \in BOOLEAN
    BY <2>1
  <2>3. QED
    BY <1>8, <2>2 DEF Holds, Plain
<1>10. EvalCompare(p, t, rule) = Verdict(known, holds)
  <2>1. EvalCompare(p, t, rule) = Verdict(Unknown \notin {x, y}, Holds(node.key, x, y))
    BY <1>1, <1>3, <1>6 DEF EvalCompare
  <2>2. (Unknown \notin {x, y}) = known
    BY <1>7
  <2>3. QED
    BY <1>8, <2>1, <2>2
<1>11. CompareMeans(node) = Outcomes({x, y}, holds)
  <2>1. node.key # "between" /\ node.key # "crosses_above" /\ node.key # "crosses_below"
    BY <1>1 DEF Crossings
  <2>2. CompareMeans(node) =
          Outcomes({OperandAt(node.of[1], 0), OperandAt(node.of[2], 0)},
                   Holds(node.key, OperandAt(node.of[1], 0), OperandAt(node.of[2], 0)))
    BY <2>1 DEF CompareMeans
  <2>3. QED
    BY <1>5, <1>8, <2>2
<1>12. QED
  BY <1>7, <1>9, <1>10, <1>11, VerdictIs

LEMMA BetweenMeans ==
  ASSUME NEW p, NEW b, NEW t, NEW val, Reading(p, b, t, val),
         NEW node, NEW rule, Compared(p, b, node, rule), node.key = "between"
  PROVE  EvalCompare(p, t, rule) \in Verdicts /\ Meaning(EvalCompare(p, t, rule)) = CompareMeans(node)
<1>1. node.key \notin Trends /\ node.key \notin Crossings /\ node.key \notin Plain
  BY DEF Plain, Trends, Crossings
<1>2. /\ IsCompare(spec.inputs, node) /\ rule = Compare(b, spec, node)
  BY DEF Compared
<1>3. rule.op = node.key /\ Terms(node) = 1 .. 3
  <2>1. rule.op = node.key /\ Len(node.of) = 3
    BY <1>1, <1>2, CompareIs
  <2>2. QED
    BY <1>1, <2>1 DEF Terms
<1>4. Extra(rule) = 0
  BY <1>1, <1>3 DEF Extra
<1>5. PICK x, y, z : x = OperandAt(node.of[1], 0) /\ y = OperandAt(node.of[2], 0) /\ z = OperandAt(node.of[3], 0)
  OBVIOUS
<1>6. /\ x \in Cells /\ y \in Cells /\ z \in Cells
      /\ TermAt(p, t, rule.of[1], 0) = x /\ TermAt(p, t, rule.of[2], 0) = y /\ TermAt(p, t, rule.of[3], 0) = z
  <2>1. 1 \in Terms(node) /\ 2 \in Terms(node) /\ 3 \in Terms(node) /\ 0 \in Nat /\ 0 <= Extra(rule)
    BY <1>3, <1>4
  <2>2. QED
    BY <1>5, <2>1, TermMeans
<1>7. PICK known \in BOOLEAN : known <=> Unknown \notin {x, y, z}
  OBVIOUS
<1>8. PICK holds : holds = (x >= y /\ x <= z)
  OBVIOUS
<1>9. known => holds \in BOOLEAN
  BY <1>8
<1>10. EvalCompare(p, t, rule) = Verdict(known, holds)
  <2>1. EvalCompare(p, t, rule) = Between(p, t, rule)
    BY <1>1, <1>3 DEF EvalCompare
  <2>2. Between(p, t, rule) = Verdict(\A k \in 1 .. 3 : TermAt(p, t, rule.of[k], 0) # Unknown, x >= y /\ x <= z)
    BY <1>6 DEF Between
  <2>3. (\A k \in 1 .. 3 : TermAt(p, t, rule.of[k], 0) # Unknown) <=> known
    <3>1. 1 .. 3 = {1, 2, 3}
      OBVIOUS
    <3>2. QED
      BY <1>6, <1>7, <3>1
  <2>4. (\A k \in 1 .. 3 : TermAt(p, t, rule.of[k], 0) # Unknown) = known
    BY <2>3
  <2>5. QED
    BY <1>8, <2>1, <2>2, <2>4
<1>11. CompareMeans(node) = Outcomes({x, y, z}, holds)
  <2>1. CompareMeans(node) = Outcomes({x, y, z}, y <= x /\ x <= z)
    BY <1>1, <1>5 DEF CompareMeans
  <2>2. CASE known
    <3>1. x \in Int /\ y \in Int /\ z \in Int
      BY <1>6, <1>7, <2>2 DEF Cells
    <3>2. (y <= x /\ x <= z) = holds
      BY <1>8, <3>1
    <3>3. QED
      BY <2>1, <3>2
  <2>3. CASE ~known
    BY <1>7, <2>1, <2>3 DEF Outcomes
  <2>4. QED
    BY <2>2, <2>3
<1>12. QED
  BY <1>7, <1>9, <1>10, <1>11, VerdictIs

LEMMA CrossingMeans ==
  ASSUME NEW p, NEW b, NEW t, NEW val, Reading(p, b, t, val),
         NEW node, NEW rule, Compared(p, b, node, rule), node.key \in Crossings
  PROVE  EvalCompare(p, t, rule) \in Verdicts /\ Meaning(EvalCompare(p, t, rule)) = CompareMeans(node)
<1>1. node.key \notin Trends /\ node.key \notin Plain /\ node.key # "between"
  BY DEF Plain, Trends, Crossings
<1>2. /\ IsCompare(spec.inputs, node) /\ rule = Compare(b, spec, node)
  BY DEF Compared
<1>3. rule.op = node.key /\ Terms(node) = 1 .. 2
  <2>1. rule.op = node.key /\ Len(node.of) = 2
    BY <1>1, <1>2, CompareIs
  <2>2. QED
    BY <1>1, <2>1 DEF Terms
<1>4. Extra(rule) = 1
  BY <1>3 DEF Extra
<1>5. PICK now, against, was, before :
        /\ now = OperandAt(node.of[1], 0) /\ against = OperandAt(node.of[2], 0)
        /\ was = OperandAt(node.of[1], 1) /\ before = OperandAt(node.of[2], 1)
  OBVIOUS
<1>6. /\ now \in Cells /\ against \in Cells /\ was \in Cells /\ before \in Cells
      /\ TermAt(p, t, rule.of[1], 0) = now /\ TermAt(p, t, rule.of[2], 0) = against
      /\ TermAt(p, t, rule.of[1], 1) = was /\ TermAt(p, t, rule.of[2], 1) = before
  <2>1. 1 \in Terms(node) /\ 2 \in Terms(node) /\ 0 \in Nat /\ 1 \in Nat /\ 0 <= Extra(rule) /\ 1 <= Extra(rule)
    BY <1>3, <1>4
  <2>2. QED
    BY <1>5, <2>1, TermMeans
<1>7. PICK known \in BOOLEAN : known <=> Unknown \notin {now, against, was, before}
  OBVIOUS
<1>8. PICK holds : holds = IF node.key = "crosses_above" THEN now > against /\ was <= before
                                                         ELSE now < against /\ was >= before
  OBVIOUS
<1>9. known => holds \in BOOLEAN
  BY <1>8
<1>10. EvalCompare(p, t, rule) = Verdict(known, holds)
  <2>1. EvalCompare(p, t, rule) = Cross(p, t, rule)
    BY <1>3 DEF EvalCompare, Trends, Crossings
  <2>2. Cross(p, t, rule) =
          Verdict(Unknown \notin {now, against, was, before},
                  IF node.key = "crosses_above" THEN now > against /\ was <= before
                                                ELSE now < against /\ was >= before)
    BY <1>3, <1>6 DEF Cross
  <2>3. (Unknown \notin {now, against, was, before}) = known
    BY <1>7
  <2>4. QED
    BY <1>8, <2>1, <2>2, <2>3
<1>11. PICK vs : vs = {now, against, was, before}
  OBVIOUS
<1>12. known => now \in Int /\ against \in Int /\ was \in Int /\ before \in Int
  BY <1>6, <1>7 DEF Cells
<1>13. vs = {now, against, was, before} /\ vs = {now, against, before, was} /\ vs = {now, against, was, before}
  BY <1>11
<1>14. CASE node.key = "crosses_above"
  <2>1. CompareMeans(node) = Outcomes({now, against, was, before}, now > against /\ ~(was > before))
    <3>1. node.key # "crosses_below"
      BY <1>14
    <3>2. CompareMeans(node) =
            Outcomes({OperandAt(node.of[1], 0), OperandAt(node.of[2], 0),
                      OperandAt(node.of[1], 1), OperandAt(node.of[2], 1)},
                     OperandAt(node.of[1], 0) > OperandAt(node.of[2], 0)
                       /\ ~(OperandAt(node.of[1], 1) > OperandAt(node.of[2], 1)))
      BY <1>1, <1>14, <3>1 DEF CompareMeans
    <3>3. QED
      BY <1>5, <3>2
  <2>2. CompareMeans(node) = Outcomes(vs, holds)
    <3>1. CASE known
      <4>1. (now > against /\ ~(was > before)) = holds
        BY <1>8, <1>12, <1>14, <3>1
      <4>2. QED
        BY <1>11, <2>1, <4>1
    <3>2. CASE ~known
      BY <1>7, <1>11, <2>1, <3>2 DEF Outcomes
    <3>3. QED
      BY <3>1, <3>2
  <2>3. QED
    BY <1>7, <1>9, <1>10, <1>11, <2>2, VerdictIs
<1>15. CASE node.key # "crosses_above"
  <2>1. CompareMeans(node) = Outcomes({now, against, was, before}, now < against /\ ~(was < before))
    <3>1. node.key = "crosses_below"
      BY <1>15 DEF Crossings
    <3>2. CompareMeans(node) =
            Outcomes({OperandAt(node.of[1], 0), OperandAt(node.of[2], 0),
                      OperandAt(node.of[1], 1), OperandAt(node.of[2], 1)},
                     OperandAt(node.of[1], 0) < OperandAt(node.of[2], 0)
                       /\ ~(OperandAt(node.of[1], 1) < OperandAt(node.of[2], 1)))
      BY <1>1, <1>15, <3>1 DEF CompareMeans
    <3>3. QED
      BY <1>5, <3>2
  <2>2. CompareMeans(node) = Outcomes(vs, holds)
    <3>1. CASE known
      <4>1. (now < against /\ ~(was < before)) = holds
        BY <1>8, <1>12, <1>15, <3>1
      <4>2. QED
        BY <1>11, <2>1, <4>1
    <3>2. CASE ~known
      BY <1>7, <1>11, <2>1, <3>2 DEF Outcomes
    <3>3. QED
      BY <3>1, <3>2
  <2>3. QED
    BY <1>7, <1>9, <1>10, <1>11, <2>2, VerdictIs
<1>16. QED
  BY <1>14, <1>15

LEMMA FirstEnd ==
  ASSUME NEW n \in Nat, NEW op, NEW w, Ends(n, op, w) # {}
  PROVE  Min(Ends(n, op, w)) \in Ends(n, op, w) /\ \A k \in Ends(n, op, w) : Min(Ends(n, op, w)) <= k
<1>1. PICK ends \in SUBSET Nat : ends = Ends(n, op, w) /\ ends # {}
  <2>1. Ends(n, op, w) \subseteq 0 .. n - 1
    BY DEF Ends
  <2>2. Ends(n, op, w) \in SUBSET Nat
    BY <2>1
  <2>3. QED
    BY <2>2
<1>2. PICK j \in ends : \A i \in ends : j <= i
  BY <1>1, LeastNatural
<1>3. ends \in SUBSET Int
  OBVIOUS
<1>4. Min(ends) = j
  BY <1>2, <1>3, MinIs
<1>5. QED
  BY <1>1, <1>2, <1>4

LEMMA TrendOnTape ==
  ASSUME NEW p, NEW t, NEW rule, rule.op \in Trends, NEW n \in Nat \ {0}, rule.bars = n,
         NEW w, w = [k \in 0 .. n |-> TermAt(p, t, rule.of[1], k)]
  PROVE  EvalCompare(p, t, rule) = TrendVerdict(n, rule.op, w)
<1>1. PICK op : op = rule.op
  OBVIOUS
<1>2. EvalCompare(p, t, rule) = Trend(p, t, rule)
  <2>1. rule.op \notin Crossings /\ rule.op # "between"
    BY DEF Trends, Crossings
  <2>2. rule.op \in Trends
    OBVIOUS
  <2>3. QED
    BY <2>1, <2>2 DEF EvalCompare
<1> DEFINE at(k) == TermAt(p, t, rule.of[1], k)
           known(k) == Unknown \notin {at(k), at(k + 1)}
           rose(k) == IF rule.op = "rising" THEN at(k) > at(k + 1) ELSE at(k) < at(k + 1)
           stop == {k \in 0 .. rule.bars - 1 : ~known(k) \/ ~rose(k)}
<1>3. Trend(p, t, rule) = IF stop = {} THEN "true" ELSE Verdict(known(Min(stop)), FALSE)
  BY DEF Trend
<1>4. \A k \in 0 .. n - 1 : known(k) = Met(w, k) /\ rose(k) = Went(op, w, k)
  <2> SUFFICES ASSUME NEW k \in 0 .. n - 1 PROVE known(k) = Met(w, k) /\ rose(k) = Went(op, w, k)
    OBVIOUS
  <2>1. k \in 0 .. n /\ k + 1 \in 0 .. n
    OBVIOUS
  <2>2. at(k) = w[k] /\ at(k + 1) = w[k + 1]
    BY <2>1
  <2> HIDE DEF at
  <2>3. QED
    BY <1>1, <2>2 DEF Met, Went
<1>5. stop = Ends(n, op, w)
  <2> HIDE DEF known, rose
  <2>1. QED
    BY <1>4 DEF Ends
<1>6. stop # {} => Min(stop) \in 0 .. n - 1
  <2>1. Ends(n, op, w) \subseteq 0 .. n - 1
    BY DEF Ends
  <2> HIDE DEF stop
  <2>2. stop # {} => Min(stop) \in Ends(n, op, w)
    BY <1>5, FirstEnd
  <2>3. QED
    BY <2>1, <2>2
<1>7. CASE stop = {}
  <2> HIDE DEF stop
  <2>1. QED
    BY <1>1, <1>2, <1>3, <1>5, <1>7 DEF TrendVerdict
<1>8. CASE stop # {}
  <2> HIDE DEF stop, known
  <2>1. PICK j \in 0 .. n - 1 : j = Min(stop)
    BY <1>6, <1>8
  <2>2. known(j) = Met(w, j)
    BY <1>4
  <2>3. Trend(p, t, rule) = Verdict(known(j), FALSE)
    BY <1>3, <1>8, <2>1
  <2>4. TrendVerdict(n, op, w) = Verdict(Met(w, j), FALSE)
    BY <1>5, <1>8, <2>1 DEF TrendVerdict
  <2>5. QED
    BY <1>1, <1>2, <2>2, <2>3, <2>4
<1>9. QED
  BY <1>7, <1>8

LEMMA TrendMeans ==
  ASSUME NEW p, NEW b, NEW t, NEW val, Reading(p, b, t, val),
         NEW node, NEW rule, Compared(p, b, node, rule), node.key \in Trends
  PROVE  EvalCompare(p, t, rule) \in Verdicts /\ Meaning(EvalCompare(p, t, rule)) = CompareMeans(node)
<1>1. /\ node.key \notin Crossings /\ node.key \notin Plain /\ node.key # "between"
      /\ node.key # "crosses_above" /\ node.key # "crosses_below"
  BY DEF Plain, Trends, Crossings
<1>2. /\ IsCompare(spec.inputs, node) /\ rule = Compare(b, spec, node)
  BY DEF Compared
<1>3. rule.op = node.key /\ Terms(node) = 1 .. 1 /\ rule.bars = node.of[2].value
  <2>1. rule.op = node.key /\ rule.bars = node.of[2].value
    BY <1>2, CompareIs
  <2>2. QED
    BY <2>1 DEF Terms
<1>4. PICK n \in Nat \ {0} : n = node.of[2].value
  <2>1. node.of[2].value \in 1 .. MaxBack
    BY <1>2 DEF IsCompare
  <2>2. node.of[2].value \in Nat \ {0}
    BY <2>1, LanguageAssumption
  <2>3. QED
    BY <2>2
<1>5. Extra(rule) = n
  BY <1>1, <1>3, <1>4 DEF Extra
<1>6. PICK w : w = [k \in 0 .. n |-> OperandAt(node.of[1], k)]
  OBVIOUS
<1>7. ASSUME NEW k \in 0 .. n
      PROVE  /\ w[k] \in Cells /\ TermAt(p, t, rule.of[1], k) = w[k] /\ OperandAt(node.of[1], k) = w[k]
             /\ w[k] = Unknown => OperandAt(node.of[1], k + 1) = Unknown
  <2>1. 1 \in Terms(node) /\ k \in Nat /\ k <= Extra(rule)
    BY <1>3, <1>5
  <2>2. /\ OperandAt(node.of[1], k) \in Cells
        /\ OperandAt(node.of[1], k) = Unknown => OperandAt(node.of[1], k + 1) = Unknown
        /\ TermAt(p, t, rule.of[1], k) = OperandAt(node.of[1], k)
    BY <2>1, TermMeans
  <2>3. w[k] = OperandAt(node.of[1], k)
    BY <1>6
  <2>4. QED
    BY <2>2, <2>3
<1>8. w \in [0 .. n -> Cells]
  BY <1>6, <1>7
<1>9. \A k \in 0 .. n - 1 : w[k] = Unknown => w[k + 1] = Unknown
  <2> SUFFICES ASSUME NEW k \in 0 .. n - 1, w[k] = Unknown PROVE w[k + 1] = Unknown
    OBVIOUS
  <2>1. k \in 0 .. n /\ k + 1 \in 0 .. n
    OBVIOUS
  <2>2. QED
    BY <1>6, <1>7, <2>1
<1>10. PICK op : op = node.key
  OBVIOUS
<1>11. ASSUME NEW k \in 0 .. n - 1
       PROVE  /\ TermAt(p, t, rule.of[1], k) = w[k] /\ TermAt(p, t, rule.of[1], k + 1) = w[k + 1]
              /\ OperandAt(node.of[1], k) = w[k] /\ OperandAt(node.of[1], k + 1) = w[k + 1]
  <2>1. k \in 0 .. n /\ k + 1 \in 0 .. n
    OBVIOUS
  <2>2. QED
    BY <1>7, <2>1
<1>12. EvalCompare(p, t, rule) = TrendVerdict(n, op, w)
  <2>1. rule.op \in Trends /\ rule.bars = n /\ rule.op = op
    BY <1>3, <1>4, <1>10
  <2>2. w = [k \in 0 .. n |-> TermAt(p, t, rule.of[1], k)]
    BY <1>6, <1>7
  <2>3. QED
    BY <2>1, <2>2, TrendOnTape
<1>13. CompareMeans(node) = TrendOutlook(n, op, w)
  <2> DEFINE moved(k) == IF node.key = "rising" THEN OperandAt(node.of[1], k) > OperandAt(node.of[1], k + 1)
                                                ELSE OperandAt(node.of[1], k) < OperandAt(node.of[1], k + 1)
             out(k) == Outcomes({OperandAt(node.of[1], k), OperandAt(node.of[1], k + 1)}, moved(k))
             steps == {out(k) : k \in 0 .. node.of[2].value - 1}
  <2>1. CompareMeans(node) = {x \in BOOLEAN :
                              IF x THEN \A s \in steps : TRUE \in s ELSE \E s \in steps : FALSE \in s}
    BY <1>1 DEF CompareMeans
  <2>2. ASSUME NEW k \in 0 .. n - 1 PROVE out(k) = Outcomes({w[k], w[k + 1]}, Went(op, w, k))
    <3>1. OperandAt(node.of[1], k) = w[k] /\ OperandAt(node.of[1], k + 1) = w[k + 1]
      BY <1>11
    <3>2. moved(k) = Went(op, w, k)
      BY <1>10, <3>1 DEF Went
    <3> HIDE DEF moved
    <3>3. QED
      BY <3>1, <3>2
  <2>3. steps = TrendSteps(n, op, w)
    <3> HIDE DEF out
    <3>1. QED
      BY <1>4, <2>2 DEF TrendSteps
  <2> HIDE DEF steps
  <2>4. QED
    BY <2>1, <2>3 DEF TrendOutlook
<1>14. op \in Trends
  BY <1>10
<1>15. QED
  BY <1>8, <1>9, <1>12, <1>13, <1>14, TrendIs

LEMMA ComparisonMeans ==
  ASSUME NEW p, NEW b, NEW t, NEW val, Reading(p, b, t, val),
         NEW node, NEW rule, Compared(p, b, node, rule)
  PROVE  EvalCompare(p, t, rule) \in Verdicts /\ Meaning(EvalCompare(p, t, rule)) = CompareMeans(node)
<1>1. \/ node.key \in Plain \/ node.key = "between" \/ node.key \in Crossings \/ node.key \in Trends
  BY DEF Compared, Comparators
<1>2. QED
  BY <1>1, PlainMeans, BetweenMeans, CrossingMeans, TrendMeans

-----------------------------------------------------------------------------
(* What hoisting keeps.                                                     *)

NodesOf(nodes, m, T) == nodes = [k \in 1 .. m |-> nodes[k]] /\ \A k \in 1 .. m : nodes[k] # 0 => nodes[k] \in T
Holding(q, e) == \E i \in 1 .. Len(q) : q[i] = e

LEMMA PresentKeeps ==
  ASSUME NEW m \in Nat, NEW T, NEW nodes, NodesOf(nodes, m, T)
  PROVE  \A k \in 1 .. m : nodes[k] # 0 => Holding(Present(nodes), nodes[k])
<1> SUFFICES ASSUME NEW k \in 1 .. m, nodes[k] # 0 PROVE Holding(Present(nodes), nodes[k])
  OBVIOUS
<1>0. nodes = [j \in 1 .. m |-> nodes[j]] /\ \A j \in 1 .. m : nodes[j] # 0 => nodes[j] \in T
  BY DEF NodesOf
<1>1. PICK kept \in [0 .. m -> Seq(T)] : IsKept(nodes, kept) /\ Present(nodes) = kept[m]
  BY <1>0, PresentIs
<1> DEFINE Has(q) == \E i \in 1 .. Len(q) : q[i] = nodes[k]
           P == {j \in 0 .. m : Has(kept[j])}
<1>2. ASSUME NEW j \in 1 .. m
      PROVE  kept[j] = IF nodes[j] = 0 THEN kept[j - 1] ELSE Append(kept[j - 1], nodes[j])
  <2>1. Len(nodes) = m
    BY <1>0
  <2>2. j \in 0 .. Len(nodes) /\ j # 0
    BY <2>1
  <2>3. QED
    BY <1>1, <2>2 DEF IsKept
<1>3. k \in P
  <2>1. PICK q \in Seq(T) : q = kept[k - 1]
    OBVIOUS
  <2>2. kept[k] = Append(q, nodes[k]) /\ nodes[k] \in T
    BY <1>0, <1>2, <2>1
  <2>3. Len(kept[k]) = Len(q) + 1 /\ kept[k][Len(q) + 1] = nodes[k]
    BY <2>2
  <2>4. Len(q) + 1 \in 1 .. Len(kept[k])
    BY <2>1, <2>3
  <2>5. QED
    BY <2>3, <2>4
<1>4. ASSUME NEW j \in k .. m - 1, j \in P PROVE j + 1 \in P
  <2>1. PICK q \in Seq(T) : q = kept[j]
    BY <1>4
  <2>2. PICK i \in 1 .. Len(q) : q[i] = nodes[k]
    <3>1. Has(kept[j])
      BY <1>4
    <3>2. QED
      BY <2>1, <3>1
  <2>3. j + 1 \in 1 .. m /\ (j + 1) - 1 = j
    OBVIOUS
  <2>4. PICK l \in 1 .. m : l = j + 1 /\ l - 1 = j
    BY <2>3
  <2>5. kept[l] = IF nodes[l] = 0 THEN q ELSE Append(q, nodes[l])
    BY <1>2, <2>1, <2>4
  <2>6. CASE nodes[l] = 0
    <3>1. kept[l] = q
      BY <2>5, <2>6
    <3>2. Has(kept[l])
      BY <2>2, <3>1
    <3>3. QED
      BY <2>4, <3>2
  <2>7. CASE nodes[l] # 0
    <3>1. PICK e \in T : e = nodes[l]
      BY <1>0, <2>7
    <3>2. kept[l] = Append(q, e)
      BY <2>5, <2>7, <3>1
    <3>3. Len(Append(q, e)) = Len(q) + 1 /\ Append(q, e)[i] = q[i] /\ i \in 1 .. Len(q) + 1
      BY <2>1, <2>2
    <3>4. Has(kept[l])
      BY <2>2, <3>2, <3>3
    <3>5. QED
      BY <2>4, <3>4
  <2>8. QED
    BY <2>6, <2>7
<1>5. m \in P
  <2> HIDE DEF P
  <2>0. k \in 0 .. m /\ \A j \in k .. m - 1 : j \in P => j + 1 \in P
    BY <1>4
  <2>1. \A j \in k .. m : j \in P
    BY <1>3, <2>0, Climb
  <2>2. QED
    BY <2>1
<1>6. QED
  BY <1>1, <1>5 DEF Holding

LEMMA AlternativesKeep ==
  ASSUME NEW rules, IsTree(rules), NEW left, NEW i \in 1 .. Len(rules), rules[i].key = "any"
  PROVE  /\ ToSet(Alternatives(rules, left, i)) = LeftBelow(rules, left, i)
         /\ Alternatives(rules, left, i) = <<>> => LeftBelow(rules, left, i) = {}
         /\ Len(Alternatives(rules, left, i)) = 1 =>
              LeftBelow(rules, left, i) = {Alternatives(rules, left, i)[1]}
<1>0. PICK of : of = rules[i].of
  OBVIOUS
<1>1. PICK m \in Nat : of = rules[i].of /\ m = Len(of) /\ of = [k \in 1 .. m |-> of[k]]
  BY <1>0 DEF IsTree
<1>2. Children(rules[i]) = {of[k] : k \in 1 .. m}
  BY <1>1 DEF Children, ToSet, Combinators
<1>3. PICK T : T = LeftBelow(rules, left, i)
  OBVIOUS
<1>4. PICK nodes : nodes = [k \in 1 .. m |-> left[of[k]]]
  OBVIOUS
<1>5. \A k \in 1 .. m : nodes[k] # 0 => nodes[k] \in T
  BY <1>2, <1>3, <1>4 DEF LeftBelow
<1>6. nodes = [k \in 1 .. m |-> nodes[k]]
  BY <1>4
<1>7. PICK alts \in Seq(T) : alts = Present(nodes)
  BY <1>5, <1>6, PresentIs
<1>8. DOMAIN of = 1 .. m
  BY <1>1
<1>9. Alternatives(rules, left, i) = alts
  BY <1>1, <1>4, <1>7, <1>8 DEF Alternatives
<1>10. ASSUME NEW x \in T PROVE \E j \in 1 .. Len(alts) : alts[j] = x
  <2>1. PICK c \in Children(rules[i]) : x = left[c] /\ x # 0
    BY <1>3 DEF LeftBelow
  <2>2. PICK k \in 1 .. m : c = of[k]
    BY <1>2
  <2>3. nodes[k] = x
    BY <1>4, <2>1, <2>2
  <2>4. nodes[k] # 0
    BY <2>1, <2>3
  <2>5. NodesOf(nodes, m, T)
    BY <1>5, <1>6 DEF NodesOf
  <2>6. Holding(Present(nodes), nodes[k])
    BY <2>4, <2>5, PresentKeeps
  <2>7. QED
    BY <1>7, <2>3, <2>6 DEF Holding
<1>11. ToSet(alts) = {alts[j] : j \in 1 .. Len(alts)} /\ \A j \in 1 .. Len(alts) : alts[j] \in T
  BY <1>7 DEF ToSet
<1>12. ToSet(alts) = T
  BY <1>10, <1>11
<1>13. alts = <<>> => T = {}
  BY <1>10
<1>14. Len(alts) = 1 => T = {alts[1]}
  BY <1>10, <1>11
<1>15. QED
  BY <1>3, <1>9, <1>12, <1>13, <1>14

(* A visited any holds what is left below it.                               *)
LEMMA HoistedKeeps ==
  ASSUME NEW rules, IsTree(rules), NEW exits, NEW left, left = Residual(rules),
         NEW i \in 1 .. Len(rules), i \in AllVisited(rules, exits), rules[i].key = "any"
  PROVE  Children(Hoisted(rules, exits)[i]) = LeftBelow(rules, left, i)
<1>1. PICK alts : alts = Alternatives(rules, left, i) /\ ToSet(alts) = LeftBelow(rules, left, i)
  BY AlternativesKeep
<1>2. DOMAIN rules = 1 .. Len(rules)
  BY DEF IsTree, Ordered
<1>3. Hoisted(rules, exits)[i] = [rules[i] EXCEPT !.of = alts]
  BY <1>1, <1>2 DEF Hoisted, Alternatives, AllVisited
<1>4. PICK of : rules[i] = [key |-> "any", of |-> of]
  BY DEF IsTree
<1>5. Hoisted(rules, exits)[i].key = "any" /\ Hoisted(rules, exits)[i].of = alts
  BY <1>3, <1>4
<1>6. QED
  BY <1>1, <1>5 DEF Children, Combinators

-----------------------------------------------------------------------------
(* What every rule means, and what a tape says of it.                       *)
MeansNow(m, i) ==
  IF spec.rules[i].key \in Combinators THEN Joined(spec.rules[i].key, {m[k] : k \in Children(spec.rules[i])})
  ELSE IF spec.rules[i].key \in Brackets THEN {FALSE} ELSE CompareMeans(spec.rules[i])

IsMeaning(m) == m = [i \in DOMAIN spec.rules |-> MeansNow(m, i)]

LEMMA JoinedIs ==
  ASSUME NEW key \in Combinators, NEW kids
  PROVE  Joined(key, kids) \subseteq BOOLEAN
<1>1. CASE key = "all"
  BY <1>1 DEF Joined
<1>2. CASE key = "any"
  BY <1>2 DEF Joined
<1>3. CASE key = "not"
  BY <1>3 DEF Joined
<1>4. QED
  BY <1>1, <1>2, <1>3 DEF Combinators

LEMMA MeaningExists ==
  ASSUME Ordered(spec.rules)
  PROVE  \E m : IsMeaning(m)
<1>1. PICK n \in Nat : n = Len(spec.rules) /\ DOMAIN spec.rules = 1 .. n
  BY DEF Ordered
<1> DEFINE C == {CompareMeans(spec.rules[i]) : i \in 1 .. n}
           V == (SUBSET BOOLEAN) \cup C
           step == [i \in 1 .. n |-> [g \in [1 .. i - 1 -> V] |-> MeansNow(g, i)]]
<1>2. PICK f \in [1 .. n -> V] : Follows(f, step, n)
  <2>1. ASSUME NEW i \in 1 .. n, NEW g \in [1 .. i - 1 -> V] PROVE MeansNow(g, i) \in V
    <3>1. CASE spec.rules[i].key \in Combinators
      <4>1. Joined(spec.rules[i].key, {g[k] : k \in Children(spec.rules[i])}) \subseteq BOOLEAN
        BY <3>1, JoinedIs
      <4>2. QED
        BY <3>1, <4>1 DEF MeansNow
    <3>2. CASE spec.rules[i].key \in Brackets \ Combinators
      <4>1. {FALSE} \in V
        OBVIOUS
      <4>2. MeansNow(g, i) = {FALSE}
        BY <3>2 DEF MeansNow
      <4>3. QED
        BY <4>1, <4>2
    <3>3. CASE spec.rules[i].key \notin Combinators \cup Brackets
      <4>1. MeansNow(g, i) = CompareMeans(spec.rules[i])
        BY <3>3 DEF MeansNow
      <4>2. CompareMeans(spec.rules[i]) \in V
        <5>1. CompareMeans(spec.rules[i]) \in C
          OBVIOUS
        <5> HIDE DEF C
        <5>2. QED
          BY <5>1
      <4>3. QED
        BY <4>1, <4>2
    <3>4. QED
      BY <3>1, <3>2, <3>3
  <2>2. Steps(step, n, V)
    <3> HIDE DEF V
    <3>1. QED
      BY <2>1 DEF Steps
  <2> HIDE DEF step, V
  <2>3. QED
    BY <2>2, Recursion
<1>3. ASSUME NEW i \in 1 .. n PROVE f[i] = MeansNow(f, i)
  <2>1. PICK g : g = Before(f, i)
    OBVIOUS
  <2>2. g \in [1 .. i - 1 -> V] /\ \A k \in 1 .. i - 1 : g[k] = f[k]
    BY <2>1 DEF Before
  <2>3. f[i] = MeansNow(g, i)
    <3> HIDE DEF V
    <3>1. QED
      BY <1>2, <2>1, <2>2 DEF Follows
  <2>4. Children(spec.rules[i]) \subseteq 1 .. i - 1
    BY <1>1 DEF Ordered
  <2>5. {g[k] : k \in Children(spec.rules[i])} = {f[k] : k \in Children(spec.rules[i])}
    BY <2>2, <2>4
  <2>6. MeansNow(g, i) = MeansNow(f, i)
    BY <2>5 DEF MeansNow
  <2>7. QED
    BY <2>3, <2>6
<1>4. f = [i \in 1 .. n |-> f[i]]
  OBVIOUS
<1>5. f = [i \in 1 .. n |-> MeansNow(f, i)]
  BY <1>3, <1>4
<1>6. QED
  BY <1>1, <1>5 DEF IsMeaning

LEMMA MeaningIs ==
  ASSUME Ordered(spec.rules)
  PROVE  \E m : IsMeaning(m) /\ \A root : Means(root) = m[root]
<1> DEFINE chosen == CHOOSE m : IsMeaning(m)
<1>1. IsMeaning(chosen)
  BY MeaningExists
<1>3. ASSUME NEW root PROVE Means(root) = chosen[root]
  BY DEF Means, IsMeaning, MeansNow
<1> HIDE DEF chosen
<1>4. QED
  BY <1>1, <1>3

(* A plan's rules stand after the ones they hold.                           *)
Rooted(p) ==
  /\ Len(p.rules) \in Nat /\ DOMAIN p.rules = 1 .. Len(p.rules)
  /\ \A i \in 1 .. Len(p.rules) : p.rules[i].op \notin Comparators => ToSet(p.rules[i].of) \subseteq 1 .. i - 1

Evaluated(p, t, v, i) ==
  IF p.rules[i].op \in Comparators THEN EvalCompare(p, t, p.rules[i])
  ELSE Combine(p.rules[i].op, {v[k] : k \in ToSet(p.rules[i].of)})

IsEval(p, t, v) == v = [i \in DOMAIN p.rules |-> Evaluated(p, t, v, i)]

LEMMA CombineIs ==
  ASSUME NEW op, NEW of
  PROVE  Combine(op, of) \in Verdicts
  BY DEF Combine, Verdicts

LEMMA EvalIs ==
  ASSUME NEW p, Rooted(p), NEW t
  PROVE  \E v : IsEval(p, t, v) /\ \A root : Eval(p, t, root) = v[root]
<1>1. PICK n \in Nat : n = Len(p.rules) /\ DOMAIN p.rules = 1 .. n
  BY DEF Rooted
<1> DEFINE V == Verdicts \cup {EvalCompare(p, t, p.rules[i]) : i \in 1 .. n}
           step == [i \in 1 .. n |-> [g \in [1 .. i - 1 -> V] |-> Evaluated(p, t, g, i)]]
<1>2. PICK f \in [1 .. n -> V] : Follows(f, step, n)
  <2>1. ASSUME NEW i \in 1 .. n, NEW g \in [1 .. i - 1 -> V] PROVE Evaluated(p, t, g, i) \in V
    BY CombineIs DEF Evaluated
  <2>2. Steps(step, n, V)
    <3> HIDE DEF V
    <3>1. QED
      BY <2>1 DEF Steps
  <2> HIDE DEF step, V
  <2>3. QED
    BY <2>2, Recursion
<1>3. ASSUME NEW i \in 1 .. n PROVE f[i] = Evaluated(p, t, f, i)
  <2>1. PICK g : g = Before(f, i)
    OBVIOUS
  <2>2. g \in [1 .. i - 1 -> V] /\ \A k \in 1 .. i - 1 : g[k] = f[k]
    BY <2>1 DEF Before
  <2>3. f[i] = Evaluated(p, t, g, i)
    <3> HIDE DEF V
    <3>1. QED
      BY <1>2, <2>1, <2>2 DEF Follows
  <2>4. p.rules[i].op \notin Comparators => ToSet(p.rules[i].of) \subseteq 1 .. i - 1
    BY <1>1 DEF Rooted
  <2>5. p.rules[i].op \notin Comparators =>
          {g[k] : k \in ToSet(p.rules[i].of)} = {f[k] : k \in ToSet(p.rules[i].of)}
    BY <2>2, <2>4
  <2>6. Evaluated(p, t, g, i) = Evaluated(p, t, f, i)
    BY <2>5 DEF Evaluated
  <2>7. QED
    BY <2>3, <2>6
<1>4. f = [i \in 1 .. n |-> f[i]]
  OBVIOUS
<1>5. f = [i \in 1 .. n |-> Evaluated(p, t, f, i)]
  BY <1>3, <1>4
<1> DEFINE chosen == CHOOSE v : IsEval(p, t, v)
<1>6. IsEval(p, t, f)
  BY <1>1, <1>5 DEF IsEval
<1>7. IsEval(p, t, chosen)
  BY <1>6
<1>8. ASSUME NEW root PROVE Eval(p, t, root) = chosen[root]
  BY DEF Eval, IsEval, Evaluated
<1> HIDE DEF chosen
<1>9. QED
  BY <1>7, <1>8

-----------------------------------------------------------------------------
(* A verdict is the meaning of what it was joined from.                     *)
LEMMA MeaningOfVerdict ==
  ASSUME NEW v \in Verdicts
  PROVE  /\ TRUE \in Meaning(v) <=> v # "false"
         /\ FALSE \in Meaning(v) <=> v # "true"
         /\ Meaning(v) = {TRUE} <=> v = "true"
         /\ Meaning(v) \subseteq BOOLEAN
<1>1. CASE v = "true"
  BY <1>1 DEF Meaning
<1>2. CASE v = "false"
  BY <1>2 DEF Meaning
<1>3. CASE v = "unknown"
  BY <1>3 DEF Meaning
<1>4. QED
  BY <1>1, <1>2, <1>3 DEF Verdicts

LEMMA CombineMeans ==
  ASSUME NEW key \in Combinators, NEW of \in SUBSET Verdicts, NEW kids, kids = {Meaning(v) : v \in of},
         key = "not" => \E v : of = {v}
  PROVE  Meaning(Combine(key, of)) = Joined(key, kids)
<1>1. \A v \in of : (TRUE \in Meaning(v) <=> v # "false") /\ (FALSE \in Meaning(v) <=> v # "true")
  BY MeaningOfVerdict
<1>2. /\ (\A s \in kids : TRUE \in s) <=> "false" \notin of
      /\ (\A s \in kids : FALSE \in s) <=> "true" \notin of
      /\ (\E s \in kids : TRUE \in s) <=> \E v \in of : v # "false"
      /\ (\E s \in kids : FALSE \in s) <=> \E v \in of : v # "true"
  BY <1>1
<1>3. CASE key = "all"
  <2>1. PICK y, z, X : /\ y = (\A s \in kids : TRUE \in s) /\ z = (\E s \in kids : FALSE \in s)
                       /\ X = Joined(key, kids)
    OBVIOUS
  <2>2. y \in BOOLEAN /\ z \in BOOLEAN /\ X = {b \in BOOLEAN : IF b THEN y ELSE z}
    BY <1>3, <2>1 DEF Joined
  <2>3. /\ (y /\ ~z) => X = {TRUE}
        /\ (~y /\ z) => X = {FALSE}
        /\ (y /\ z) => X = BOOLEAN
    BY <2>2, OutlookIs
  <2>4. y <=> "false" \notin of
    BY <1>2, <2>1
  <2>5. z <=> \E v \in of : v # "true"
    BY <1>2, <2>1
  <2>6. CASE "false" \in of
    BY <1>3, <2>1, <2>3, <2>4, <2>5, <2>6 DEF Combine, Meaning
  <2>7. CASE "false" \notin of /\ "unknown" \in of
    BY <1>3, <2>1, <2>3, <2>4, <2>5, <2>7 DEF Combine, Meaning
  <2>8. CASE "false" \notin of /\ "unknown" \notin of
    BY <1>3, <2>1, <2>3, <2>4, <2>5, <2>8 DEF Combine, Meaning, Verdicts
  <2>9. QED
    BY <2>6, <2>7, <2>8
<1>4. CASE key = "any"
  <2>1. PICK y, z, X : /\ y = (\E s \in kids : TRUE \in s) /\ z = (\A s \in kids : FALSE \in s)
                       /\ X = Joined(key, kids)
    OBVIOUS
  <2>2. y \in BOOLEAN /\ z \in BOOLEAN /\ X = {b \in BOOLEAN : IF b THEN y ELSE z}
    BY <1>4, <2>1 DEF Joined
  <2>3. /\ (y /\ ~z) => X = {TRUE}
        /\ (~y /\ z) => X = {FALSE}
        /\ (y /\ z) => X = BOOLEAN
    BY <2>2, OutlookIs
  <2>4. z <=> "true" \notin of
    BY <1>2, <2>1
  <2>5. y <=> \E v \in of : v # "false"
    BY <1>2, <2>1
  <2>6. CASE "true" \in of
    BY <1>4, <2>1, <2>3, <2>4, <2>5, <2>6 DEF Combine, Meaning
  <2>7. CASE "true" \notin of /\ "unknown" \in of
    BY <1>4, <2>1, <2>3, <2>4, <2>5, <2>7 DEF Combine, Meaning
  <2>8. CASE "true" \notin of /\ "unknown" \notin of
    BY <1>4, <2>1, <2>3, <2>4, <2>5, <2>8 DEF Combine, Meaning, Verdicts
  <2>9. QED
    BY <2>6, <2>7, <2>8
<1>5. CASE key = "not"
  <2>1. PICK v \in Verdicts : of = {v}
    BY <1>5
  <2>2. UNION kids = Meaning(v)
    BY <2>1
  <2>3. Joined(key, kids) = {~b : b \in Meaning(v)}
    BY <1>5, <2>2 DEF Joined
  <2>4. CASE v = "true"
    BY <1>5, <2>1, <2>3, <2>4 DEF Combine, Meaning
  <2>5. CASE v = "false"
    BY <1>5, <2>1, <2>3, <2>5 DEF Combine, Meaning
  <2>6. CASE v = "unknown"
    BY <1>5, <2>1, <2>3, <2>6 DEF Combine, Meaning
  <2>7. QED
    BY <2>1, <2>4, <2>5, <2>6 DEF Verdicts
<1>6. QED
  BY <1>3, <1>4, <1>5 DEF Combinators

-----------------------------------------------------------------------------
(* What a comparison may turn out to have are truth values.                 *)
LEMMA ComparisonOutlook ==
  ASSUME AreInputs(spec.inputs), AreChains(spec.inputs, InputChains(spec)),
         NEW N, N = DOMAIN spec.inputs, NEW b, Sound(N, b), AllBuilt(b, spec, N), seen \in Seq(AllBars),
         NEW node, node.key \in Comparators, IsCompare(spec.inputs, node), Placed(b, spec, node)
  PROVE  CompareMeans(node) \subseteq BOOLEAN
<1>1. PICK rule : rule = Compare(b, spec, node)
  OBVIOUS
<1>2. Depth(rule) \in Nat
  BY <1>1, DepthIs
<1>3. PICK p : p = [units |-> b.units, slots |-> b.slots, depth |-> Depth(rule)]
  OBVIOUS
<1>4. IsPlan(p)
  BY <1>2, <1>3 DEF IsPlan, Sound
<1>5. PICK val : IsValues(p, seen, val)
  BY <1>4, ValuesExist DEF IsPlan
<1>6. PICK t : t = Prime(p, seen) /\ IsTape(p, t, seen, val, Len(seen))
  BY <1>4, <1>5, PrimedIs
<1>7. Reading(p, b, t, val)
  BY <1>3, <1>4, <1>5, <1>6 DEF Reading
<1>8. Compared(p, b, node, rule)
  BY <1>1, <1>2, <1>3 DEF Compared
<1>9. PICK v \in Verdicts : Meaning(v) = CompareMeans(node)
  BY <1>7, <1>8, ComparisonMeans
<1>10. QED
  BY <1>9, MeaningOfVerdict

-----------------------------------------------------------------------------
(* What is left of a rule means what the rule means.                        *)
LEMMA AnyOfNone ==
  Joined("any", {}) = {FALSE}
  BY DEF Joined

LEMMA AnyOfOne ==
  ASSUME NEW s \in SUBSET BOOLEAN
  PROVE  Joined("any", {s}) = s
<1>1. ASSUME NEW b \in BOOLEAN PROVE b \in Joined("any", {s}) <=> b \in s
  <2>1. CASE b = TRUE
    BY <2>1 DEF Joined
  <2>2. CASE b = FALSE
    BY <2>2 DEF Joined
  <2>3. QED
    BY <2>1, <2>2
<1>2. Joined("any", {s}) \subseteq BOOLEAN
  BY DEF Joined
<1>3. QED
  BY <1>1, <1>2

LEMMA SameAny ==
  ASSUME NEW kids, NEW other,
         (\E s \in kids : TRUE \in s) <=> \E s \in other : TRUE \in s,
         (\A s \in kids : FALSE \in s) <=> \A s \in other : FALSE \in s
  PROVE  Joined("any", kids) = Joined("any", other)
<1>1. PICK y, z : y = (\E s \in kids : TRUE \in s) /\ z = (\A s \in kids : FALSE \in s)
  OBVIOUS
<1>2. y = (\E s \in other : TRUE \in s) /\ z = (\A s \in other : FALSE \in s)
  BY <1>1
<1>3. Joined("any", kids) = {b \in BOOLEAN : IF b THEN y ELSE z}
  BY <1>1 DEF Joined
<1>4. Joined("any", other) = {b \in BOOLEAN : IF b THEN y ELSE z}
  BY <1>2 DEF Joined
<1>5. QED
  BY <1>3, <1>4

Remains(m, left, c) ==
  /\ m[c] \subseteq BOOLEAN
  /\ left[c] = 0 => m[c] = {FALSE}
  /\ left[c] # 0 => m[left[c]] = m[c]

LEMMA AnyOfLeft ==
  ASSUME NEW rules, NEW i, NEW left, NEW m, \A c \in Children(rules[i]) : Remains(m, left, c)
  PROVE  Joined("any", {m[c] : c \in Children(rules[i])}) = Joined("any", {m[k] : k \in LeftBelow(rules, left, i)})
<1>1. PICK C, L : C = Children(rules[i]) /\ L = LeftBelow(rules, left, i)
  OBVIOUS
<1>2. PICK kids, other : kids = {m[c] : c \in C} /\ other = {m[k] : k \in L}
  OBVIOUS
<1>3. ASSUME NEW k \in L PROVE \E c \in C : k = left[c] /\ m[k] = m[c]
  <2>1. PICK c \in C : k = left[c] /\ k # 0
    BY <1>1 DEF LeftBelow
  <2>2. Remains(m, left, c)
    BY <1>1
  <2>3. QED
    BY <2>1, <2>2 DEF Remains
<1>4. ASSUME NEW c \in C PROVE m[c] = {FALSE} \/ (left[c] \in L /\ m[left[c]] = m[c])
  <2>1. Remains(m, left, c)
    BY <1>1
  <2>2. left[c] # 0 => left[c] \in L
    BY <1>1 DEF LeftBelow
  <2>3. QED
    BY <2>1, <2>2 DEF Remains
<1>5. (\E s \in kids : TRUE \in s) <=> \E s \in other : TRUE \in s
  <2>1. ASSUME NEW s \in kids, TRUE \in s PROVE s \in other
    <3>1. PICK c \in C : s = m[c]
      BY <1>2, <2>1
    <3>2. m[c] # {FALSE}
      BY <2>1, <3>1
    <3>3. QED
      BY <1>2, <1>4, <3>1, <3>2
  <2>2. ASSUME NEW s \in other PROVE s \in kids
    BY <1>2, <1>3, <2>2
  <2>3. QED
    BY <2>1, <2>2
<1>6. (\A s \in kids : FALSE \in s) <=> \A s \in other : FALSE \in s
  <2>1. ASSUME NEW s \in kids, FALSE \notin s PROVE s \in other
    <3>1. PICK c \in C : s = m[c]
      BY <1>2, <2>1
    <3>2. m[c] # {FALSE}
      BY <2>1, <3>1
    <3>3. QED
      BY <1>2, <1>4, <3>1, <3>2
  <2>2. ASSUME NEW s \in other PROVE s \in kids
    BY <1>2, <1>3, <2>2
  <2>3. QED
    BY <2>1, <2>2
<1>7. QED
  BY <1>1, <1>2, <1>5, <1>6, SameAny

(* A part of a spec that is closed under what its rules hold.               *)
ClosedIn(J) ==
  /\ J \subseteq 1 .. Len(spec.rules)
  /\ \A i \in J : /\ Children(spec.rules[i]) \subseteq J
                  /\ spec.rules[i].key \in Comparators \cup Brackets \cup Combinators
                  /\ spec.rules[i].key \in Comparators => CompareMeans(spec.rules[i]) \subseteq BOOLEAN

LEMMA LeftMeans ==
  ASSUME IsTree(spec.rules), NEW left, left = Residual(spec.rules), NEW m, IsMeaning(m), NEW J, ClosedIn(J)
  PROVE  \A i \in J : Remains(m, left, i)
<1>1. PICK n \in Nat : n = Len(spec.rules) /\ DOMAIN spec.rules = 1 .. n
  BY DEF IsTree, Ordered
<1>2. \A i \in 1 .. n : m[i] = MeansNow(m, i) /\ left[i] = LeftAt(spec.rules, left, i)
  <2>1. left = [i \in 1 .. n |-> LeftAt(spec.rules, left, i)]
    BY <1>1, ResidualIs DEF IsResidual
  <2>2. m = [i \in 1 .. n |-> MeansNow(m, i)]
    BY <1>1 DEF IsMeaning
  <2>3. \A i \in 1 .. n : left[i] = LeftAt(spec.rules, left, i)
    BY <2>1
  <2>4. \A i \in 1 .. n : m[i] = MeansNow(m, i)
    BY <2>2
  <2>5. QED
    BY <2>3, <2>4
<1> DEFINE P == {i \in 1 .. n : i \in J => Remains(m, left, i)}
<1>3. ASSUME NEW i \in 1 .. n, \A k \in 1 .. i - 1 : k \in P PROVE i \in P
  <2> SUFFICES ASSUME i \in J PROVE Remains(m, left, i)
    OBVIOUS
  <2>1. PICK key : key = spec.rules[i].key
    OBVIOUS
  <2>2. key \in Comparators \cup Brackets \cup Combinators
    BY <2>1 DEF ClosedIn
  <2>3. \A c \in Children(spec.rules[i]) : Remains(m, left, c)
    <3>1. Children(spec.rules[i]) \subseteq 1 .. i - 1
      BY <1>1 DEF IsTree, Ordered
    <3>2. Children(spec.rules[i]) \subseteq J
      BY DEF ClosedIn
    <3>3. QED
      BY <1>3, <3>1, <3>2
  <2>4. CASE key \in Brackets
    <3>1. left[i] = 0
      BY <1>1, <1>2, <2>1, <2>4, LeftAtIs
    <3>2. key \notin Combinators
      BY <2>4 DEF Brackets, Combinators
    <3>3. m[i] = {FALSE}
      BY <1>2, <2>1, <2>4, <3>2 DEF MeansNow
    <3>4. QED
      BY <3>1, <3>3 DEF Remains
  <2>5. CASE key = "any"
    <3>1. PICK L : L = LeftBelow(spec.rules, left, i)
      OBVIOUS
    <3>2. m[i] = Joined("any", {m[c] : c \in Children(spec.rules[i])})
      BY <1>2, <2>1, <2>5 DEF MeansNow, Combinators
    <3>3. m[i] = Joined("any", {m[k] : k \in L})
      BY <2>3, <3>1, <3>2, AnyOfLeft
    <3>4. m[i] \subseteq BOOLEAN
      BY <3>3, JoinedIs DEF Combinators
    <3>5. PICK alts : alts = Alternatives(spec.rules, left, i)
      OBVIOUS
    <3>6. left[i] = IF alts = <<>> THEN 0 ELSE IF Len(alts) = 1 THEN alts[1] ELSE i
      <4>1. key \notin Brackets
        BY <2>5 DEF Brackets
      <4>2. QED
        BY <1>2, <2>1, <2>5, <3>5, <4>1 DEF LeftAt
    <3>7. /\ alts = <<>> => L = {}
          /\ Len(alts) = 1 => L = {alts[1]}
      BY <1>1, <2>1, <2>5, <3>1, <3>5, AlternativesKeep
    <3>8. CASE alts = <<>>
      <4>1. {m[k] : k \in L} = {}
        BY <3>7, <3>8
      <4>2. QED
        BY <3>3, <3>4, <3>6, <3>8, <4>1, AnyOfNone DEF Remains
    <3>9. CASE alts # <<>> /\ Len(alts) = 1
      <4>1. PICK x : x = alts[1] /\ L = {x}
        BY <3>7, <3>9
      <4>2. {m[k] : k \in L} = {m[x]}
        BY <4>1
      <4>3. PICK c \in Children(spec.rules[i]) : left[c] = x /\ x # 0
        BY <3>1, <4>1 DEF LeftBelow
      <4>4. m[x] \in SUBSET BOOLEAN
        BY <2>3, <4>3 DEF Remains
      <4>5. m[i] = m[x]
        BY <3>3, <4>2, <4>4, AnyOfOne
      <4>6. left[i] = x
        BY <3>6, <3>9, <4>1
      <4>7. QED
        BY <3>4, <4>3, <4>5, <4>6 DEF Remains
    <3>10. CASE alts # <<>> /\ Len(alts) # 1
      <4>1. left[i] = i /\ i # 0
        BY <3>6, <3>10
      <4>2. left[i] # 0 /\ m[left[i]] = m[i]
        BY <4>1
      <4>3. QED
        BY <3>4, <4>2 DEF Remains
    <3>11. QED
      BY <3>8, <3>9, <3>10
  <2>6. CASE key \notin Brackets \cup {"any"}
    <3>0. left[i] = i /\ i # 0
      BY <1>1, <1>2, <2>1, <2>6, LeftAtIs
    <3>1. left[i] # 0 /\ m[left[i]] = m[i]
      BY <3>0
    <3>2. CASE key \in Combinators
      <4>1. m[i] = Joined(key, {m[c] : c \in Children(spec.rules[i])})
        BY <1>2, <2>1, <3>2 DEF MeansNow
      <4>2. m[i] \subseteq BOOLEAN
        BY <3>2, <4>1, JoinedIs
      <4>3. QED
        BY <3>1, <4>2 DEF Remains
    <3>3. CASE key \notin Combinators
      <4>1. key \in Comparators
        BY <2>2, <2>6, <3>3
      <4>2. m[i] = CompareMeans(spec.rules[i])
        BY <1>2, <2>1, <2>6, <3>3 DEF MeansNow
      <4>3. m[i] \subseteq BOOLEAN
        BY <2>1, <4>1, <4>2 DEF ClosedIn
      <4>4. QED
        BY <3>1, <4>3 DEF Remains
    <3>4. QED
      BY <3>2, <3>3
  <2>7. QED
    BY <2>4, <2>5, <2>6
<1>4. \A i \in 1 .. n : i \in P
  <2> HIDE DEF P
  <2>1. QED
    BY <1>3, ClimbAll
<1>5. QED
  BY <1>1, <1>4 DEF ClosedIn

-----------------------------------------------------------------------------
(* Rules that are compiled say what they mean.                              *)
CompiledIn(p, b, h, K) ==
  /\ K \subseteq 1 .. Len(spec.rules)
  /\ \A i \in K :
       /\ Children(h[i]) \subseteq K
       /\ spec.rules[i].key \in Comparators \cup Combinators
       /\ spec.rules[i].key \in Comparators => Compared(p, b, spec.rules[i], p.rules[i])
       /\ spec.rules[i].key \in Combinators => IsCombination(spec.rules[i])

HoistedTo(p, b, h, left, i) ==
  /\ h[i].key = spec.rules[i].key
  /\ spec.rules[i].key # "any" => h[i] = spec.rules[i]
  /\ Children(h[i]) \subseteq 1 .. i - 1
  /\ Children(h[i]) # Children(spec.rules[i]) =>
       spec.rules[i].key = "any" /\ Children(h[i]) = LeftBelow(spec.rules, left, i)
  /\ p.rules[i] = IF h[i].key \in Comparators THEN Compare(b, spec, h[i])
                  ELSE [op |-> h[i].key, bars |-> 1, of |-> IF h[i].key \in Brackets THEN <<>> ELSE h[i].of]

LEMMA HoistedNode ==
  ASSUME IsTree(spec.rules), NEW exits, NEW h, h = Hoisted(spec.rules, exits),
         NEW i \in 1 .. Len(spec.rules), NEW left, left = Residual(spec.rules),
         NEW b, NEW p, p.rules = Rules(b, spec, h)
  PROVE  HoistedTo(p, b, h, left, i)
<1>1. PICK n \in Nat : n = Len(spec.rules)
  BY DEF IsTree, Ordered
<1>2. PICK visited : visited = AllVisited(spec.rules, exits)
  OBVIOUS
<1>3. /\ Ordered(h) /\ Len(h) = n /\ h[i].key = spec.rules[i].key
      /\ (i \notin visited \/ spec.rules[i].key # "any") => h[i] = spec.rules[i]
  BY <1>1, <1>2, HoistedIs
<1>4. i \in DOMAIN h /\ Children(h[i]) \subseteq 1 .. i - 1
  BY <1>1, <1>3 DEF Ordered
<1>5. (i \in visited /\ spec.rules[i].key = "any") => Children(h[i]) = LeftBelow(spec.rules, left, i)
  BY <1>2, HoistedKeeps
<1>6. p.rules[i] = IF h[i].key \in Comparators THEN Compare(b, spec, h[i])
                   ELSE [op |-> h[i].key, bars |-> 1, of |-> IF h[i].key \in Brackets THEN <<>> ELSE h[i].of]
  BY <1>4 DEF Rules
<1>7. QED
  BY <1>3, <1>4, <1>5, <1>6 DEF HoistedTo

LEMMA RulesAreRooted ==
  ASSUME IsTree(spec.rules), \A i \in 1 .. Len(spec.rules) : IsRead(spec.inputs, spec.rules[i]),
         NEW exits, NEW h, h = Hoisted(spec.rules, exits),
         NEW b, NEW p, p.rules = Rules(b, spec, h)
  PROVE  Rooted(p) /\ Len(p.rules) = Len(spec.rules)
<1>1. PICK n \in Nat : n = Len(spec.rules)
  BY DEF IsTree, Ordered
<1>2. Ordered(h) /\ Len(h) = n
  BY <1>1, HoistedIs
<1>3. DOMAIN h = 1 .. n
  BY <1>2 DEF Ordered
<1>4. p.rules = [i \in 1 .. n |-> p.rules[i]]
  BY <1>3 DEF Rules
<1>5. Len(p.rules) = n /\ DOMAIN p.rules = 1 .. n
  BY <1>4
<1>6. ASSUME NEW i \in 1 .. n, p.rules[i].op \notin Comparators
      PROVE  ToSet(p.rules[i].of) \subseteq 1 .. i - 1
  <2>1. /\ h[i].key = spec.rules[i].key /\ Children(h[i]) \subseteq 1 .. i - 1
        /\ spec.rules[i].key # "any" => h[i] = spec.rules[i]
        /\ p.rules[i] = IF h[i].key \in Comparators THEN Compare(b, spec, h[i])
                        ELSE [op |-> h[i].key, bars |-> 1, of |-> IF h[i].key \in Brackets THEN <<>> ELSE h[i].of]
    <3>1. PICK left : left = Residual(spec.rules)
      OBVIOUS
    <3>2. HoistedTo(p, b, h, left, i)
      BY <1>1, <3>1, HoistedNode
    <3>3. QED
      BY <3>2 DEF HoistedTo
  <2>2. CASE h[i].key \in Comparators
    <3>1. IsCompare(spec.inputs, spec.rules[i]) /\ spec.rules[i].key # "any"
      BY <1>1, <2>1, <2>2 DEF IsRead, Comparators, Plain, Crossings, Trends
    <3>2. p.rules[i].op = h[i].key
      BY <2>1, <2>2, <3>1, CompareIs
    <3>3. QED
      BY <1>6, <2>2, <3>2
  <2>3. CASE h[i].key \in Brackets \ Comparators
    <3>1. p.rules[i].of = <<>>
      BY <2>1, <2>3
    <3>2. QED
      BY <3>1 DEF ToSet
  <2>4. CASE h[i].key \in Combinators \ (Comparators \cup Brackets)
    <3>1. p.rules[i].of = h[i].of
      BY <2>1, <2>4
    <3>2. QED
      BY <2>1, <2>4, <3>1 DEF Children
  <2>5. QED
    BY <1>1, <2>1, <2>2, <2>3, <2>4 DEF IsRead
<1>7. QED
  BY <1>1, <1>5, <1>6 DEF Rooted

AllRemain(J, m, left) == \A i \in J : Remains(m, left, i) /\ Children(spec.rules[i]) \subseteq J
AllMean(K, v, m) == \A i \in K : v[i] \in Verdicts /\ Meaning(v[i]) = m[i]

LEMMA RulesMean ==
  ASSUME NEW p, NEW b, NEW t, NEW val, Reading(p, b, t, val), IsTree(spec.rules),
         NEW exits, NEW h, h = Hoisted(spec.rules, exits), p.rules = Rules(b, spec, h),
         NEW left, left = Residual(spec.rules), NEW m, IsMeaning(m),
         NEW J, AllRemain(J, m, left),
         NEW K \in SUBSET J, CompiledIn(p, b, h, K),
         NEW v, IsEval(p, t, v), DOMAIN p.rules = 1 .. Len(spec.rules)
  PROVE  AllMean(K, v, m)
<1>0. \A i \in J : Remains(m, left, i) /\ Children(spec.rules[i]) \subseteq J
  BY DEF AllRemain
<1>1. PICK n \in Nat : n = Len(spec.rules) /\ DOMAIN spec.rules = 1 .. n
  BY DEF IsTree, Ordered
<1>2. \A i \in 1 .. n : m[i] = MeansNow(m, i) /\ v[i] = Evaluated(p, t, v, i)
  BY <1>1 DEF IsMeaning, IsEval
<1> DEFINE Says(i) == v[i] \in Verdicts /\ Meaning(v[i]) = m[i]
           P == {i \in 1 .. n : i \in K => Says(i)}
<1>3. ASSUME NEW i \in 1 .. n, \A k \in 1 .. i - 1 : k \in P PROVE i \in P
  <2> SUFFICES ASSUME i \in K PROVE Says(i)
    OBVIOUS
  <2>1. PICK key : key = spec.rules[i].key
    OBVIOUS
  <2>2. /\ h[i].key = key /\ (key # "any" => h[i] = spec.rules[i])
        /\ Children(h[i]) \subseteq 1 .. i - 1
        /\ Children(h[i]) # Children(spec.rules[i]) =>
             key = "any" /\ Children(h[i]) = LeftBelow(spec.rules, left, i)
        /\ p.rules[i] = IF h[i].key \in Comparators THEN Compare(b, spec, h[i])
                        ELSE [op |-> h[i].key, bars |-> 1, of |-> IF h[i].key \in Brackets THEN <<>> ELSE h[i].of]
    <3>1. HoistedTo(p, b, h, left, i)
      BY <1>1, HoistedNode
    <3>2. QED
      BY <2>1, <3>1 DEF HoistedTo
  <2>3. CASE key \in Comparators
    <3>1. key \notin Combinators \cup Brackets
      BY <2>3 DEF Comparators, Plain, Crossings, Trends, Combinators, Brackets
    <3>2. Compared(p, b, spec.rules[i], p.rules[i])
      BY <2>1, <2>3 DEF CompiledIn
    <3>3. p.rules[i].op = key
      BY <2>1, <3>2, CompareIs DEF Compared
    <3>4. v[i] = EvalCompare(p, t, p.rules[i])
      BY <1>2, <2>3, <3>3 DEF Evaluated
    <3>5. m[i] = CompareMeans(spec.rules[i])
      BY <1>2, <2>1, <3>1 DEF MeansNow
    <3>6. QED
      BY <3>2, <3>4, <3>5, ComparisonMeans
  <2>4. CASE key \in Combinators
    <3>1. key \notin Comparators \cup Brackets
      BY <2>4 DEF Comparators, Plain, Crossings, Trends, Combinators, Brackets
    <3>2. p.rules[i].op = key /\ p.rules[i].of = h[i].of
      BY <2>2, <3>1
    <3>3. PICK C : C = Children(h[i])
      OBVIOUS
    <3>4. ToSet(h[i].of) = C
      BY <2>2, <2>4, <3>3 DEF Children
    <3>5. PICK of : of = {v[k] : k \in C}
      OBVIOUS
    <3>6. v[i] = Combine(key, of)
      BY <1>2, <3>1, <3>2, <3>4, <3>5 DEF Evaluated
    <3>7. \A k \in C : k \in 1 .. i - 1 /\ k \in K
      BY <2>2, <3>3 DEF CompiledIn
    <3>8. \A k \in C : Says(k)
      BY <1>3, <3>7
    <3>9. of \in SUBSET Verdicts /\ {m[k] : k \in C} = {Meaning(x) : x \in of}
      BY <3>5, <3>8
    <3>10. key = "not" => \E x : of = {x}
      <4> SUFFICES ASSUME key = "not" PROVE \E x : of = {x}
        OBVIOUS
      <4>1. IsCombination(spec.rules[i]) /\ h[i] = spec.rules[i]
        BY <2>1, <2>2, <2>4 DEF CompiledIn
      <4>2. Len(h[i].of) = 1 /\ h[i].of = [k \in 1 .. Len(h[i].of) |-> h[i].of[k]]
        BY <2>1, <4>1 DEF IsCombination, IsSequence
      <4>3. C = {h[i].of[1]}
        BY <3>4, <4>2 DEF ToSet
      <4>4. PICK k : k = h[i].of[1]
        OBVIOUS
      <4>5. of = {v[k]}
        BY <3>5, <4>3, <4>4
      <4>6. QED
        BY <4>5
    <3>11. Meaning(v[i]) = Joined(key, {m[k] : k \in C})
      BY <2>4, <3>6, <3>9, <3>10, CombineMeans
    <3>12. m[i] = Joined(key, {m[k] : k \in Children(spec.rules[i])})
      BY <1>2, <2>1, <2>4 DEF MeansNow
    <3>13. Joined(key, {m[k] : k \in C}) = Joined(key, {m[k] : k \in Children(spec.rules[i])})
      <4>1. CASE C = Children(spec.rules[i])
        BY <4>1
      <4>2. CASE C # Children(spec.rules[i])
        <5>1. key = "any" /\ C = LeftBelow(spec.rules, left, i)
          BY <2>2, <3>3, <4>2
        <5>2. \A c \in Children(spec.rules[i]) : Remains(m, left, c)
          BY <1>0
        <5>3. QED
          BY <5>1, <5>2, AnyOfLeft
      <4>3. QED
        BY <4>1, <4>2
    <3>14. v[i] \in Verdicts
      BY <3>6, CombineIs
    <3>15. QED
      BY <3>11, <3>12, <3>13, <3>14
  <2>5. QED
    BY <2>1, <2>3, <2>4 DEF CompiledIn
<1>4. \A i \in 1 .. n : i \in P
  <2> HIDE DEF P
  <2>1. QED
    BY <1>3, ClimbAll
<1>5. QED
  BY <1>1, <1>4 DEF CompiledIn, AllMean

-----------------------------------------------------------------------------
(* What a plan evaluates.                                                   *)
LEMMA DeepestIs ==
  ASSUME NEW n \in Nat, NEW reached \in SUBSET (1 .. n), NEW rules,
         \A i \in reached : rules[i].op \in Comparators => Depth(rules[i]) \in Nat
  PROVE  /\ Deepest(rules, reached) \in Nat
         /\ \A i \in reached : rules[i].op \in Comparators => Depth(rules[i]) <= Deepest(rules, reached)
<1>1. PICK R : R = {i \in reached : rules[i].op \in Comparators}
  OBVIOUS
<1>2. PICK D : D = {Depth(rules[i]) : i \in R}
  OBVIOUS
<1>3. PICK S : S = {0} \cup D
  OBVIOUS
<1>4. Deepest(rules, reached) = Max(S)
  BY <1>1, <1>2, <1>3 DEF Deepest
<1>5. IsFiniteSet(R)
  <2>1. IsFiniteSet(1 .. n)
    BY FS_Interval
  <2>2. R \subseteq 1 .. n
    BY <1>1
  <2>3. QED
    BY <2>1, <2>2, FS_Subset
<1>6. IsFiniteSet(D)
  <2>1. PICK f : f = [i \in R |-> Depth(rules[i])]
    OBVIOUS
  <2>2. f \in Surjection(R, D)
    BY <1>2, <2>1 DEF Surjection
  <2>3. QED
    BY <1>5, <2>2, FS_Surjection
<1>7. IsFiniteSet(S)
  BY <1>3, <1>6, FS_AddElement
<1>8. S \in SUBSET Nat /\ S # {}
  BY <1>1, <1>2, <1>3
<1>9. Max(S) \in S /\ \A y \in S : y <= Max(S)
  BY <1>7, <1>8, MaxOfFinite
<1>10. QED
  BY <1>1, <1>2, <1>3, <1>4, <1>8, <1>9

LEMMA BelowIsWithin ==
  ASSUME NEW n \in Nat, NEW i \in 1 .. n
  PROVE  \A c \in 1 .. i - 1 : c \in 1 .. n
  OBVIOUS

(* What stands under a node is closed under what its nodes hold.            *)
UnderTogether(rules, u) ==
  \A r \in 1 .. Len(rules) : \A i \in u[r] : i \in 1 .. r /\ Children(rules[i]) \subseteq u[r]

LEMMA UnderIsTogether ==
  ASSUME NEW rules, Ordered(rules), NEW u, IsUnder(rules, u)
  PROVE  UnderTogether(rules, u)
<1>1. PICK n \in Nat : n = Len(rules)
  BY DEF Ordered
<1>2. \A r \in 1 .. n : /\ r \in u[r]
                        /\ \A c \in Children(rules[r]) : c \in 1 .. r - 1 /\ u[c] \subseteq u[r]
                        /\ \A j \in u[r] : j = r \/ \E c \in Children(rules[r]) : j \in u[c]
  BY <1>1, UnderUnfolds
<1> DEFINE Good(r) == \A i \in u[r] : i \in 1 .. r /\ Children(rules[i]) \subseteq u[r]
           P == {r \in 1 .. n : Good(r)}
<1>3. ASSUME NEW r \in 1 .. n, \A k \in 1 .. r - 1 : k \in P PROVE r \in P
  <2> SUFFICES ASSUME NEW i \in u[r] PROVE i \in 1 .. r /\ Children(rules[i]) \subseteq u[r]
    OBVIOUS
  <2>1. CASE i = r
    <3>1. \A c \in Children(rules[r]) : c \in u[r]
      BY <1>2
    <3>2. QED
      BY <2>1, <3>1
  <2>2. CASE i # r
    <3>1. PICK c \in Children(rules[r]) : i \in u[c]
      BY <1>2, <2>2
    <3>2. c \in 1 .. r - 1 /\ u[c] \subseteq u[r]
      BY <1>2
    <3>3. Good(c)
      BY <1>3, <3>2
    <3>4. QED
      BY <3>1, <3>2, <3>3
  <2>3. QED
    BY <2>1, <2>2
<1>4. \A r \in 1 .. n : r \in P
  <2> HIDE DEF P
  <2>1. QED
    BY <1>3, ClimbAll
<1>5. QED
  BY <1>1, <1>4 DEF UnderTogether

(* What the legs of a plan evaluate, and the rules they come from.          *)
Roots(p) == {p.long.entry, p.long.exit, p.short.entry, p.short.exit} \ {0}
Kept(h, p) == UNION {Under(h, r) : r \in Roots(p)}

Evaluates(p, b, h, J, K) ==
  /\ K \in SUBSET J /\ Roots(p) \subseteq K
  /\ J \subseteq 1 .. Len(spec.rules)
  /\ \A i \in J : Children(spec.rules[i]) \subseteq J /\ Placed(b, spec, spec.rules[i])
  /\ \A i \in K : Children(h[i]) \subseteq K /\ spec.rules[i].key \notin Brackets

LEMMA LegsAre ==
  ASSUME IsSpec(spec), NEW p, p = Compile(spec), p # Fault, NEW b, b = Builder(spec), NEW leg \in Legs,
         NEW left, left = Residual(spec.rules),
         NEW own, own = IF leg = "long" THEN p.long ELSE p.short
  PROVE  /\ own.entry = spec.entry[leg]
         /\ own.exit = IF spec.exit[leg] = 0 THEN 0 ELSE left[spec.exit[leg]]
<1>1. own = Leg(b, spec, leg)
  <2>1. p.long = Leg(b, spec, "long") /\ p.short = Leg(b, spec, "short")
    BY PlanIs
  <2>2. QED
    BY <2>1 DEF Legs
<1>2. own.entry = spec.entry[leg] /\ own.exit = LeftOf(spec.rules, ExitOf(spec, leg))
  BY <1>1 DEF Leg
<1>3. ExitOf(spec, leg) = spec.exit[leg]
  BY DEF IsSpec, ExitOf
<1>4. QED
  BY <1>2, <1>3 DEF LeftOf

LEMMA PlanEvaluates ==
  ASSUME IsSpec(spec), NEW p, p = Compile(spec), p # Fault, NEW b, b = Builder(spec),
         NEW h, h = HoistedRules(spec), NEW K, K = Kept(h, p)
  PROVE  Evaluates(p, b, h, Reached(spec), K)
<1> DEFINE rules == spec.rules
<1>1. PICK n : n = Len(rules) /\ n \in Nat /\ IsTree(rules)
  BY DEF IsSpec, IsTree, Ordered
<1>2. PICK exits : h = Hoisted(rules, exits)
  BY <1>1 DEF HoistedRules
<1>3. PICK left : left = Residual(rules)
  OBVIOUS
<1>4. /\ Ordered(h) /\ Len(h) = n /\ \A i \in 1 .. n : h[i].key = rules[i].key
      /\ \A i \in 1 .. n : left[i] \in 0 .. i
  BY <1>1, <1>2, <1>3, HoistedIs
<1>5. PICK u : /\ IsUnder(rules, u)
               /\ \A root : Under(rules, root) = IF root = 0 THEN {} ELSE u[root]
               /\ \A i \in 1 .. n : u[i] \subseteq 1 .. i
  <2>1. Ordered(rules)
    BY <1>1 DEF IsTree
  <2>2. QED
    BY <1>1, <2>1, UnderIs
<1>6. PICK w : /\ IsUnder(h, w)
               /\ \A root : Under(h, root) = IF root = 0 THEN {} ELSE w[root]
               /\ \A i \in 1 .. n : w[i] \subseteq 1 .. i
  BY <1>4, UnderIs
<1>7. \A i \in 1 .. n : i \in u[i] /\ \A c \in Children(rules[i]) : u[c] \subseteq u[i] /\ c \in 1 .. n
  BY <1>1, <1>5, UnderUnfolds DEF IsTree
<1>8. \A i \in 1 .. n : i \in w[i] /\ \A c \in Children(h[i]) : w[c] \subseteq w[i] /\ c \in 1 .. n
  <2>1. ASSUME NEW i \in 1 .. n PROVE i \in w[i] /\ \A c \in Children(h[i]) : w[c] \subseteq w[i] /\ c \in 1 .. n
    <3>1. i \in 1 .. Len(h)
      BY <1>4
    <3>2. i \in w[i] /\ \A c \in Children(h[i]) : c \in 1 .. i - 1 /\ w[c] \subseteq w[i]
      BY <1>4, <1>6, <3>1, UnderUnfolds
    <3>3. \A c \in 1 .. i - 1 : c \in 1 .. n
      BY <1>1, BelowIsWithin
    <3>4. QED
      BY <3>2, <3>3
  <2>2. QED
    BY <2>1
<1>9. \A i \in 1 .. n : w[i] \subseteq u[i] /\ (left[i] # 0 => u[left[i]] \subseteq u[i])
  BY <1>1, <1>2, <1>3, <1>4, <1>5, <1>6, HoistedIsUnder, LeftIsUnder
<1>10. PICK tops : /\ tops = {spec.entry.long, spec.entry.short, spec.exit.long, spec.exit.short}
                   /\ Reached(spec) = UNION {Under(rules, r) : r \in tops}
  <2>1. PICK tops : tops = {spec.entry.long, spec.entry.short, spec.exit.long, spec.exit.short}
    OBVIOUS
  <2>2. Reached(spec) = UNION {Under(spec.rules, r) : r \in tops}
    BY <2>1 DEF Reached
  <2>3. QED
    BY <1>1, <2>1, <2>2
<1>11. \A r \in tops : r \in 0 .. n
  BY <1>1, <1>10 DEF IsSpec, Legs
<1>12. \A leg \in Legs : {spec.entry[leg], spec.exit[leg]} \subseteq tops
  BY <1>10 DEF Legs
<1>13. ASSUME NEW r \in Roots(p)
       PROVE  /\ r \in 1 .. n /\ w[r] \subseteq Reached(spec)
              /\ \A i \in w[r] : rules[i].key \notin Brackets
  <2>1. PICK leg \in Legs : \E own : /\ own = IF leg = "long" THEN p.long ELSE p.short
                                     /\ r \in {own.entry, own.exit} /\ r # 0
    BY <1>13 DEF Roots, Legs
  <2>2. PICK own : /\ own = IF leg = "long" THEN p.long ELSE p.short
                   /\ r \in {own.entry, own.exit} /\ r # 0
    BY <2>1
  <2>3. /\ own.entry = spec.entry[leg]
        /\ own.exit = IF spec.exit[leg] = 0 THEN 0 ELSE left[spec.exit[leg]]
    BY <1>1, <1>3, <2>2, LegsAre
  <2>4. PICK top \in tops : top # 0 /\ r \in 1 .. n /\ u[r] \subseteq u[top]
    <3>1. CASE r = own.entry
      BY <1>11, <1>12, <2>2, <2>3, <3>1
    <3>2. CASE r = own.exit
      <4>1. PICK x \in tops : x = spec.exit[leg]
        BY <1>12
      <4>2. x # 0 /\ r = left[x]
        BY <2>2, <2>3, <3>2, <4>1
      <4>3. x \in 1 .. n
        BY <1>11, <4>2
      <4>4. r \in 1 .. n
        BY <1>1, <1>4, <2>2, <4>2, <4>3
      <4>5. QED
        BY <1>9, <2>2, <4>2, <4>3, <4>4
    <3>3. QED
      BY <2>2, <3>1, <3>2
  <2>5. w[r] \subseteq Reached(spec)
    BY <1>5, <1>9, <1>10, <2>4
  <2>6. Compilable(h, r)
    <3>1. Compiles(spec)
      BY DEF Compile
    <3>2. r \in {spec.entry[leg], LeftOf(spec.rules, ExitOf(spec, leg))} \ {0}
      <4>1. ExitOf(spec, leg) = spec.exit[leg]
        BY DEF IsSpec, ExitOf
      <4>2. QED
        BY <1>1, <1>3, <2>2, <2>3, <4>1 DEF LeftOf
    <3>3. QED
      BY <3>1, <3>2 DEF Compiles, Legs
  <2>7. Under(h, r) = w[r]
    BY <1>6, <2>2
  <2>8. \A i \in w[r] : h[i].key \notin Brackets /\ i \in 1 .. n
    BY <1>1, <1>6, <2>4, <2>6, <2>7 DEF Compilable
  <2>9. QED
    BY <1>4, <2>4, <2>5, <2>8
<1>14. K = UNION {w[r] : r \in Roots(p)}
  <2>1. \A r \in Roots(p) : Under(h, r) = w[r]
    BY <1>6 DEF Roots
  <2>2. QED
    BY <2>1 DEF Kept
<1>15. K \in SUBSET Reached(spec) /\ Roots(p) \subseteq K
  <2>1. \A r \in Roots(p) : r \in w[r] /\ w[r] \subseteq Reached(spec)
    BY <1>8, <1>13
  <2>2. QED
    BY <1>14, <2>1
<1>16. ASSUME NEW i \in K PROVE Children(h[i]) \subseteq K /\ rules[i].key \notin Brackets
  <2>1. PICK r \in Roots(p) : i \in w[r]
    BY <1>14
  <2>2. r \in 1 .. n /\ \A j \in w[r] : rules[j].key \notin Brackets
    BY <1>13
  <2>3. UnderTogether(h, w)
    BY <1>4, <1>6, UnderIsTogether
  <2>4. Children(h[i]) \subseteq w[r]
    BY <1>1, <1>4, <2>1, <2>2, <2>3 DEF UnderTogether
  <2>5. QED
    BY <1>14, <2>1, <2>2, <2>4
<1>17. Reached(spec) \subseteq 1 .. n
  BY <1>1, <1>5, <1>10, <1>11
<1>18. ASSUME NEW i \in Reached(spec)
       PROVE  Children(rules[i]) \subseteq Reached(spec) /\ Placed(b, spec, rules[i])
  <2>1. PICK r \in tops : r # 0 /\ i \in u[r]
    BY <1>5, <1>10
  <2>2. UnderTogether(rules, u)
    BY <1>1, <1>5, UnderIsTogether DEF IsTree
  <2>3. Children(rules[i]) \subseteq u[r]
    BY <1>1, <1>11, <2>1, <2>2 DEF UnderTogether
  <2>4. Children(rules[i]) \subseteq Reached(spec)
    BY <1>5, <1>10, <2>1, <2>3
  <2>5. Placed(b, spec, rules[i])
    <3>1. PICK N : N = DOMAIN spec.inputs
      OBVIOUS
    <3>2. \A j \in 1 .. Len(spec.rules) : j \in Reached(spec) => Placed(b, spec, spec.rules[j])
      BY <3>1, BuilderIs
    <3>3. QED
      BY <1>1, <1>17, <3>2
  <2>6. QED
    BY <2>4, <2>5
<1>19. QED
  BY <1>1, <1>15, <1>16, <1>17, <1>18 DEF Evaluates

-----------------------------------------------------------------------------
LEMMA PlanIsCompiledIn ==
  ASSUME IsSpec(spec), NEW p, p = Compile(spec), p # Fault, NEW b, b = Builder(spec),
         NEW h, h = HoistedRules(spec), NEW K, K = Kept(h, p)
  PROVE  IsPlan(p) /\ CompiledIn(p, b, h, K)
<1>1. PICK n \in Nat : n = Len(spec.rules)
  BY DEF IsSpec, IsTree, Ordered
<1>2. PICK exits : h = Hoisted(spec.rules, exits)
  BY DEF HoistedRules
<1>3. /\ IsTree(spec.rules) /\ \A i \in 1 .. n : IsRead(spec.inputs, spec.rules[i])
      /\ AreInputs(spec.inputs) /\ AreChains(spec.inputs, InputChains(spec))
  BY <1>1 DEF IsSpec
<1>4. PICK J : Evaluates(p, b, h, J, K)
  BY PlanEvaluates
<1>5. K \subseteq 1 .. n /\ \A i \in K : i \in J
  BY <1>1, <1>4 DEF Evaluates
<1>6. p.rules = Rules(b, spec, h) /\ p.units = b.units /\ p.slots = b.slots
  BY PlanIs
<1>7. p.depth = Deepest(p.rules, K)
  BY PlanIs DEF Kept, Roots
<1>8. ASSUME NEW i \in K
      PROVE  /\ spec.rules[i].key \in Comparators \cup Combinators
             /\ spec.rules[i].key \in Combinators => p.rules[i].op \notin Comparators
             /\ spec.rules[i].key \in Comparators =>
                  /\ IsCompare(spec.inputs, spec.rules[i]) /\ Placed(b, spec, spec.rules[i])
                  /\ p.rules[i] = Compare(b, spec, spec.rules[i]) /\ Depth(p.rules[i]) \in Nat
                  /\ p.rules[i].op \in Comparators
  <2>1. IsRead(spec.inputs, spec.rules[i]) /\ spec.rules[i].key \notin Brackets
    BY <1>3, <1>4, <1>5 DEF Evaluates
  <2>2. PICK left : left = Residual(spec.rules)
    OBVIOUS
  <2>3. HoistedTo(p, b, h, left, i)
    BY <1>1, <1>2, <1>3, <1>5, <1>6, <2>2, HoistedNode
  <2>4. spec.rules[i].key \in Comparators \cup Combinators
    BY <2>1 DEF IsRead
  <2>5. ASSUME spec.rules[i].key \in Combinators PROVE p.rules[i].op \notin Comparators
    <3>1. h[i].key \notin Comparators
      BY <2>3, <2>5 DEF HoistedTo, Comparators, Plain, Crossings, Trends, Combinators
    <3>2. p.rules[i].op = h[i].key
      BY <2>3, <3>1 DEF HoistedTo
    <3>3. QED
      BY <3>1, <3>2
  <2>6. ASSUME spec.rules[i].key \in Comparators
        PROVE  /\ IsCompare(spec.inputs, spec.rules[i]) /\ Placed(b, spec, spec.rules[i])
               /\ p.rules[i] = Compare(b, spec, spec.rules[i]) /\ Depth(p.rules[i]) \in Nat
               /\ p.rules[i].op \in Comparators
    <3>1. spec.rules[i].key # "any"
      BY <2>6 DEF Comparators, Plain, Crossings, Trends
    <3>2. h[i] = spec.rules[i] /\ p.rules[i] = Compare(b, spec, spec.rules[i])
      BY <2>3, <2>6, <3>1 DEF HoistedTo
    <3>3. IsCompare(spec.inputs, spec.rules[i])
      BY <2>1, <2>6 DEF IsRead
    <3>4. Placed(b, spec, spec.rules[i])
      BY <1>4, <1>5 DEF Evaluates
    <3>5. Depth(p.rules[i]) \in Nat
      BY <2>6, <3>2, <3>3, DepthIs
    <3>6. p.rules[i].op = spec.rules[i].key
      BY <3>2, <3>3, CompareIs
    <3>7. QED
      BY <2>6, <3>2, <3>3, <3>4, <3>5, <3>6
  <2>7. QED
    BY <2>4, <2>5, <2>6
<1>9. \A i \in K : p.rules[i].op \in Comparators => Depth(p.rules[i]) \in Nat
  BY <1>8
<1>10. /\ p.depth \in Nat
       /\ \A i \in K : p.rules[i].op \in Comparators => Depth(p.rules[i]) <= p.depth
  <2>1. K \in SUBSET (1 .. n)
    BY <1>5
  <2>2. QED
    BY <1>7, <1>9, <2>1, DeepestIs
<1>11. IsPlan(p)
  <2>1. PICK N : N = DOMAIN spec.inputs
    OBVIOUS
  <2>2. Sound(N, b)
    BY <2>1, BuilderIs
  <2>3. QED
    BY <1>6, <1>10, <2>2 DEF IsPlan, Sound
<1>12. ASSUME NEW i \in K
       PROVE  /\ Children(h[i]) \subseteq K
              /\ spec.rules[i].key \in Comparators => Compared(p, b, spec.rules[i], p.rules[i])
              /\ spec.rules[i].key \in Combinators => IsCombination(spec.rules[i])
  <2>1. Children(h[i]) \subseteq K
    BY <1>4 DEF Evaluates
  <2>2. spec.rules[i].key \in Comparators => Compared(p, b, spec.rules[i], p.rules[i])
    BY <1>8, <1>10 DEF Compared
  <2>3. spec.rules[i].key \in Combinators => IsCombination(spec.rules[i])
    BY <1>3, <1>5 DEF IsRead
  <2>4. QED
    BY <2>1, <2>2, <2>3
<1>13. CompiledIn(p, b, h, K)
  BY <1>1, <1>5, <1>8, <1>12 DEF CompiledIn
<1>14. QED
  BY <1>11, <1>13

-----------------------------------------------------------------------------
(* The tape of a run is primed with every bar that it has seen.             *)
TapeIsPrimed ==
  /\ seen \in Seq(AllBars)
  /\ Running => tape = Prime(plan, seen)
  /\ ~Running => seen = <<>>

LEMMA BarIs ==
  ASSUME NEW close \in Closes
  PROVE  Bar(close) \in AllBars
<1>1. PICK c \in Nat : c = close
  BY StrategyAssumption
<1>2. 5 * c \in Nat /\ (5 * c) % 12 \in Nat /\ c + 1 \in Nat
  OBVIOUS
<1>3. QED
  BY <1>1, <1>2 DEF Bar, AllBars

LEMMA PrimedWithNothing ==
  ASSUME NEW p, IsPlan(p)
  PROVE  Prime(p, <<>>) = NewTape(p)
<1>0. <<>> \in Seq(AllBars) /\ Len(<<>>) = 0
  OBVIOUS
<1>1. PICK bars \in Seq(AllBars) : bars = <<>> /\ Len(bars) = 0
  BY <1>0
<1>2. PICK f : IsPriming(p, bars, f)
  BY PrimeIs
<1>3. QED
  BY <1>1, <1>2 DEF IsPriming

LEMMA CompiledIsPlan ==
  ASSUME IsSpec(spec), NEW p, p = Compile(spec), p # Fault
  PROVE  IsPlan(p)
<1>1. PICK b, h : b = Builder(spec) /\ h = HoistedRules(spec)
  OBVIOUS
<1>2. PICK K : K = Kept(h, p)
  OBVIOUS
<1>3. QED
  BY <1>1, <1>2, PlanIsCompiledIn

LEMMA TapeStaysPrimed ==
  ASSUME StoredWasParsed, PlanIsCompiled, TapeIsPrimed, [Next]_<<strategyVars, sweepVars>>
  PROVE  TapeIsPrimed'
<1>1. CASE UNCHANGED strategyVars
  BY <1>1 DEF TapeIsPrimed, Running, strategyVars
<1>2. ASSUME NEW d \in Drafts, SaveDraft(d) PROVE TapeIsPrimed'
  <2>1. spec = None /\ plan' \in {None, Fault} /\ seen' = seen
    BY <1>2 DEF SaveDraft
  <2>2. ~Running /\ ~Running'
    BY <2>1 DEF PlanIsCompiled, Running
  <2>3. QED
    BY <2>1, <2>2 DEF TapeIsPrimed
<1>3. ASSUME CompileSpec PROVE TapeIsPrimed'
  <2>1. /\ spec \notin {None, Fault} /\ plan = None /\ spec' = spec /\ seen' = seen
        /\ plan' = Compile(Parse(Encode(spec)))
        /\ tape' = IF plan' = Fault THEN None ELSE NewTape(plan')
    BY <1>3 DEF CompileSpec
  <2>2. PICK d \in Drafts : spec = Parse(d)
    BY <2>1 DEF StoredWasParsed
  <2>3. Parse(Encode(spec)) = spec /\ IsSpec(spec)
    BY <2>1, <2>2, SpecIsReadAgain, SpecIs, StrategyAssumption
  <2>4. seen = <<>> /\ seen' \in Seq(AllBars)
    BY <2>1 DEF TapeIsPrimed, Running
  <2>5. ASSUME Running' PROVE tape' = Prime(plan', seen')
    <3>1. PICK p : p = plan' /\ p = Compile(spec) /\ p # Fault
      BY <2>1, <2>3, <2>5 DEF Running
    <3>2. IsPlan(p)
      BY <2>3, <3>1, CompiledIsPlan
    <3>3. Prime(p, <<>>) = NewTape(p)
      BY <3>2, PrimedWithNothing
    <3>4. QED
      BY <2>1, <2>4, <3>1, <3>3
  <2>6. QED
    BY <2>1, <2>4, <2>5 DEF TapeIsPrimed
<1>4. ASSUME NEW close \in Closes, Push(close) PROVE TapeIsPrimed'
  <2>1. PICK bar \in AllBars : bar = Bar(close)
    BY BarIs
  <2>2. Running /\ plan' = plan /\ tape' = PushTape(plan, tape, bar) /\ seen' = Append(seen, bar)
    BY <1>4, <2>1 DEF Push, Running
  <2>3. IsSpec(spec) /\ plan = Compile(spec) /\ Compile(spec) # Fault
    BY <2>2, RunningSpecIs
  <2>4. PICK p : p = plan /\ IsPlan(p)
    BY <2>3, CompiledIsPlan
  <2>5. PICK bars \in Seq(AllBars) : bars = seen
    BY DEF TapeIsPrimed
  <2>6. Prime(p, Append(bars, bar)) = PushTape(p, Prime(p, bars), bar)
    BY <2>4, PrimedWithOneMore
  <2>7. tape' = Prime(plan', seen') /\ seen' \in Seq(AllBars) /\ Running'
    BY <2>2, <2>4, <2>5, <2>6 DEF TapeIsPrimed, Running
  <2>8. QED
    BY <2>7 DEF TapeIsPrimed
<1>5. UNCHANGED strategyVars \/ CompileSpec \/ (\E d \in Drafts : SaveDraft(d)) \/ \E close \in Closes : Push(close)
  BY DEF Next, StrategyNext, strategyVars
<1>6. QED
  BY <1>1, <1>2, <1>3, <1>4, <1>5

LEMMA TapeStartsPrimed ==
  ASSUME Init
  PROVE  TapeIsPrimed
<1>1. plan = None /\ seen = <<>>
  BY DEF Init, StrategyInit
<1>2. QED
  BY <1>1 DEF TapeIsPrimed, Running

-----------------------------------------------------------------------------
(* Every root of a running plan means what its rule means.                  *)
RootsMean(v, m, left) ==
  /\ \A i \in Reached(spec) : Remains(m, left, i)
  /\ \A r \in Roots(plan) : v[r] \in Verdicts /\ Meaning(v[r]) = m[r]

LEMMA RunningReads ==
  ASSUME StoredWasParsed, PlanIsCompiled, TapeIsPrimed, Running, NEW b, b = Builder(spec)
  PROVE  \E val : Reading(plan, b, tape, val)
<1>1. IsSpec(spec) /\ plan = Compile(spec) /\ Compile(spec) # Fault
  BY RunningSpecIs
<1>2. PICK p : p = plan /\ IsPlan(p)
  BY <1>1, CompiledIsPlan
<1>3. p.units = b.units /\ p.slots = b.slots
  BY <1>1, <1>2, PlanIs
<1>4. PICK N : N = DOMAIN spec.inputs
  OBVIOUS
<1>5. Sound(N, b) /\ AllBuilt(b, spec, N)
  BY <1>1, <1>4, BuilderIs
<1>6. PICK bars \in Seq(AllBars) : bars = seen
  BY DEF TapeIsPrimed
<1>7. PICK val : IsValues(p, bars, val)
  BY <1>2, ValuesExist DEF IsPlan
<1>8. IsTape(p, Prime(p, bars), bars, val, Len(bars))
  BY <1>2, <1>7, PrimedIs
<1>9. AreInputs(spec.inputs) /\ AreChains(spec.inputs, InputChains(spec))
  BY <1>1 DEF IsSpec
<1>10. Reading(plan, b, tape, val)
  BY <1>2, <1>3, <1>4, <1>5, <1>6, <1>7, <1>8, <1>9 DEF Reading, TapeIsPrimed
<1>11. QED
  BY <1>10

LEMMA PlanIsRooted ==
  ASSUME IsSpec(spec), NEW p, p = Compile(spec), p # Fault
  PROVE  Rooted(p) /\ Len(p.rules) = Len(spec.rules)
<1>1. PICK b, h : b = Builder(spec) /\ h = HoistedRules(spec)
  OBVIOUS
<1>2. p.rules = Rules(b, spec, h)
  BY <1>1, PlanIs
<1>3. PICK exits : h = Hoisted(spec.rules, exits)
  BY <1>1 DEF HoistedRules
<1>4. QED
  BY <1>2, <1>3, RulesAreRooted DEF IsSpec

LEMMA ReachedIsClosed ==
  ASSUME StoredWasParsed, PlanIsCompiled, TapeIsPrimed, Running
  PROVE  ClosedIn(Reached(spec))
<1>1. IsSpec(spec) /\ plan = Compile(spec) /\ Compile(spec) # Fault
  BY RunningSpecIs
<1>2. PICK b, h : b = Builder(spec) /\ h = HoistedRules(spec)
  OBVIOUS
<1>3. PICK K : K = Kept(h, plan)
  OBVIOUS
<1>4. PICK J : J = Reached(spec) /\ Evaluates(plan, b, h, J, K)
  BY <1>1, <1>2, <1>3, PlanEvaluates
<1>5. PICK N : N = DOMAIN spec.inputs
  OBVIOUS
<1>6. Sound(N, b) /\ AllBuilt(b, spec, N)
  BY <1>1, <1>2, <1>5, BuilderIs
<1>7. AreInputs(spec.inputs) /\ AreChains(spec.inputs, InputChains(spec)) /\ seen \in Seq(AllBars)
  BY <1>1 DEF IsSpec, TapeIsPrimed
<1>8. ASSUME NEW i \in J
      PROVE  /\ Children(spec.rules[i]) \subseteq J
             /\ spec.rules[i].key \in Comparators \cup Brackets \cup Combinators
             /\ spec.rules[i].key \in Comparators => CompareMeans(spec.rules[i]) \subseteq BOOLEAN
  <2>1. Children(spec.rules[i]) \subseteq J /\ Placed(b, spec, spec.rules[i]) /\ i \in 1 .. Len(spec.rules)
    BY <1>4 DEF Evaluates
  <2>2. IsRead(spec.inputs, spec.rules[i])
    BY <1>1, <2>1 DEF IsSpec
  <2>3. ASSUME spec.rules[i].key \in Comparators PROVE CompareMeans(spec.rules[i]) \subseteq BOOLEAN
    <3>1. IsCompare(spec.inputs, spec.rules[i])
      BY <2>2, <2>3 DEF IsRead
    <3>2. QED
      BY <1>5, <1>6, <1>7, <2>1, <2>3, <3>1, ComparisonOutlook
  <2>4. QED
    BY <2>1, <2>2, <2>3 DEF IsRead
<1>9. ClosedIn(J)
  BY <1>4, <1>8 DEF ClosedIn, Evaluates
<1>10. QED
  BY <1>4, <1>9

LEMMA VerdictsMean ==
  ASSUME StoredWasParsed, PlanIsCompiled, TapeIsPrimed, Running,
         NEW m, IsMeaning(m), NEW v, IsEval(plan, tape, v), NEW left, left = Residual(spec.rules)
  PROVE  RootsMean(v, m, left)
<1>1. IsSpec(spec) /\ plan = Compile(spec) /\ Compile(spec) # Fault
  BY RunningSpecIs
<1>2. PICK b, h : b = Builder(spec) /\ h = HoistedRules(spec)
  OBVIOUS
<1>3. PICK K : K = Kept(h, plan)
  OBVIOUS
<1>4. PICK J : J = Reached(spec)
  OBVIOUS
<1>5. Evaluates(plan, b, h, J, K) /\ CompiledIn(plan, b, h, K)
  BY <1>1, <1>2, <1>3, <1>4, PlanEvaluates, PlanIsCompiledIn
<1>6. PICK val : Reading(plan, b, tape, val)
  BY <1>2, RunningReads
<1>7. IsTree(spec.rules)
  BY <1>1 DEF IsSpec
<1>8. PICK exits : h = Hoisted(spec.rules, exits)
  BY <1>2 DEF HoistedRules
<1>9. plan.rules = Rules(b, spec, h)
  BY <1>1, <1>2, PlanIs
<1>10. DOMAIN plan.rules = 1 .. Len(spec.rules)
  BY <1>1, PlanIsRooted DEF Rooted
<1>11. \A i \in J : Remains(m, left, i)
  BY <1>4, <1>7, ReachedIsClosed, LeftMeans
<1>12. AllRemain(J, m, left)
  BY <1>5, <1>11 DEF Evaluates, AllRemain
<1>13. K \in SUBSET J /\ Roots(plan) \subseteq K
  BY <1>5 DEF Evaluates
<1>14. AllMean(K, v, m)
  BY <1>5, <1>6, <1>7, <1>8, <1>9, <1>10, <1>12, <1>13, RulesMean
<1>15. QED
  BY <1>4, <1>11, <1>13, <1>14 DEF RootsMean, AllMean

LEMMA RunningSignals ==
  ASSUME StoredWasParsed, PlanIsCompiled, TapeIsPrimed
  PROVE  SignalsFollowTheRules
<1> SUFFICES ASSUME Running, NEW leg \in Legs
             PROVE  /\ Fires(plan, tape, PlanLeg(leg).entry) = Certainly(spec.entry[leg])
                    /\ Fires(plan, tape, PlanLeg(leg).exit) = Certainly(spec.exit[leg])
  BY DEF SignalsFollowTheRules
<1>1. IsSpec(spec) /\ plan = Compile(spec) /\ Compile(spec) # Fault
  BY RunningSpecIs
<1>2. PICK m : IsMeaning(m) /\ \A root : Means(root) = m[root]
  BY <1>1, MeaningIs DEF IsSpec, IsTree
<1>3. PICK v : IsEval(plan, tape, v) /\ \A root : Eval(plan, tape, root) = v[root]
  <2>1. Rooted(plan)
    BY <1>1, PlanIsRooted
  <2>2. QED
    BY <2>1, EvalIs
<1>4. PICK left : left = Residual(spec.rules)
  OBVIOUS
<1>5. /\ \A i \in Reached(spec) : Remains(m, left, i)
      /\ \A r \in Roots(plan) : v[r] \in Verdicts /\ Meaning(v[r]) = m[r]
  BY <1>2, <1>3, <1>4, VerdictsMean DEF RootsMean
<1>6. PICK own : own = PlanLeg(leg) /\ own = IF leg = "long" THEN plan.long ELSE plan.short
  BY DEF PlanLeg
<1>7. /\ own.entry = spec.entry[leg]
      /\ own.exit = IF spec.exit[leg] = 0 THEN 0 ELSE left[spec.exit[leg]]
  <2>1. PICK b, p : b = Builder(spec) /\ p = plan
    OBVIOUS
  <2>2. QED
    BY <1>1, <1>4, <1>6, <2>1, LegsAre
<1>8. \A r \in {own.entry, own.exit} \ {0} : r \in Roots(plan)
  BY <1>6 DEF Roots, Legs
<1>9. ASSUME NEW r \in Roots(plan) PROVE (Eval(plan, tape, r) = "true") <=> (Means(r) = {TRUE})
  <2>1. PICK x \in Verdicts : x = v[r] /\ Meaning(x) = m[r]
    BY <1>5
  <2>2. Meaning(x) = {TRUE} <=> x = "true"
    BY MeaningOfVerdict
  <2>3. QED
    BY <1>2, <1>3, <2>1, <2>2
<1>10. Fires(plan, tape, own.entry) = Certainly(spec.entry[leg])
  BY <1>7, <1>8, <1>9 DEF Fires, Certainly
<1>11. Fires(plan, tape, own.exit) = Certainly(spec.exit[leg])
  <2>1. CASE spec.exit[leg] = 0
    BY <1>7, <2>1 DEF Fires, Certainly
  <2>2. CASE spec.exit[leg] # 0
    <3>1. PICK x : x = spec.exit[leg]
      OBVIOUS
    <3>2. x \in Reached(spec)
      <4>1. x \in Under(spec.rules, x)
        <5>1. PICK u : /\ IsUnder(spec.rules, u)
                       /\ \A root : Under(spec.rules, root) = IF root = 0 THEN {} ELSE u[root]
          BY <1>1, UnderIs DEF IsSpec, IsTree
        <5>2. x \in 1 .. Len(spec.rules)
          BY <1>1, <2>2, <3>1 DEF IsSpec
        <5>3. x \in u[x]
          BY <1>1, <5>1, <5>2, UnderUnfolds DEF IsSpec, IsTree
        <5>4. QED
          BY <2>2, <3>1, <5>1, <5>3
      <4>2. QED
        BY <3>1, <4>1 DEF Reached, Legs
    <3>3. Remains(m, left, x) /\ own.exit = left[x]
      BY <1>5, <1>7, <2>2, <3>1, <3>2
    <3>4. CASE left[x] = 0
      <4>1. Means(x) = {FALSE}
        BY <1>2, <3>3, <3>4 DEF Remains
      <4>2. {FALSE} # {TRUE}
        OBVIOUS
      <4>3. QED
        BY <3>1, <3>3, <3>4, <4>1, <4>2 DEF Fires, Certainly
    <3>5. CASE left[x] # 0
      <4>1. Means(left[x]) = Means(x)
        BY <1>2, <3>3, <3>5 DEF Remains
      <4>2. (Eval(plan, tape, left[x]) = "true") <=> (Means(x) = {TRUE})
        BY <1>8, <1>9, <3>3, <3>5, <4>1
      <4>3. QED
        BY <2>2, <3>1, <3>3, <3>5, <4>2 DEF Fires, Certainly
    <3>6. QED
      BY <3>4, <3>5
  <2>3. QED
    BY <2>1, <2>2
<1>12. QED
  BY <1>6, <1>10, <1>11

(* What is saved was parsed, what runs was compiled from it, and the tape   *)
(* of a run was primed with every bar that it has seen.                     *)
LEMMA RunsArePrimed == Spec => [](StoredWasParsed /\ PlanIsCompiled /\ TapeIsPrimed)
<1>1. Init => StoredWasParsed /\ PlanIsCompiled /\ TapeIsPrimed
  BY PlanStaysCompiled, TapeStartsPrimed
<1>2. StoredWasParsed /\ PlanIsCompiled /\ TapeIsPrimed /\ [Next]_<<strategyVars, sweepVars>>
        => StoredWasParsed' /\ PlanIsCompiled' /\ TapeIsPrimed'
  BY PlanStaysCompiled, TapeStaysPrimed
<1>3. QED
  BY <1>1, <1>2, PTL DEF Spec

(* SignalsFollowTheRules: on every bar each leg fires exactly when what its *)
(* author wrote certainly holds of the bars seen (Push and Eval in eval.go, *)
(* Compile and hoist in compile.go).                                        *)
THEOREM SignalsAreTheRules == Spec => []SignalsFollowTheRules
<1>1. StoredWasParsed /\ PlanIsCompiled /\ TapeIsPrimed => SignalsFollowTheRules
  BY RunningSignals
<1>2. QED
  BY <1>1, RunsArePrimed, PTL

-----------------------------------------------------------------------------
(* A tape that shows less gives no other verdict: it may only not know one. *)
Weaker(w, v) == w \in {"unknown", v}

LEMMA WeakerVerdict ==
  ASSUME NEW known \in BOOLEAN, NEW less \in BOOLEAN, less => known, NEW holds, NEW held, less => held = holds
  PROVE  /\ Weaker(Verdict(less, held), Verdict(known, holds))
         /\ less => Verdict(less, held) # "unknown"
<1>1. CASE less
  BY <1>1 DEF Weaker, Verdict
<1>2. CASE ~less
  BY <1>2 DEF Weaker, Verdict
<1>3. QED
  BY <1>1, <1>2

LEMMA WeakerTrend ==
  ASSUME NEW n \in Nat \ {0}, NEW op, NEW v, NEW w, \A k \in 0 .. n : w[k] \in {Unknown, v[k]}
  PROVE  /\ Weaker(TrendVerdict(n, op, w), TrendVerdict(n, op, v))
         /\ (\A k \in 0 .. n : w[k] # Unknown) => TrendVerdict(n, op, w) # "unknown"
<1>1. ASSUME NEW k \in 0 .. n - 1
      PROVE  /\ k \in 0 .. n /\ k + 1 \in 0 .. n
             /\ w[k] \in {Unknown, v[k]} /\ w[k + 1] \in {Unknown, v[k + 1]}
  <2>1. k \in 0 .. n /\ k + 1 \in 0 .. n
    OBVIOUS
  <2>2. QED
    BY <2>1
<1>2. ASSUME NEW k \in 0 .. n - 1, Met(w, k)
      PROVE  w[k] = v[k] /\ w[k + 1] = v[k + 1] /\ Met(v, k) /\ Went(op, w, k) = Went(op, v, k)
  <2>1. w[k] = v[k] /\ w[k + 1] = v[k + 1]
    BY <1>1, <1>2 DEF Met
  <2>2. QED
    BY <1>2, <2>1 DEF Met, Went
<1>3. PICK E, F : E = Ends(n, op, v) /\ F = Ends(n, op, w)
  OBVIOUS
<1>4. /\ \A k \in E : k \in 0 .. n - 1 /\ (~Met(v, k) \/ ~Went(op, v, k))
      /\ \A k \in F : k \in 0 .. n - 1 /\ (~Met(w, k) \/ ~Went(op, w, k))
      /\ \A k \in 0 .. n - 1 : (~Met(w, k) \/ ~Went(op, w, k)) => k \in F
      /\ \A k \in 0 .. n - 1 : (~Met(v, k) \/ ~Went(op, v, k)) => k \in E
  BY <1>3 DEF Ends
<1>5. E \subseteq F
  BY <1>2, <1>4
<1>6. CASE F = {}
  <2>1. E = {}
    BY <1>5, <1>6
  <2>2. QED
    BY <1>3, <1>6, <2>1 DEF TrendVerdict, Weaker
<1>7. CASE F # {}
  <2>1. PICK j : j = Min(F) /\ j \in F /\ \A k \in F : j <= k
    BY <1>3, <1>7, FirstEnd
  <2>2. TrendVerdict(n, op, w) = Verdict(Met(w, j), FALSE)
    BY <1>3, <1>7, <2>1 DEF TrendVerdict
  <2>3. j \in 0 .. n - 1
    BY <1>4, <2>1
  <2>4. CASE ~Met(w, j)
    <3>1. TrendVerdict(n, op, w) = "unknown"
      BY <2>2, <2>4 DEF Verdict
    <3>2. ~ \A k \in 0 .. n : w[k] # Unknown
      BY <1>1, <2>3, <2>4 DEF Met
    <3>3. QED
      BY <3>1, <3>2 DEF Weaker
  <2>5. CASE Met(w, j)
    <3>1. Met(v, j) /\ ~Went(op, v, j)
      BY <1>2, <1>4, <2>1, <2>3, <2>5
    <3>2. j \in E
      BY <1>4, <2>3, <3>1
    <3>3. PICK i : i = Min(E) /\ i \in E /\ \A k \in E : i <= k
      BY <1>3, <3>2, FirstEnd
    <3>4. i = j
      <4>1. i <= j /\ j <= i
        BY <1>5, <2>1, <3>2, <3>3
      <4>2. i \in Int /\ j \in Int
        BY <1>4, <2>3, <3>3
      <4>3. QED
        BY <4>1, <4>2
    <3>5. TrendVerdict(n, op, v) = Verdict(Met(v, j), FALSE)
      BY <1>3, <3>2, <3>3, <3>4 DEF TrendVerdict
    <3>6. TrendVerdict(n, op, v) = "false" /\ TrendVerdict(n, op, w) = "false"
      BY <2>2, <2>5, <3>1, <3>5 DEF Verdict
    <3>7. QED
      BY <3>6 DEF Weaker
  <2>6. QED
    BY <2>4, <2>5
<1>8. QED
  BY <1>6, <1>7

(* What the terms of a comparison show on a tape, for as far as it reads.   *)
LinesShown(p, t, s, node, rule) ==
  \A k \in Terms(node) : \A e \in 0 .. Extra(rule) :
    TermAt(p, s, rule.of[k], e) \in {Unknown, TermAt(p, t, rule.of[k], e)}

AllShown(p, s, node, rule) ==
  \A k \in Terms(node) : \A e \in 0 .. Extra(rule) : TermAt(p, s, rule.of[k], e) # Unknown

LEMMA WeakerComparison ==
  ASSUME NEW p, NEW t, NEW s, NEW inputs, NEW node, node.key \in Comparators, IsCompare(inputs, node),
         NEW b, NEW from, NEW rule, rule = Compare(b, from, node), LinesShown(p, t, s, node, rule)
  PROVE  /\ Weaker(EvalCompare(p, s, rule), EvalCompare(p, t, rule))
         /\ AllShown(p, s, node, rule) => EvalCompare(p, s, rule) # "unknown"
<1> DEFINE now(k) == TermAt(p, t, rule.of[k], 0)
           was(k) == TermAt(p, t, rule.of[k], 1)
           nowS(k) == TermAt(p, s, rule.of[k], 0)
           wasS(k) == TermAt(p, s, rule.of[k], 1)
<1>1. /\ rule.op = node.key /\ rule.bars = IF node.key \in Trends THEN node.of[2].value ELSE 1
      /\ Len(node.of) = IF node.key = "between" THEN 3 ELSE 2
      /\ Extra(rule) \in Nat
  BY CompareIs, DepthIs
<1>2. ASSUME NEW k \in Terms(node)
      PROVE  nowS(k) \in {Unknown, now(k)} /\ (AllShown(p, s, node, rule) => nowS(k) # Unknown)
  BY <1>1 DEF LinesShown, AllShown
<1>3. CASE node.key \in Plain
  <2>1. 1 \in Terms(node) /\ 2 \in Terms(node)
    BY <1>1, <1>3 DEF Terms, Trends, Plain
  <2>2. node.key \notin Crossings /\ node.key \notin Trends /\ node.key # "between"
    BY <1>3 DEF Plain, Trends, Crossings
  <2>3. PICK known \in BOOLEAN : known <=> Unknown \notin {now(1), now(2)}
    OBVIOUS
  <2>4. PICK less \in BOOLEAN : less <=> Unknown \notin {nowS(1), nowS(2)}
    OBVIOUS
  <2>5. /\ nowS(1) \in {Unknown, now(1)} /\ nowS(2) \in {Unknown, now(2)}
        /\ AllShown(p, s, node, rule) => less
    BY <1>2, <2>1, <2>4
  <2>6. PICK holds, held : /\ holds = Holds(node.key, now(1), now(2))
                           /\ held = Holds(node.key, nowS(1), nowS(2))
    OBVIOUS
  <2>7. EvalCompare(p, t, rule) = Verdict(known, holds) /\ EvalCompare(p, s, rule) = Verdict(less, held)
    BY <1>1, <2>2, <2>3, <2>4, <2>6 DEF EvalCompare
  <2> HIDE DEF now, nowS
  <2>8. (less => known) /\ (less => held = holds)
    BY <2>3, <2>4, <2>5, <2>6
  <2>9. QED
    BY <2>5, <2>7, <2>8, WeakerVerdict
<1>4. CASE node.key = "between"
  <2>1. 1 \in Terms(node) /\ 2 \in Terms(node) /\ 3 \in Terms(node)
    BY <1>1, <1>4 DEF Terms, Trends
  <2>2. node.key \notin Crossings /\ node.key \notin Trends
    BY <1>4 DEF Trends, Crossings
  <2>3. PICK known \in BOOLEAN : known <=> \A k \in 1 .. 3 : now(k) # Unknown
    OBVIOUS
  <2>4. PICK less \in BOOLEAN : less <=> \A k \in 1 .. 3 : nowS(k) # Unknown
    OBVIOUS
  <2>5. /\ \A k \in 1 .. 3 : nowS(k) \in {Unknown, now(k)}
        /\ AllShown(p, s, node, rule) => less
    <3>1. \A k \in 1 .. 3 : k \in Terms(node)
      BY <2>1
    <3>2. QED
      BY <1>2, <2>4, <3>1
  <2>6. PICK holds, held : /\ holds = (now(1) >= now(2) /\ now(1) <= now(3))
                           /\ held = (nowS(1) >= nowS(2) /\ nowS(1) <= nowS(3))
    OBVIOUS
  <2>7. EvalCompare(p, t, rule) = Verdict(known, holds) /\ EvalCompare(p, s, rule) = Verdict(less, held)
    <3>1. EvalCompare(p, t, rule) = Between(p, t, rule) /\ EvalCompare(p, s, rule) = Between(p, s, rule)
      BY <1>1, <1>4, <2>2 DEF EvalCompare
    <3>2. Between(p, t, rule) = Verdict(\A k \in 1 .. 3 : now(k) # Unknown, now(1) >= now(2) /\ now(1) <= now(3))
      BY DEF Between
    <3>3. Between(p, s, rule) =
            Verdict(\A k \in 1 .. 3 : nowS(k) # Unknown, nowS(1) >= nowS(2) /\ nowS(1) <= nowS(3))
      BY DEF Between
    <3> HIDE DEF now, nowS
    <3>4. /\ (\A k \in 1 .. 3 : now(k) # Unknown) = known
          /\ (\A k \in 1 .. 3 : nowS(k) # Unknown) = less
      BY <2>3, <2>4
    <3>5. QED
      BY <2>6, <3>1, <3>2, <3>3, <3>4
  <2> HIDE DEF now, nowS
  <2>8. less => \A k \in 1 .. 3 : nowS(k) = now(k)
    BY <2>4, <2>5
  <2>9. less => nowS(1) = now(1) /\ nowS(2) = now(2) /\ nowS(3) = now(3)
    BY <2>8
  <2>10. (less => known) /\ (less => held = holds)
    BY <2>3, <2>4, <2>6, <2>8, <2>9
  <2>11. QED
    BY <2>5, <2>7, <2>10, WeakerVerdict
<1>5. CASE node.key \in Crossings
  <2>1. 1 \in Terms(node) /\ 2 \in Terms(node) /\ node.key \notin Trends /\ Extra(rule) = 1
    BY <1>1, <1>5 DEF Terms, Trends, Crossings, Extra
  <2>2. ASSUME NEW k \in Terms(node)
        PROVE  wasS(k) \in {Unknown, was(k)} /\ (AllShown(p, s, node, rule) => wasS(k) # Unknown)
    BY <2>1 DEF LinesShown, AllShown
  <2>3. PICK known \in BOOLEAN : known <=> Unknown \notin {now(1), now(2), was(1), was(2)}
    OBVIOUS
  <2>4. PICK less \in BOOLEAN : less <=> Unknown \notin {nowS(1), nowS(2), wasS(1), wasS(2)}
    OBVIOUS
  <2>5. /\ nowS(1) \in {Unknown, now(1)} /\ nowS(2) \in {Unknown, now(2)}
        /\ wasS(1) \in {Unknown, was(1)} /\ wasS(2) \in {Unknown, was(2)}
        /\ AllShown(p, s, node, rule) => less
    BY <1>2, <2>1, <2>2, <2>4
  <2>6. PICK holds, held :
          /\ holds = IF node.key = "crosses_above" THEN now(1) > now(2) /\ was(1) <= was(2)
                                                   ELSE now(1) < now(2) /\ was(1) >= was(2)
          /\ held = IF node.key = "crosses_above" THEN nowS(1) > nowS(2) /\ wasS(1) <= wasS(2)
                                                  ELSE nowS(1) < nowS(2) /\ wasS(1) >= wasS(2)
    OBVIOUS
  <2>7. EvalCompare(p, t, rule) = Verdict(known, holds) /\ EvalCompare(p, s, rule) = Verdict(less, held)
    <3>1. EvalCompare(p, t, rule) = Cross(p, t, rule) /\ EvalCompare(p, s, rule) = Cross(p, s, rule)
      <4>1. rule.op \in Crossings /\ rule.op \notin Trends /\ rule.op # "between"
        BY <1>1, <1>5 DEF Crossings, Trends
      <4>2. QED
        BY <4>1 DEF EvalCompare
    <3>2. Cross(p, t, rule) = Verdict(Unknown \notin {now(1), now(2), was(1), was(2)}, holds)
      BY <1>1, <2>6 DEF Cross
    <3>3. Cross(p, s, rule) = Verdict(Unknown \notin {nowS(1), nowS(2), wasS(1), wasS(2)}, held)
      BY <1>1, <2>6 DEF Cross
    <3> HIDE DEF now, nowS, was, wasS
    <3>4. /\ (Unknown \notin {now(1), now(2), was(1), was(2)}) = known
          /\ (Unknown \notin {nowS(1), nowS(2), wasS(1), wasS(2)}) = less
      BY <2>3, <2>4
    <3>5. QED
      BY <3>1, <3>2, <3>3, <3>4
  <2> HIDE DEF now, nowS, was, wasS
  <2>8. (less => known) /\ (less => held = holds)
    BY <2>3, <2>4, <2>5, <2>6
  <2>9. QED
    BY <2>5, <2>7, <2>8, WeakerVerdict
<1>6. CASE node.key \in Trends
  <2>1. 1 \in Terms(node) /\ rule.bars = node.of[2].value
    BY <1>1, <1>6 DEF Terms
  <2>2. PICK n \in Nat \ {0} : n = rule.bars
    <3>1. node.of[2].value \in 1 .. MaxBack
      BY <1>6 DEF IsCompare
    <3>2. node.of[2].value \in Nat \ {0}
      BY <3>1, LanguageAssumption
    <3>3. QED
      BY <2>1, <3>2
  <2>3. Extra(rule) = n
    BY <1>1, <1>6, <2>2 DEF Extra, Trends, Crossings
  <2>4. PICK v, w : /\ v = [k \in 0 .. n |-> TermAt(p, t, rule.of[1], k)]
                    /\ w = [k \in 0 .. n |-> TermAt(p, s, rule.of[1], k)]
    OBVIOUS
  <2>5. /\ EvalCompare(p, t, rule) = TrendVerdict(n, rule.op, v)
        /\ EvalCompare(p, s, rule) = TrendVerdict(n, rule.op, w)
    BY <1>1, <1>6, <2>2, <2>4, TrendOnTape
  <2>6. \A k \in 0 .. n : w[k] \in {Unknown, v[k]} /\ (AllShown(p, s, node, rule) => w[k] # Unknown)
    BY <2>1, <2>3, <2>4 DEF LinesShown, AllShown
  <2>7. QED
    BY <2>5, <2>6, WeakerTrend
<1>7. QED
  BY <1>3, <1>4, <1>5, <1>6 DEF Comparators

-----------------------------------------------------------------------------
(* Over later bars alone, a plan's units have the same values as over all   *)
(* of them, once they have any; so a term shows the same or nothing.        *)
SameLater(p, late, val, short, from, u) ==
  \A o \in 1 .. 2 : \A k \in 1 .. Len(late) :
    k > Warmups(p)[u] => short[u][o][k] = val[u][o][k + from - 1]

LEMMA LaterIs ==
  ASSUME NEW bars \in Seq(AllBars), NEW from \in 1 .. Len(bars), NEW late, late = SubSeq(bars, from, Len(bars))
  PROVE  /\ late \in Seq(AllBars) /\ Len(late) = Len(bars) - from + 1
         /\ \A k \in 1 .. Len(late) : late[k] = bars[k + from - 1] /\ k + from - 1 \in 1 .. Len(bars)
<1>1. PICK n \in Nat : n = Len(bars)
  OBVIOUS
<1>2. Len(late) = n - from + 1
  BY <1>1
<1>3. ASSUME NEW k \in 1 .. Len(late) PROVE late[k] = bars[k + from - 1] /\ k + from - 1 \in 1 .. n
  <2>1. k + from - 1 \in 1 .. n /\ k \in 1 .. n - from + 1
    BY <1>1, <1>2
  <2>2. late[k] = bars[from + k - 1] /\ from + k - 1 = k + from - 1
    BY <1>1, <2>1
  <2>3. QED
    BY <2>1, <2>2
<1>4. late \in Seq(AllBars)
  BY <1>1
<1>5. QED
  BY <1>1, <1>2, <1>3, <1>4

LEMMA ValuesLater ==
  ASSUME NEW p, Chained(p.units, p.slots), NEW bars \in Seq(AllBars), NEW val, IsValues(p, bars, val),
         NEW from \in 1 .. Len(bars), NEW late, late = SubSeq(bars, from, Len(bars)),
         NEW short, IsValues(p, late, short)
  PROVE  \A u \in 1 .. Len(p.units) : SameLater(p, late, val, short, from, u)
<1>1. PICK n \in Nat : n = Len(p.units)
  BY UnitsAre
<1>0. late \in Seq(AllBars)
  BY LaterIs
<1>2. PICK m \in Nat : m = Len(late)
  <2>1. Len(late) \in Nat
    BY ONLY <1>0
  <2>2. QED
    BY <2>1
<1>3. /\ late \in Seq(AllBars)
      /\ \A k \in 1 .. m : late[k] = bars[k + from - 1] /\ k + from - 1 \in 1 .. Len(bars)
  BY <1>2, LaterIs
<1> DEFINE P == {u \in 1 .. n : SameLater(p, late, val, short, from, u)}
<1>4. ASSUME NEW u \in 1 .. n, \A f \in 1 .. u - 1 : f \in P PROVE u \in P
  <2>1. PICK span \in Nat \ {0} : span = Span(p.units[u].key)
    BY <1>1, UnitsAre
  <2>2. PICK start \in Nat : start = Start(p, u)
    BY <1>1, WarmupsAre
  <2>3. Warmups(p)[u] = span - 1 + start
    BY <1>1, <2>1, <2>2, WarmupsAre
  <2>4. ASSUME NEW i \in 1 .. m, i > start
        PROVE  FedAt(p, late, short, u, i) = FedAt(p, bars, val, u, i + from - 1)
    <3>1. CASE p.units[u].feed = 0
      BY <1>3, <3>1 DEF FedAt
    <3>2. CASE p.units[u].feed # 0
      <4>1. PICK s : s = p.slots[p.units[u].feed]
        OBVIOUS
      <4>2. s.unit \in 1 .. u - 1 /\ s.output \in 1 .. 2
        BY <1>1, <3>2, <4>1, UnitsAre
      <4>3. SameLater(p, late, val, short, from, s.unit)
        BY <1>4, <4>2
      <4>4. start = Warmups(p)[s.unit]
        BY <2>2, <3>2, <4>1 DEF Start
      <4>5. short[s.unit][s.output][i] = val[s.unit][s.output][i + from - 1]
        BY <1>2, <2>4, <4>2, <4>3, <4>4 DEF SameLater
      <4>6. QED
        BY <3>2, <4>1, <4>5 DEF FedAt
    <3>3. QED
      BY <3>1, <3>2
  <2>5. ASSUME NEW o \in 1 .. 2, NEW k \in 1 .. m, k > Warmups(p)[u]
        PROVE  short[u][o][k] = val[u][o][k + from - 1]
    <3>1. PICK l : l = k + from - 1 /\ l \in 1 .. Len(bars) /\ ~(k <= Warmups(p)[u]) /\ ~(l <= Warmups(p)[u])
      <4>1. k + from - 1 \in 1 .. Len(bars)
        BY <1>3
      <4>2. ~(k <= Warmups(p)[u]) /\ ~(k + from - 1 <= Warmups(p)[u])
        BY <2>3, <2>5
      <4>3. QED
        BY <4>1, <4>2
    <3>2. short[u][o][k] = ValueAt(p, late, short, u, o, k) /\ val[u][o][l] = ValueAt(p, bars, val, u, o, l)
      <4>1. short[u][o][k] = ValueAt(p, late, short, u, o, k)
        BY ONLY Chained(p.units, p.slots), IsValues(p, late, short), <1>3, u \in 1 .. n, <1>1, <1>2,
                o \in 1 .. 2, k \in 1 .. m, ValuesAreKnown
      <4>2. val[u][o][l] = ValueAt(p, bars, val, u, o, l)
        BY <1>1, <3>1, ValuesAreKnown
      <4>3. QED
        BY <4>1, <4>2
    <3>3. /\ ValueAt(p, late, short, u, o, k) = LineOf(p.units[u].key, o, LastFed(p, late, short, u, k, span))
          /\ ValueAt(p, bars, val, u, o, l) = LineOf(p.units[u].key, o, LastFed(p, bars, val, u, l, span))
      BY <2>1, <3>1 DEF ValueAt
    <3>4. LastFed(p, late, short, u, k, span) = LastFed(p, bars, val, u, l, span)
      <4>1. ASSUME NEW j \in 1 .. span
            PROVE  FedAt(p, late, short, u, k - span + j) = FedAt(p, bars, val, u, l - span + j)
        <5>1. k - span + j \in 1 .. m /\ k - span + j > start
          BY <2>3, <2>5
        <5>2. FedAt(p, late, short, u, k - span + j) = FedAt(p, bars, val, u, (k - span + j) + from - 1)
          BY <2>4, <5>1
        <5>3. (k - span + j) + from - 1 = l - span + j
          BY <3>1
        <5>4. QED
          BY <5>2, <5>3
      <4>2. QED
        BY <4>1 DEF LastFed
    <3>5. QED
      BY <3>1, <3>2, <3>3, <3>4
  <2>6. QED
    BY <1>2, <2>5 DEF SameLater
<1>5. \A u \in 1 .. n : u \in P
  <2> HIDE DEF P
  <2>1. QED
    BY <1>4, ClimbAll
<1>6. QED
  BY <1>1, <1>5

LEMMA TermLater ==
  ASSUME NEW p, Chained(p.units, p.slots), NEW bars \in Seq(AllBars), NEW val, IsValues(p, bars, val),
         NEW from \in 1 .. Len(bars), NEW late, late = SubSeq(bars, from, Len(bars)),
         NEW short, IsValues(p, late, short),
         NEW term, IsPlanTerm(p, term), NEW extra \in Nat
  PROVE  TermOver(p, late, short, term, extra) \in {Unknown, TermOver(p, bars, val, term, extra)}
<1>1. CASE term.kind = "literal"
  BY <1>1 DEF TermOver
<1>2. CASE term.kind # "literal"
  <2>1. PICK m \in Nat : m = Len(late) /\ Len(bars) = m + from - 1
    BY LaterIs
  <2>2. PICK back \in Nat : back = term.back
    BY <1>2 DEF IsPlanTerm
  <2>3. PICK i \in Int : i = m - back - extra /\ Len(bars) - back - extra = i + from - 1
    <3>1. from \in Int /\ m - back - extra \in Int
      OBVIOUS
    <3>2. Len(bars) - back - extra = (m - back - extra) + from - 1
      BY <2>1, <3>1
    <3>3. QED
      BY <3>1, <3>2
  <2>4. CASE i < 1
    BY <1>2, <2>1, <2>2, <2>3, <2>4 DEF TermOver
  <2>5. CASE ~(i < 1)
    <3>1. i \in 1 .. m /\ ~(i + from - 1 < 1)
      BY <2>3, <2>5
    <3>2. CASE term.kind = "field"
      <4>1. late[i] = bars[i + from - 1]
        BY <2>1, <3>1, LaterIs
      <4>2. TermOver(p, late, short, term, extra) = late[i][term.field]
        BY <2>1, <2>2, <2>3, <2>5, <3>2 DEF TermOver
      <4>3. TermOver(p, bars, val, term, extra) = bars[i + from - 1][term.field]
        BY <2>2, <2>3, <3>1, <3>2 DEF TermOver
      <4>4. QED
        BY <4>1, <4>2, <4>3
    <3>3. CASE term.kind # "field"
      <4>1. term.slot \in 1 .. Len(p.slots)
        BY <1>2, <3>3 DEF IsPlanTerm
      <4>2. PICK s : s = p.slots[term.slot] /\ s.unit \in 1 .. Len(p.units) /\ s.output \in 1 .. 2
        BY <4>1, UnitsAre
      <4>3. TermOver(p, late, short, term, extra) = short[s.unit][s.output][i]
        BY <1>2, <2>1, <2>2, <2>3, <2>5, <3>3, <4>2 DEF TermOver, LineOfSlot
      <4>4. TermOver(p, bars, val, term, extra) = val[s.unit][s.output][i + from - 1]
        BY <1>2, <2>2, <2>3, <3>1, <3>3, <4>2 DEF TermOver, LineOfSlot
      <4>5. late \in Seq(AllBars)
        BY LaterIs
      <4>6. Known(p, late, short, s.unit) /\ SameLater(p, late, val, short, from, s.unit)
        BY <4>2, <4>5, ValuesAreKnown, ValuesLater
      <4>7. Warmups(p)[s.unit] \in Nat
        BY <4>2, WarmupsAre
      <4>8. CASE i <= Warmups(p)[s.unit]
        BY <2>1, <3>1, <4>2, <4>3, <4>6, <4>8 DEF Known
      <4>9. CASE i > Warmups(p)[s.unit]
        BY <2>1, <3>1, <4>2, <4>3, <4>4, <4>6, <4>9 DEF SameLater
      <4>10. QED
        BY <2>3, <4>7, <4>8, <4>9
    <3>4. QED
      BY <3>2, <3>3
  <2>6. QED
    BY <2>4, <2>5
<1>3. QED
  BY <1>1, <1>2

(* What lies within the depth of a plan is known after its warm-up.         *)
Covers(p, most) == \A u \in 1 .. Len(p.units) : Warmups(p)[u] <= most

Within(term, extra, depth) == term.kind # "literal" => term.back + extra <= depth

LEMMA TermIsKnown ==
  ASSUME NEW p, Chained(p.units, p.slots), NEW bars \in Seq(AllBars), NEW val, IsValues(p, bars, val),
         NEW most \in Nat, Covers(p, most),
         NEW depth \in Nat, Len(bars) > most + depth,
         NEW term, IsPlanTerm(p, term), NEW extra \in Nat, Within(term, extra, depth)
  PROVE  TermOver(p, bars, val, term, extra) # Unknown
<1>1. CASE term.kind = "literal"
  BY <1>1, StrategyAssumption DEF TermOver, IsPlanTerm
<1>2. CASE term.kind # "literal"
  <2>1. PICK m \in Nat : m = Len(bars)
    OBVIOUS
  <2>2. PICK back \in Nat : back = term.back
    BY <1>2 DEF IsPlanTerm
  <2>3. PICK i \in 1 .. m : i = m - back - extra /\ i > most /\ ~(i < 1)
    <3>1. m - back - extra \in 1 .. m /\ m - back - extra > most /\ ~(m - back - extra < 1)
      BY <1>2, <2>1, <2>2 DEF Within
    <3>2. QED
      BY <3>1
  <2>4. CASE term.kind = "field"
    <3>1. bars[i] \in AllBars
      BY <2>1
    <3>2. bars[i].close \in Nat /\ bars[i].open \in Nat /\ bars[i].volume \in Nat
      BY <3>1 DEF AllBars
    <3>3. term.field \in Fields
      BY <2>4 DEF IsPlanTerm
    <3>4. bars[i][term.field] \in Int
      BY <3>2, <3>3 DEF Fields, Sources
    <3>5. TermOver(p, bars, val, term, extra) = bars[i][term.field]
      BY <2>1, <2>2, <2>3, <2>4 DEF TermOver
    <3>6. QED
      BY <3>4, <3>5, StrategyAssumption
  <2>5. CASE term.kind # "field"
    <3>1. term.slot \in 1 .. Len(p.slots)
      BY <1>2, <2>5 DEF IsPlanTerm
    <3>2. PICK s : s = p.slots[term.slot] /\ s.unit \in 1 .. Len(p.units) /\ s.output \in 1 .. 2
      BY <3>1, UnitsAre
    <3>3. TermOver(p, bars, val, term, extra) = val[s.unit][s.output][i]
      BY <1>2, <2>1, <2>2, <2>3, <2>5, <3>2 DEF TermOver, LineOfSlot
    <3>4. Known(p, bars, val, s.unit)
      BY <3>2, ValuesAreKnown
    <3>5. i > Warmups(p)[s.unit]
      <4>1. Warmups(p)[s.unit] \in Nat /\ Warmups(p)[s.unit] <= most
        BY <3>2, WarmupsAre DEF Covers
      <4>2. QED
        BY <2>3, <4>1
    <3>6. val[s.unit][s.output][i] \in Int
      BY <2>1, <3>2, <3>4, <3>5 DEF Known
    <3>7. QED
      BY <3>3, <3>6, StrategyAssumption
  <2>6. QED
    BY <2>4, <2>5
<1>3. QED
  BY <1>1, <1>2

-----------------------------------------------------------------------------
(* What joins weaker verdicts is weaker, and known if they are.             *)
AllWeaker(K, w, v) == \A i \in K : Weaker(w[i], v[i])
AllKnown(K, w) == \A i \in K : w[i] # "unknown"
ValuesOn(K, v) == {v[k] : k \in K}

LEMMA WeakerCombination ==
  ASSUME NEW op, NEW I, NEW v, NEW w, AllWeaker(I, w, v),
         NEW V, V = ValuesOn(I, v), NEW W, W = ValuesOn(I, w)
  PROVE  /\ Weaker(Combine(op, W), Combine(op, V))
         /\ AllKnown(I, w) => Combine(op, W) # "unknown"
<1>1. \A x \in W : x = "unknown" \/ x \in V
  BY DEF Weaker, AllWeaker, ValuesOn
<1>2. ("unknown" \notin W) => W = V
  <2>1. ASSUME "unknown" \notin W PROVE \A k \in I : w[k] = v[k]
    BY <2>1 DEF Weaker, AllWeaker, ValuesOn
  <2>2. QED
    BY <2>1 DEF ValuesOn
<1>3. AllKnown(I, w) => "unknown" \notin W
  BY DEF AllKnown, ValuesOn
<1>4. ("unknown" \notin W) => Combine(op, W) # "unknown"
  BY DEF Combine
<1>5. CASE "unknown" \notin W
  BY <1>2, <1>3, <1>4, <1>5 DEF Weaker
<1>6. CASE "unknown" \in W
  <2>1. /\ "false" \in W => "false" \in V
        /\ "true" \in W => "true" \in V
    BY <1>1
  <2>2. Weaker(Combine(op, W), Combine(op, V))
    BY <1>6, <2>1 DEF Weaker, Combine
  <2>3. QED
    BY <1>3, <1>6, <2>2
<1>7. QED
  BY <1>5, <1>6

(* A part of a plan that is closed under what its rules join.               *)
JoinsIn(p, b, K) ==
  /\ K \subseteq 1 .. Len(p.rules)
  /\ \A i \in K : IF p.rules[i].op \in Comparators THEN Compared(p, b, spec.rules[i], p.rules[i])
                  ELSE ToSet(p.rules[i].of) \subseteq K

LEMMA PlanJoins ==
  ASSUME IsSpec(spec), NEW p, p = Compile(spec), p # Fault, NEW b, b = Builder(spec)
  PROVE  \E K : JoinsIn(p, b, K) /\ Roots(p) \subseteq K
<1>1. PICK h : h = HoistedRules(spec)
  OBVIOUS
<1>2. PICK K : K = Kept(h, p)
  OBVIOUS
<1>3. CompiledIn(p, b, h, K) /\ \E J : Evaluates(p, b, h, J, K)
  BY <1>1, <1>2, PlanIsCompiledIn, PlanEvaluates
<1>4. Roots(p) \subseteq K
  BY <1>3 DEF Evaluates
<1>5. PICK exits : h = Hoisted(spec.rules, exits)
  BY <1>1 DEF HoistedRules
<1>6. p.rules = Rules(b, spec, h) /\ Len(p.rules) = Len(spec.rules) /\ IsTree(spec.rules)
  BY <1>1, PlanIs, PlanIsRooted DEF IsSpec
<1>7. ASSUME NEW i \in K
      PROVE  IF p.rules[i].op \in Comparators THEN Compared(p, b, spec.rules[i], p.rules[i])
             ELSE ToSet(p.rules[i].of) \subseteq K
  <2>1. PICK key : key = spec.rules[i].key /\ key \in Comparators \cup Combinators
    BY <1>3 DEF CompiledIn
  <2>2. PICK left : left = Residual(spec.rules)
    OBVIOUS
  <2>3. HoistedTo(p, b, h, left, i)
    BY <1>3, <1>5, <1>6, <2>2, HoistedNode DEF CompiledIn
  <2>4. CASE key \in Comparators
    <3>1. Compared(p, b, spec.rules[i], p.rules[i])
      BY <1>3, <2>1, <2>4 DEF CompiledIn
    <3>2. p.rules[i].op = key
      BY <2>1, <3>1, CompareIs DEF Compared
    <3>3. QED
      BY <2>4, <3>1, <3>2
  <2>5. CASE key \in Combinators
    <3>1. key \notin Comparators /\ key \notin Brackets
      BY <2>5 DEF Comparators, Plain, Crossings, Trends, Combinators, Brackets
    <3>2. h[i].key = key
      BY <2>1, <2>3 DEF HoistedTo
    <3>3. p.rules[i].op = key /\ p.rules[i].of = h[i].of
      BY <2>3, <3>1, <3>2 DEF HoistedTo
    <3>4. ToSet(h[i].of) = Children(h[i])
      BY <2>5, <3>2 DEF Children
    <3>5. Children(h[i]) \subseteq K
      BY <1>3 DEF CompiledIn
    <3>6. QED
      BY <3>1, <3>3, <3>4, <3>5
  <2>6. QED
    BY <2>1, <2>4, <2>5
<1>8. JoinsIn(p, b, K)
  BY <1>3, <1>6, <1>7 DEF JoinsIn, CompiledIn
<1>9. QED
  BY <1>4, <1>8

ComparesWeaker(p, K, s, t) ==
  \A i \in K : p.rules[i].op \in Comparators => Weaker(EvalCompare(p, s, p.rules[i]), EvalCompare(p, t, p.rules[i]))
ComparesKnown(p, K, s) ==
  \A i \in K : p.rules[i].op \in Comparators => EvalCompare(p, s, p.rules[i]) # "unknown"

LEMMA WeakerRules ==
  ASSUME NEW p, Rooted(p), NEW b, NEW K, JoinsIn(p, b, K),
         NEW t, NEW v, IsEval(p, t, v), NEW s, NEW w, IsEval(p, s, w), ComparesWeaker(p, K, s, t)
  PROVE  AllWeaker(K, w, v) /\ (ComparesKnown(p, K, s) => AllKnown(K, w))
<1>1. PICK n \in Nat : n = Len(p.rules) /\ DOMAIN p.rules = 1 .. n
  BY DEF Rooted
<1>2. \A i \in 1 .. n : v[i] = Evaluated(p, t, v, i) /\ w[i] = Evaluated(p, s, w, i)
  BY <1>1 DEF IsEval
<1>3. /\ K \subseteq 1 .. n
      /\ \A i \in K : p.rules[i].op \notin Comparators =>
           ToSet(p.rules[i].of) \subseteq K /\ ToSet(p.rules[i].of) \subseteq 1 .. i - 1
  BY <1>1 DEF JoinsIn, Rooted
<1> DEFINE Good(i) == Weaker(w[i], v[i]) /\ (ComparesKnown(p, K, s) => w[i] # "unknown")
           P == {i \in 1 .. n : i \in K => Good(i)}
<1>4. ASSUME NEW i \in 1 .. n, \A k \in 1 .. i - 1 : k \in P PROVE i \in P
  <2> SUFFICES ASSUME i \in K PROVE Good(i)
    OBVIOUS
  <2>1. CASE p.rules[i].op \in Comparators
    <3>1. v[i] = EvalCompare(p, t, p.rules[i]) /\ w[i] = EvalCompare(p, s, p.rules[i])
      BY <1>2, <2>1 DEF Evaluated
    <3>2. Weaker(w[i], v[i])
      BY <2>1, <3>1 DEF ComparesWeaker
    <3>3. ComparesKnown(p, K, s) => w[i] # "unknown"
      BY <2>1, <3>1 DEF ComparesKnown
    <3>4. QED
      BY <3>2, <3>3
  <2>2. CASE p.rules[i].op \notin Comparators
    <3>1. PICK I : I = ToSet(p.rules[i].of)
      OBVIOUS
    <3>2. PICK op : op = p.rules[i].op
      OBVIOUS
    <3>3. PICK V, W : V = ValuesOn(I, v) /\ W = ValuesOn(I, w)
      OBVIOUS
    <3>4. v[i] = Combine(op, V) /\ w[i] = Combine(op, W)
      BY <1>2, <2>2, <3>1, <3>2, <3>3 DEF Evaluated, ValuesOn
    <3>5. \A k \in I : Good(k)
      BY <1>3, <1>4, <2>2, <3>1
    <3>6. AllWeaker(I, w, v)
      BY <3>5 DEF AllWeaker
    <3>7. ComparesKnown(p, K, s) => AllKnown(I, w)
      BY <3>5 DEF AllKnown
    <3>8. Weaker(Combine(op, W), Combine(op, V)) /\ (AllKnown(I, w) => Combine(op, W) # "unknown")
      BY <3>3, <3>6, WeakerCombination
    <3>9. QED
      BY <3>4, <3>7, <3>8
  <2>3. QED
    BY <2>1, <2>2
<1>5. \A i \in 1 .. n : i \in P
  <2> HIDE DEF P
  <2>1. QED
    BY <1>4, ClimbAll
<1>6. \A i \in K : Good(i)
  BY <1>3, <1>5
<1>7. QED
  BY <1>6 DEF AllWeaker, AllKnown

-----------------------------------------------------------------------------
LEMMA TermOverTape ==
  ASSUME NEW p, IsPlan(p), NEW bars \in Seq(AllBars), NEW val, NEW t, IsTape(p, t, bars, val, Len(bars)),
         NEW term, IsPlanTerm(p, term), NEW extra \in Nat, Within(term, extra, p.depth)
  PROVE  TermAt(p, t, term, extra) = TermOver(p, bars, val, term, extra)
  BY TermOnTape DEF Within

(* A tape that was primed late.                                             *)
LEMMA ShownLater ==
  ASSUME NEW p, NEW b, NEW t, NEW val, Reading(p, b, t, val),
         NEW node, NEW rule, Compared(p, b, node, rule),
         NEW from \in 1 .. Len(seen), NEW late, late = SubSeq(seen, from, Len(seen)),
         NEW short, IsValues(p, late, short), NEW s, IsTape(p, s, late, short, Len(late))
  PROVE  /\ LinesShown(p, t, s, node, rule)
         /\ \A most \in Nat : (Covers(p, most) /\ Len(late) > most + p.depth) => AllShown(p, s, node, rule)
<1>1. /\ IsPlan(p) /\ seen \in Seq(AllBars) /\ IsValues(p, seen, val) /\ IsTape(p, t, seen, val, Len(seen))
      /\ Chained(p.units, p.slots) /\ p.depth \in Nat
  BY DEF Reading, IsPlan
<1>2. PICK bars \in Seq(AllBars) : bars = seen
  BY <1>1
<1>3. late \in Seq(AllBars)
  BY <1>2, LaterIs
<1>4. node.key \in Comparators /\ IsCompare(spec.inputs, node) /\ rule = Compare(b, spec, node)
      /\ Depth(rule) <= p.depth
  BY DEF Compared
<1>5. Extra(rule) \in Nat /\ Depth(rule) \in Nat
  BY <1>4, DepthIs
<1>6. ASSUME NEW k \in Terms(node), NEW e \in 0 .. Extra(rule)
      PROVE  /\ IsPlanTerm(p, rule.of[k]) /\ e \in Nat
             /\ Within(rule.of[k], e, p.depth)
             /\ TermAt(p, t, rule.of[k], e) = TermOver(p, bars, val, rule.of[k], e)
             /\ TermAt(p, s, rule.of[k], e) = TermOver(p, late, short, rule.of[k], e)
  <2>1. PICK term : term = rule.of[k]
    OBVIOUS
  <2>2. e \in Nat /\ e <= Extra(rule)
    BY <1>5
  <2>3. IsPlanTerm(p, term)
    BY <2>1, <2>2, TermMeans
  <2>4. term.kind # "literal" => term.back \in Nat /\ term.back + Extra(rule) <= Depth(rule)
    BY <1>4, <2>1, DepthIs
  <2>5. Within(term, e, p.depth)
    BY <1>1, <1>4, <1>5, <2>2, <2>4 DEF Within
  <2>6. TermAt(p, t, term, e) = TermOver(p, bars, val, term, e)
    <3>1. IsTape(p, t, bars, val, Len(bars))
      BY <1>1, <1>2
    <3>2. QED
      BY <1>1, <1>2, <2>2, <2>3, <2>5, <3>1, TermOverTape
  <2>7. TermAt(p, s, term, e) = TermOver(p, late, short, term, e)
    <3>1. IsPlan(p) /\ IsTape(p, s, late, short, Len(late))
      BY <1>1
    <3>2. QED
      BY ONLY <1>3, <2>2, <2>3, <2>5, <3>1, TermOverTape
  <2>8. QED
    BY <2>1, <2>2, <2>3, <2>5, <2>6, <2>7
<1>7. LinesShown(p, t, s, node, rule)
  <2>1. ASSUME NEW k \in Terms(node), NEW e \in 0 .. Extra(rule)
        PROVE  TermAt(p, s, rule.of[k], e) \in {Unknown, TermAt(p, t, rule.of[k], e)}
    <3>1. TermOver(p, late, short, rule.of[k], e) \in {Unknown, TermOver(p, bars, val, rule.of[k], e)}
      BY <1>1, <1>2, <1>6, TermLater
    <3>2. QED
      BY <1>6, <3>1
  <2>2. QED
    BY <2>1 DEF LinesShown
<1>8. ASSUME NEW most \in Nat, Covers(p, most), Len(late) > most + p.depth
      PROVE  AllShown(p, s, node, rule)
  <2>1. ASSUME NEW k \in Terms(node), NEW e \in 0 .. Extra(rule) PROVE TermAt(p, s, rule.of[k], e) # Unknown
    <3>1. TermOver(p, late, short, rule.of[k], e) # Unknown
      <4>1. Chained(p.units, p.slots) /\ p.depth \in Nat /\ IsValues(p, late, short)
        BY <1>1
      <4>2. QED
        BY ONLY most \in Nat, <1>3, <1>6, <1>8, <4>1, k \in Terms(node), e \in 0 .. Extra(rule), TermIsKnown
    <3>2. QED
      BY <1>6, <3>1
  <2>2. QED
    BY <2>1 DEF AllShown
<1>9. QED
  BY <1>7, <1>8

(* The warm-up of a plan is the longest of its units', and its depth.       *)
LEMMA WarmupIs ==
  ASSUME NEW p, IsPlan(p), NEW b, p.units = b.units, p.slots = b.slots, p.warmup = Measure(b, p.depth).warmup
  PROVE  \E most \in Nat : p.warmup = most + p.depth /\ Covers(p, most)
<1>1. PICK n \in Nat : n = Len(p.units) /\ DOMAIN p.units = 1 .. n
  BY UnitsAre DEF IsPlan
<1>2. Chained(b.units, b.slots) /\ Len(b.units) = n /\ DOMAIN b.units = 1 .. n
  BY <1>1 DEF IsPlan
<1>3. /\ Warmups(p) \in [1 .. n -> Nat] /\ Warmups(b) \in [1 .. n -> Nat]
      /\ \A u \in 1 .. n : /\ Warmups(p)[u] = Span(p.units[u].key) - 1 + Start(p, u)
                           /\ Warmups(b)[u] = Span(p.units[u].key) - 1 + Start(b, u)
  <2>1. /\ Warmups(p) \in [1 .. n -> Nat]
        /\ \A u \in 1 .. n : Warmups(p)[u] = Span(p.units[u].key) - 1 + Start(p, u)
    BY <1>1, WarmupsAre DEF IsPlan
  <2>2. /\ Warmups(b) \in [1 .. n -> Nat]
        /\ \A u \in 1 .. n : Warmups(b)[u] = Span(b.units[u].key) - 1 + Start(b, u)
    BY <1>2, WarmupsAre
  <2>3. QED
    BY <2>1, <2>2
<1> DEFINE P == {u \in 1 .. n : Warmups(b)[u] = Warmups(p)[u]}
<1>4. ASSUME NEW u \in 1 .. n, \A f \in 1 .. u - 1 : f \in P PROVE u \in P
  <2>1. p.units[u].feed # 0 => p.slots[p.units[u].feed].unit \in 1 .. u - 1
    BY <1>1, UnitsAre DEF IsPlan
  <2>2. Start(b, u) = Start(p, u)
    BY <1>4, <2>1 DEF Start
  <2>3. QED
    BY <1>3, <2>2
<1>5. \A u \in 1 .. n : Warmups(b)[u] = Warmups(p)[u]
  <2>1. \A u \in 1 .. n : u \in P
    <3> HIDE DEF P
    <3>1. QED
      BY <1>4, ClimbAll
  <2>2. QED
    BY <2>1
<1>6. PICK R : R = {Warmups(b)[u] : u \in 1 .. n}
  OBVIOUS
<1>7. PICK S : S = {0} \cup R
  OBVIOUS
<1>8. IsFiniteSet(S) /\ S \in SUBSET Nat /\ S # {}
  <2>1. IsFiniteSet(1 .. n)
    BY FS_Interval
  <2>2. PICK f : f = [u \in 1 .. n |-> Warmups(b)[u]]
    OBVIOUS
  <2>3. f \in Surjection(1 .. n, R)
    BY <1>6, <2>2 DEF Surjection
  <2>4. IsFiniteSet(R)
    BY <2>1, <2>3, FS_Surjection
  <2>5. IsFiniteSet(S)
    BY <1>7, <2>4, FS_AddElement
  <2>6. QED
    BY <1>3, <1>6, <1>7, <2>5
<1>9. PICK most : most = Max(S)
  OBVIOUS
<1>10. most \in S /\ \A y \in S : y <= most
  <2>1. S \in SUBSET Int
    BY <1>8
  <2>2. QED
    BY <1>8, <1>9, <2>1, MaxOfFinite
<1>11. most \in Nat
  BY <1>8, <1>10
<1>12. p.warmup = most + p.depth
  BY <1>2, <1>6, <1>7, <1>9 DEF Measure
<1>13. \A u \in 1 .. n : Warmups(p)[u] <= most
  BY <1>5, <1>6, <1>7, <1>10
<1>14. QED
  BY <1>1, <1>11, <1>12, <1>13 DEF Covers

LEMMA PrimedFrom ==
  ASSUME StoredWasParsed, PlanIsCompiled, TapeIsPrimed, Running,
         NEW from \in 1 .. Len(seen), NEW late, late = SubSeq(seen, from, Len(seen)), NEW root \in Roots(plan)
  PROVE  /\ Weaker(Eval(plan, Prime(plan, late), root), Eval(plan, tape, root))
         /\ Len(late) > plan.warmup => Eval(plan, Prime(plan, late), root) # "unknown"
<1>1. IsSpec(spec) /\ plan = Compile(spec) /\ Compile(spec) # Fault
  BY RunningSpecIs
<1>2. PICK b : b = Builder(spec)
  OBVIOUS
<1>3. PICK p : p = plan /\ IsPlan(p) /\ Rooted(p)
  BY <1>1, CompiledIsPlan, PlanIsRooted
<1>4. PICK K : JoinsIn(p, b, K) /\ Roots(p) \subseteq K
  BY <1>1, <1>2, <1>3, PlanJoins
<1>5. PICK val : Reading(p, b, tape, val)
  BY <1>2, <1>3, RunningReads
<1>6. late \in Seq(AllBars)
  <2>1. PICK bars \in Seq(AllBars) : bars = seen
    BY DEF TapeIsPrimed
  <2>2. QED
    BY <2>1, LaterIs
<1>7. PICK short : IsValues(p, late, short)
  BY <1>3, <1>6, ValuesExist DEF IsPlan
<1>8. PICK s : s = Prime(p, late) /\ IsTape(p, s, late, short, Len(late))
  BY <1>3, <1>6, <1>7, PrimedIs
<1>9. PICK v : IsEval(p, tape, v) /\ \A r : Eval(p, tape, r) = v[r]
  BY <1>3, EvalIs
<1>10. PICK w : IsEval(p, s, w) /\ \A r : Eval(p, s, r) = w[r]
  BY <1>3, EvalIs
<1>11. PICK most \in Nat : p.warmup = most + p.depth /\ Covers(p, most)
  <2>1. p.units = b.units /\ p.slots = b.slots /\ p.warmup = Measure(b, p.depth).warmup
    BY <1>1, <1>2, <1>3, PlanIs
  <2>2. QED
    BY <1>3, <2>1, WarmupIs
<1>12. ASSUME NEW i \in K, p.rules[i].op \in Comparators
       PROVE  /\ Weaker(EvalCompare(p, s, p.rules[i]), EvalCompare(p, tape, p.rules[i]))
              /\ Len(late) > p.warmup => EvalCompare(p, s, p.rules[i]) # "unknown"
  <2>1. PICK node, rule : node = spec.rules[i] /\ rule = p.rules[i]
    OBVIOUS
  <2>2. Compared(p, b, node, rule)
    BY <1>4, <1>12, <2>1 DEF JoinsIn
  <2>3. /\ LinesShown(p, tape, s, node, rule)
        /\ Len(late) > p.warmup => AllShown(p, s, node, rule)
    BY <1>5, <1>7, <1>8, <1>11, <2>2, ShownLater
  <2>4. node.key \in Comparators /\ IsCompare(spec.inputs, node) /\ rule = Compare(b, spec, node)
    BY <2>2 DEF Compared
  <2>5. /\ Weaker(EvalCompare(p, s, rule), EvalCompare(p, tape, rule))
        /\ AllShown(p, s, node, rule) => EvalCompare(p, s, rule) # "unknown"
    BY <2>3, <2>4, WeakerComparison
  <2>6. QED
    BY <2>1, <2>3, <2>5
<1>13. ComparesWeaker(p, K, s, tape) /\ (Len(late) > p.warmup => ComparesKnown(p, K, s))
  BY <1>12 DEF ComparesWeaker, ComparesKnown
<1>14. AllWeaker(K, w, v) /\ (ComparesKnown(p, K, s) => AllKnown(K, w))
  BY <1>3, <1>4, <1>9, <1>10, <1>13, WeakerRules
<1>15. root \in K
  BY <1>3, <1>4
<1>16. Weaker(w[root], v[root]) /\ (Len(late) > p.warmup => w[root] # "unknown")
  BY <1>13, <1>14, <1>15 DEF AllWeaker, AllKnown
<1>17. QED
  BY <1>3, <1>8, <1>9, <1>10, <1>16

LEMMA PrimingSuffices ==
  ASSUME StoredWasParsed, PlanIsCompiled, TapeIsPrimed
  PROVE  PrimingIsEnough
<1> SUFFICES ASSUME Running, NEW leg \in Legs, NEW root \in {PlanLeg(leg).entry, PlanLeg(leg).exit} \ {0}
             PROVE  /\ Len(seen) > plan.warmup => Eval(plan, tape, root) # "unknown"
                    /\ \A from \in 1 .. Len(seen) :
                         LET primed == Eval(plan, Prime(plan, SubSeq(seen, from, Len(seen))), root)
                         IN  /\ primed \in {"unknown", Eval(plan, tape, root)}
                             /\ (plan.prime = plan.warmup /\ Len(seen) - from >= plan.prime) => primed # "unknown"
  BY DEF PrimingIsEnough
<1>1. root \in Roots(plan)
  BY DEF Roots, PlanLeg, Legs
<1>2. PICK bars \in Seq(AllBars) : bars = seen
  BY DEF TapeIsPrimed
<1>3. PICK n \in Nat : n = Len(seen)
  BY <1>2
<1>4. plan.warmup \in Nat
  <2>1. IsSpec(spec) /\ plan = Compile(spec) /\ Compile(spec) # Fault
    BY RunningSpecIs
  <2>2. PICK p, b : p = plan /\ b = Builder(spec)
    OBVIOUS
  <2>3. IsPlan(p) /\ p.units = b.units /\ p.slots = b.slots /\ p.warmup = Measure(b, p.depth).warmup
    BY <2>1, <2>2, CompiledIsPlan, PlanIs
  <2>4. PICK most \in Nat : p.warmup = most + p.depth
    BY <2>3, WarmupIs
  <2>5. p.depth \in Nat
    BY <2>3 DEF IsPlan
  <2>6. QED
    BY <2>2, <2>4, <2>5
<1>5. ASSUME NEW from \in 1 .. n, NEW late, late = SubSeq(seen, from, Len(seen))
      PROVE  /\ Len(late) = n - from + 1
             /\ Eval(plan, Prime(plan, late), root) \in {"unknown", Eval(plan, tape, root)}
             /\ Len(late) > plan.warmup => Eval(plan, Prime(plan, late), root) # "unknown"
  <2>1. Len(late) = n - from + 1
    BY <1>2, <1>3, <1>5, LaterIs
  <2>2. QED
    BY <1>1, <1>3, <1>5, <2>1, PrimedFrom DEF Weaker
<1>6. ASSUME n > plan.warmup PROVE Eval(plan, tape, root) # "unknown"
  <2>1. 1 \in 1 .. n
    BY <1>4, <1>6
  <2>2. SubSeq(seen, 1, Len(seen)) = seen
    BY <1>2
  <2>3. Eval(plan, Prime(plan, seen), root) # "unknown"
    BY <1>3, <1>5, <1>6, <2>1, <2>2
  <2>4. tape = Prime(plan, seen)
    BY DEF TapeIsPrimed
  <2>5. QED
    BY <2>3, <2>4
<1>7. ASSUME NEW from \in 1 .. Len(seen), NEW primed,
             primed = Eval(plan, Prime(plan, SubSeq(seen, from, Len(seen))), root)
      PROVE  /\ primed \in {"unknown", Eval(plan, tape, root)}
             /\ (plan.prime = plan.warmup /\ Len(seen) - from >= plan.prime) => primed # "unknown"
  <2>1. PICK late : late = SubSeq(seen, from, Len(seen))
    OBVIOUS
  <2>2. /\ Len(late) = n - from + 1
        /\ primed \in {"unknown", Eval(plan, tape, root)}
        /\ Len(late) > plan.warmup => primed # "unknown"
    BY <1>3, <1>5, <1>7, <2>1
  <2>3. (plan.prime = plan.warmup /\ n - from >= plan.prime) => Len(late) > plan.warmup
    BY <1>3, <1>4, <2>2
  <2>4. QED
    BY <1>3, <2>2, <2>3
<1>8. QED
  BY <1>3, <1>6, <1>7

(* The plan asks for enough bars: once as many have passed as its warm-up   *)
(* says, every entry and exit has a verdict; and a tape that is primed with *)
(* the last bars alone, from wherever they begin, gives the verdict that    *)
(* one primed with all of them gives, or does not know it yet.              *)
THEOREM PrimingSufficesForRules == Spec => []PrimingIsEnough
<1>1. (StoredWasParsed /\ PlanIsCompiled /\ TapeIsPrimed) => PrimingIsEnough
  BY PrimingSuffices
<1>2. QED
  BY <1>1, RunsArePrimed, PTL
===============================================================================
