------------------------------ MODULE SweepPlan ------------------------------
(***************************************************************************)
(* A sweep of a saved strategy: which requests createSweep accepts, the    *)
(* grid it expands (internal/sweep/axis.go), the folds it cuts a range into*)
(* (folds.go) and the runs it queues.  Everything is decided and written in*)
(* one request; WalkForward is about what happens to the runs.             *)
(*                                                                         *)
(* Numbers of a spec are counted in the unit an axis is rounded to, what an*)
(* axis asks for in tenths of it.  Days are counted, too.                  *)
(***************************************************************************)
EXTENDS Strategy

CONSTANTS
  Requests,    \* what users may ask for
  Listed,      \* the symbols there are
  MaxBasket, MaxAxes, MaxValues, MaxPoints, MaxRuns, MaxFolds, MinFoldDays,
  MinCapital, MaxCapital, DefaultCapital

(* A request as it was decoded.                                             *)
IsAxis(axis) ==
  /\ axis.path \in Seq(STRING) /\ axis.values \in Seq(Int)
  /\ {axis.from, axis.to, axis.step} \subseteq Int \cup {None}

IsRequest(r) ==
  /\ {"kind", "axes", "tickers", "capital", "first", "last", "lost", "in", "out"} \subseteq DOMAIN r
  /\ {r.first, r.last, r.lost, r.in, r.out} \subseteq Int
  /\ r.tickers \in Seq(STRING)
  /\ Len(r.axes) \in Nat /\ r.axes = [k \in 1 .. Len(r.axes) |-> r.axes[k]]
  /\ \A k \in 1 .. Len(r.axes) : IsAxis(r.axes[k])

ASSUME SweepAssumption ==
  /\ {MaxBasket, MaxAxes, MaxValues, MaxPoints, MaxRuns, MaxFolds, MinFoldDays} \subseteq Nat \ {0}
  /\ {MinCapital, MaxCapital, DefaultCapital} \subseteq Nat
  /\ \A r \in Requests : IsRequest(r)

VARIABLES
  sweep,       \* what was queued, Fault if it was refused, None before
  asked        \* the request

sweepVars == <<sweep, asked>>

-----------------------------------------------------------------------------
(* Axes.                                                                    *)

(* math.Round: halves go away from zero.                                    *)
Rounded(tenths) == IF tenths >= 0 THEN (tenths + 5) \div 10 ELSE -((5 - tenths) \div 10)

(* A set of numbers in order: at k stands the one that k are no larger than.*)
Sorted(values) ==
  [k \in 1 .. Cardinality(values) |-> CHOOSE v \in values : Cardinality({w \in values : w <= v}) = k]

(* Given one by one, or from, to and step; sorted, and equal ones once.     *)
ReadValues(axis) ==
  LET stepped == axis.values = <<>>
      count   == (axis.to - axis.from) \div axis.step + 1
      given   == IF stepped THEN [i \in 1 .. count |-> axis.from + (i - 1) * axis.step] ELSE axis.values
      values  == {Rounded(given[i]) : i \in DOMAIN given}
  IN  IF \/ stepped /\ (None \in {axis.from, axis.to, axis.step} \/ axis.step <= 0)
         \/ stepped /\ (axis.to < axis.from \/ count > MaxValues)
         \/ Cardinality(values) > MaxValues
      THEN Fault ELSE Sorted(values)

UsablePath(path) ==
  \/ Len(path) = 4 /\ path[1] = "inputs" /\ path[3] = "params"
  \/ path = <<"sizing", "value">>
  \/ Len(path) = 2 /\ path[1] = "costs"

ReadAxes(axes) ==
  LET read == [k \in DOMAIN axes |-> [path |-> axes[k].path, values |-> ReadValues(axes[k])]]
  IN  IF \/ Len(axes) \notin 1 .. MaxAxes
         \/ \E k \in DOMAIN axes : ~UsablePath(axes[k].path) \/ read[k].values = Fault
         \/ \E k, j \in DOMAIN axes : k # j /\ axes[k].path = axes[j].path
      THEN Fault ELSE read

(* The number a path leads to in a stored spec.                             *)
NumberAt(stored, path) ==
  CASE path[1] = "inputs" -> IF path[2] \in DOMAIN stored.inputs /\ path[4] = "period"
                             THEN stored.inputs[path[2]].period ELSE Fault
    [] path[1] = "costs"  -> IF path[2] \in DOMAIN stored.costs THEN stored.costs[path[2]] ELSE Fault
    [] OTHER -> stored.sizing.value

SetAt(stored, path, value) ==
  CASE path[1] = "inputs" -> [stored EXCEPT !.inputs[path[2]].period = value]
    [] path[1] = "costs"  -> [stored EXCEPT !.costs[path[2]] = value]
    [] OTHER -> [stored EXCEPT !.sizing.value = value]

(* One axis after the other.                                                *)
SetAll(stored, axes, values) ==
  LET set[k \in 0 .. Len(axes)] == IF k = 0 THEN stored ELSE SetAt(set[k - 1], axes[k].path, values[k])
  IN  set[Len(axes)]

(* The stored spec with other numbers, parsed like a new one.               *)
Apply(stored, axes, values) ==
  LET again(parsed) == IF parsed = Fault THEN Fault ELSE Encode(parsed)
  IN  IF \E k \in DOMAIN axes : NumberAt(stored, axes[k].path) = Fault THEN Fault
      ELSE again(Parse(SetAll(stored, axes, values)))

-----------------------------------------------------------------------------
(* The grid: the last axis turns fastest, and each axis that comes round    *)
(* turns the one before it.                                                 *)

(* Bug: an axis that comes round stays where it is.                         *)
AdvanceStuck(axes, cursor) ==
  LET last(k) == cursor[k] = Len(axes[k].values)
      turns(k) == \A j \in k + 1 .. Len(axes) : last(j)
  IN  [k \in DOMAIN axes |-> IF turns(k) /\ ~last(k) THEN cursor[k] + 1 ELSE cursor[k]]

Advance(axes, cursor) ==
  LET last(k) == cursor[k] = Len(axes[k].values)
      turns(k) == \A j \in k + 1 .. Len(axes) : last(j)
  IN  [k \in DOMAIN axes |-> IF ~turns(k) THEN cursor[k] ELSE IF last(k) THEN 1 ELSE cursor[k] + 1]

GridSize(axes) ==
  LET size[k \in 0 .. Len(axes)] == IF k = 0 THEN 1 ELSE size[k - 1] * Len(axes[k].values)
  IN  size[Len(axes)]

Cursors(axes) ==
  LET cursor[i \in 1 .. GridSize(axes)] ==
        IF i = 1 THEN [k \in DOMAIN axes |-> 1] ELSE Advance(axes, cursor[i - 1])
  IN  cursor

Grid(stored, axes) ==
  LET total == GridSize(axes)
      values(i) == [k \in DOMAIN axes |-> axes[k].values[Cursors(axes)[i][k]]]
      points == [i \in 1 .. total |->
                   [index |-> i, values |-> values(i), spec |-> Apply(stored, axes, values(i))]]
      whole(all) == IF \E i \in DOMAIN all : all[i].spec = Fault THEN Fault ELSE all
  IN  IF total > MaxPoints THEN Fault ELSE whole(points)

-----------------------------------------------------------------------------
(* Folds: a window of days to choose on, then one to test on; the next fold *)
(* starts one test later.                                                   *)

(* Bug: the test starts on the last day of the sample.                      *)
FoldTouching(first, i, in, out) ==
  LET inStart == first + i * out
  IN  [fold |-> i, inStart |-> inStart, inEnd |-> inStart + in - 1,
       outStart |-> inStart + in - 1, outEnd |-> inStart + in + out - 2]

Fold(first, i, in, out) ==
  LET inStart == first + i * out
  IN  [fold |-> i, inStart |-> inStart, inEnd |-> inStart + in - 1,
       outStart |-> inStart + in, outEnd |-> inStart + in + out - 1]

(* The range is measured in hours and one may be lost to the clock.         *)
Folds(r) ==
  LET span == (24 * (r.last - r.first) - r.lost) \div 24 + 1
      fits == {i \in 0 .. MaxFolds - 1 : Fold(r.first, i, r.in, r.out).outEnd <= r.last}
  IN  IF r.in < MinFoldDays \/ r.out < MinFoldDays \/ span < r.in + r.out \/ fits = {} THEN Fault
      ELSE [k \in 1 .. Cardinality(fits) |-> Fold(r.first, k - 1, r.in, r.out)]

(* Every fold runs the whole grid.                                          *)
ReadFolds(r, points) ==
  IF r.kind # "walk_forward" THEN <<>>
  ELSE IF Folds(r) = Fault THEN Fault
  ELSE IF Len(Folds(r)) * points > MaxRuns THEN Fault
  ELSE Folds(r)

-----------------------------------------------------------------------------
(* The request.                                                             *)

ReadKind(kind) == IF kind = None THEN "grid" ELSE IF kind \in {"grid", "walk_forward"} THEN kind ELSE Fault

(* Symbols once each, in the order they were named.                         *)
EachOnce(tickers) ==
  LET once[k \in 0 .. Len(tickers)] ==
        IF k = 0 THEN <<>>
        ELSE IF Contains(once[k - 1], tickers[k]) THEN once[k - 1] ELSE Append(once[k - 1], tickers[k])
  IN  once[Len(tickers)]

ReadBasket(tickers) ==
  IF Len(EachOnce(tickers)) \notin 1 .. MaxBasket \/ ~(ToSet(EachOnce(tickers)) \subseteq Listed)
  THEN Fault ELSE EachOnce(tickers)

ReadCapital(cents) ==
  IF cents = 0 THEN DefaultCapital ELSE IF cents \in MinCapital .. MaxCapital THEN cents ELSE Fault

(* The range, or the samples of its folds.                                  *)
Windows(r, folds) ==
  IF r.kind = "walk_forward"
  THEN [k \in 1 .. Len(folds) |-> [fold |-> folds[k].fold, phase |-> "in_sample",
                                  start |-> folds[k].inStart, end |-> folds[k].inEnd]]
  ELSE <<[fold |-> None, phase |-> None, start |-> r.first, end |-> r.last]>>

(* One run for each window and point, window by window, with the whole      *)
(* basket.                                                                  *)
ChildRuns(r, folds, points, basket, capital) ==
  LET windows == Windows(r, folds)
      child(w, p) == [fold |-> w.fold, phase |-> w.phase, start |-> w.start, end |-> w.end,
                      point |-> p.index, spec |-> p.spec, symbols |-> basket, capital |-> capital]
  IN  [i \in 1 .. Len(windows) * Len(points) |->
         child(windows[((i - 1) \div Len(points)) + 1], points[((i - 1) % Len(points)) + 1])]

(* What is written, in one transaction.                                     *)
QueueSweep(r, axes, folds, points, basket, capital) ==
  IF Fault \in {points, folds} THEN Fault
  ELSE [axes |-> axes, folds |-> folds, points |-> points,
        runs |-> ChildRuns(r, folds, points, basket, capital)]

(* The guards in the code's order; no grid is expanded for a bad request.   *)
PlanSweep(stored, r, axes, basket, capital) ==
  LET expanded(points) ==
        QueueSweep(r, axes, IF points = Fault THEN Fault ELSE ReadFolds(r, Len(points)),
                   points, basket, capital)
  IN  IF Fault \in {r.kind, axes, basket, capital} \/ r.last < r.first THEN Fault
      ELSE expanded(Grid(stored, axes))

CreateSweep(stored, request) ==
  PlanSweep(stored, [request EXCEPT !.kind = ReadKind(request.kind)], ReadAxes(request.axes),
            ReadBasket(request.tickers), ReadCapital(request.capital))

SweepInit == sweep = None /\ asked = None

RequestSweep(request) ==
  /\ spec \notin {None, Fault} /\ plan = None /\ sweep = None
  /\ asked' = request
  /\ sweep' = CreateSweep(Encode(spec), request)

(* A strategy is saved, and swept or run; SweepPlan ends where the sweep is *)
(* queued.                                                                  *)
Init == StrategyInit /\ SweepInit

Next ==
  \/ sweep = None /\ StrategyNext /\ UNCHANGED sweepVars
  \/ \E request \in Requests : RequestSweep(request) /\ UNCHANGED strategyVars

Spec == Init /\ [][Next]_<<strategyVars, sweepVars>>

-----------------------------------------------------------------------------
Queued == sweep \notin {None, Fault}

(* Every day from the first test to the last is tested by one fold, after   *)
(* the days that fold chose on and outside of them; no fold leaves the      *)
(* range, and none that would fit is left out but by the cap.               *)
FoldsTestEachDayOnce ==
  Queued /\ sweep.folds # <<>> =>
    LET folds  == ToSet(sweep.folds)
        days   == Min({f.outStart : f \in folds}) .. Max({f.outEnd : f \in folds})
    IN  /\ \A d \in days : Cardinality({f \in folds : d \in f.outStart .. f.outEnd}) = 1
        /\ \A f \in folds : /\ f.inEnd - f.inStart + 1 = asked.in /\ f.outEnd - f.outStart + 1 = asked.out
                            /\ (f.inStart .. f.inEnd) \cap days \subseteq
                                  UNION {g.outStart .. g.outEnd : g \in {g \in folds : g.fold < f.fold}}
                            /\ asked.first <= f.inStart /\ f.outEnd <= asked.last
        /\ Len(sweep.folds) < MaxFolds => Max(days) + asked.out > asked.last

(* In every fold, or over the whole range, each combination of values is run*)
(* once, over the whole basket: the saved spec, which the run can compile,  *)
(* with these numbers and no other changed.                                 *)
SweepsRunTheWholeGrid ==
  Queued =>
    LET axes  == sweep.axes
        base  == Encode(spec)
        grid  == {v \in [DOMAIN axes -> UNION {ToSet(axes[k].values) : k \in DOMAIN axes}] :
                    \A k \in DOMAIN axes : v[k] \in ToSet(axes[k].values)}
        folds == IF sweep.folds = <<>> THEN {None} ELSE {f.fold : f \in ToSet(sweep.folds)}
        numbers(stored) == [k \in DOMAIN axes |-> NumberAt(stored, axes[k].path)]
        restored(stored) == SetAll(stored, axes, numbers(base))
    IN  /\ \A fold \in folds : \A v \in grid :
             Cardinality({i \in DOMAIN sweep.runs : /\ sweep.runs[i].fold = fold
                                                    /\ numbers(sweep.runs[i].spec) = v}) = 1
        /\ Len(sweep.runs) = Cardinality(grid) * Cardinality(folds)
        /\ \A run \in ToSet(sweep.runs) :
             /\ restored(run.spec) = base /\ Compiles(Parse(run.spec))
             /\ \A t \in ToSet(asked.tickers) : Cardinality({i \in DOMAIN run.symbols : run.symbols[i] = t}) = 1
=============================================================================
