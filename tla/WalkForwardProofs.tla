-------------------------- MODULE WalkForwardProofs --------------------------
(* The walk-forward sweep's safety, for every plan, grid and number of      *)
(* promoters.                                                               *)
EXTENDS WalkForward, TLAPS

-----------------------------------------------------------------------------
(* The rows of a fold.                                                      *)
LEMMA RowFacts ==
  /\ NoRun \notin Runs
  /\ NoFold \notin Folds
  /\ NoPoint \notin Grid
  /\ InSample \cap Tests = {}
  /\ InSample \subseteq Runs /\ Tests \subseteq Runs
  /\ \A f \in Folds : FoldRuns(f) \subseteq InSample /\ FoldTests(f) \subseteq Tests
  /\ \A f \in Folds, p \in Grid : <<"in", f, p>> \in FoldRuns(f)
  /\ \A f \in Folds, w \in Promoters : <<"out", f, w>> \in FoldTests(f)
  /\ \A r \in InSample : r[2] \in Folds /\ r \in FoldRuns(r[2])
  /\ \A t \in Tests : t[2] \in Folds /\ t \in FoldTests(t[2])
  BY WalkForwardAssumption DEF Runs, InSample, Tests, FoldRuns, FoldTests

LEMMA BestType == \A scores : FirstBest(scores) \in Grid \cup {NoPoint}
  BY DEF FirstBest, Winners

(* No step changes the shape of a variable.                                 *)
LEMMA StepTypes == TypeOK /\ [Next]_vars => TypeOK'
<1> SUFFICES ASSUME TypeOK, [Next]_vars PROVE TypeOK'
  OBVIOUS
<1> USE RowFacts, WalkForwardAssumption
    DEF TypeOK, Goto, At, Advancing, Promoters, rowVars, stackVars, Table!Statuses, Table!Active, Table!Terminal,
        Table!Set
<1>1. ASSUME CreateSweep \/ DeleteSweep PROVE TypeOK'
  BY <1>1 DEF CreateSweep, DeleteSweep, Table!Submit, Table!Delete
<1>2. ASSUME NEW w \in Workers, NEW r \in Runs, Claim(w, r) PROVE TypeOK'
  BY <1>2 DEF Claim, Table!Take
<1>3. ASSUME NEW w \in Workers, Load(w) PROVE TypeOK'
  BY <1>3 DEF Load
<1>4. ASSUME NEW w \in Workers, Settle(w) PROVE TypeOK'
  BY <1>4 DEF Settle, Table!Settle
<1>5. ASSUME NEW w \in Workers, VerdictLost(w) PROVE TypeOK'
  BY <1>5 DEF VerdictLost, Fault
<1>6. ASSUME NEW j \in Janitors, TimerFires(j) PROVE TypeOK'
  BY <1>6 DEF TimerFires
<1>7. ASSUME NEW r \in Runs, Reclaim(r) PROVE TypeOK'
  BY <1>7 DEF Reclaim, Table!HandBack
<1>8. ASSUME NEW w \in Promoters, Look(w) PROVE TypeOK'
  BY <1>8 DEF Look
<1>9. ASSUME NEW w \in Promoters, NextFold(w) PROVE TypeOK'
  BY <1>9 DEF NextFold
<1>10. ASSUME NEW w \in Promoters, ReadSweep(w) PROVE TypeOK'
  BY <1>10 DEF ReadSweep, Leave
<1>11. ASSUME NEW w \in Promoters, Choose(w) PROVE TypeOK'
  BY <1>11, BestType DEF Choose, Leave, BestOf
<1>12. ASSUME NEW w \in Promoters, InsertTest(w) PROVE TypeOK'
  <2>1. status' \in [Runs -> Table!Statuses]
    BY <1>12 DEF InsertTest, Table!Submit
  <2>2. point' \in [Tests -> Grid \cup {NoPoint}]
    <3>1. CASE UNCHANGED point
      BY <3>1
    <3>2. CASE point' = [point EXCEPT ![<<"out", fold[w], w>>] = pick[w]]
      <4>1. pick[w] \in Grid \cup {NoPoint} /\ point \in [Tests -> Grid \cup {NoPoint}]
        OBVIOUS
      <4> HIDE DEF TypeOK
      <4>2. QED
        BY <3>2, <4>1
    <3>3. QED
      BY <1>12, <3>1, <3>2 DEF InsertTest
  <2>3. QED
    BY <1>12, <2>1, <2>2 DEF InsertTest, Leave
<1>13. ASSUME NEW w \in Promoters, InsertBasket(w) PROVE TypeOK'
  BY <1>13 DEF InsertBasket, Leave
<1>14. ASSUME NEW w \in Promoters, StatementFails(w) PROVE TypeOK'
  BY <1>14 DEF StatementFails, Fault, Leave, Advancing
<1>15. ASSUME NEW w \in Promoters, Vanish(w) PROVE TypeOK'
  BY <1>15 DEF Vanish, Fault
<1>16. ASSUME UNCHANGED vars PROVE TypeOK'
  BY <1>16 DEF vars
<1> HIDE DEF TypeOK
<1>17. QED
  BY <1>1, <1>2, <1>3, <1>4, <1>5, <1>6, <1>7, <1>8, <1>9, <1>10, <1>11, <1>12, <1>13, <1>14,
     <1>15, <1>16 DEF Next, Execute, Promote

(* Every variable keeps the shape the code gives it.                        *)
THEOREM WalkForwardTypes == Spec => []TypeOK
<1>1. Init => TypeOK
  BY RowFacts, WalkForwardAssumption DEF Init, TypeOK, Advancing, Table!Init, Table!Statuses
<1>2. QED
  BY <1>1, StepTypes, PTL DEF Spec

-----------------------------------------------------------------------------
(* The invariant.  A promoter acts on what it read several statements ago;  *)
(* what makes that safe is that a fold it has once seen settled can never   *)
(* become unsettled, so its scores, and the winner among them, are frozen   *)
(* for as long as the sweep is there.                                       *)

Over(f) == \A r \in FoldRuns(f) : status[r] \in {"done", "error", "gone"}

RowsMatchTheSweep ==
  /\ sweep = "new"   => \A r \in Runs : status[r] = "new"
  /\ sweep = "there" => /\ \A r \in Runs : status[r] # "gone"
                        /\ \A r \in InSample : status[r] # "new"
  /\ sweep = "gone"  => /\ \A r \in Runs : ~Exists(r)
                        /\ \A r \in InSample : status[r] = "gone"

WhatPromotersSaw ==
  \A w \in Promoters :
    /\ \A f \in todo[w] : sweep # "new" /\ Over(f)
    /\ \A f \in Folds : (pc[w] \in Advancing /\ fold[w] = f) => sweep # "new" /\ Over(f)
    /\ \A f \in Folds : (pc[w] = "insert" /\ fold[w] = f /\ sweep = "there") =>
                          pick[w] \in Winners(FoldScores(f))

TestsStand ==
  \A f \in Folds : \A t \in FoldTests(f) : Exists(t) =>
    Over(f) /\ point[t] \in Winners(FoldScores(f))

WalkForwardInv ==
  TypeOK /\ RowsMatchTheSweep /\ WhatPromotersSaw /\ TestsStand /\ FoldTestedAtMostOnce

(* No row comes to life by anything but createSweep and advance().          *)
NothingInserted ==
  /\ \A r \in Runs : status[r] = "new" => status'[r] = "new"
  /\ \A r \in Runs : status[r] = "gone" => status'[r] = "gone"
  /\ point' = point

(* Short of creating or deleting the sweep, a verdict and its score stay.   *)
LEMMA VerdictsStay ==
  ASSUME TypeOK, [Next]_vars, ~CreateSweep, ~DeleteSweep
  PROVE  /\ sweep' = sweep
         /\ \A r \in Runs : status[r] \in {"done", "error", "gone"} => status'[r] = status[r]
         /\ \A r \in Runs : status[r] # "gone" => status'[r] # "gone"
         /\ \A r \in Runs : status[r] # "new" => status'[r] # "new"
         /\ \A r \in InSample : status[r] = "done" => score'[r] = score[r]
         /\ (\A w \in Promoters : ~InsertTest(w)) => NothingInserted
<1> DEFINE Goal ==
         /\ sweep' = sweep
         /\ \A r \in Runs : status[r] \in {"done", "error", "gone"} => status'[r] = status[r]
         /\ \A r \in Runs : status[r] # "gone" => status'[r] # "gone"
         /\ \A r \in Runs : status[r] # "new" => status'[r] # "new"
         /\ \A r \in InSample : status[r] = "done" => score'[r] = score[r]
         /\ (\A w \in Promoters : ~InsertTest(w)) => NothingInserted
<1> USE RowFacts DEF TypeOK, Table!Statuses, Table!Active, Table!Terminal, Table!Set, rowVars
<1>1. ASSUME NEW w \in Workers, NEW r \in Runs, Claim(w, r) PROVE Goal
  BY <1>1 DEF Claim, Table!Take, NothingInserted
<1>2. ASSUME NEW w \in Workers, Load(w) PROVE Goal
  BY <1>2 DEF Load, NothingInserted
<1>3. ASSUME NEW w \in Workers, Settle(w) PROVE Goal
  <2>1. CASE UNCHANGED <<status, score>>
    BY <1>3, <2>1 DEF Settle, NothingInserted
  <2>2. ASSUME NEW v \in {"done", "error"}, Table!Settle(held[w], v) PROVE Goal
    <3>1. \A r \in Runs : status'[r] = IF r = held[w] THEN v ELSE status[r]
      BY <2>2 DEF Table!Settle
    <3>2. status[held[w]] = "running"
      BY <2>2 DEF Table!Settle
    <3>3. \A r \in InSample : r # held[w] => score'[r] = score[r]
      BY <1>3 DEF Settle
    <3>4. QED
      BY <1>3, <3>1, <3>2, <3>3 DEF Settle, NothingInserted
  <2>3. QED
    BY <1>3, <2>1, <2>2 DEF Settle
<1>4. ASSUME NEW r \in Runs, Reclaim(r) PROVE Goal
  BY <1>4 DEF Reclaim, Table!HandBack, NothingInserted
<1>5. ASSUME NEW w \in Promoters, InsertTest(w) PROVE Goal
  <2>1. UNCHANGED <<sweep, score>>
    BY <1>5 DEF InsertTest
  <2>2. CASE UNCHANGED status
    BY <1>5, <2>1, <2>2
  <2>3. ASSUME NEW r \in Runs, Table!Submit({r}) PROVE Goal
    <3>1. /\ status[r] = "new"
          /\ \A q \in Runs : status'[q] = IF q = r THEN "queued" ELSE status[q]
      BY <2>3 DEF Table!Submit
    <3> HIDE DEF TypeOK
    <3>2. \A q \in Runs : /\ status[q] \in {"done", "error", "gone"} => status'[q] = status[q]
                          /\ status[q] # "gone" => status'[q] # "gone"
                          /\ status[q] # "new" => status'[q] # "new"
      BY <3>1
    <3>3. QED
      BY <1>5, <2>1, <3>2
  <2>4. \/ UNCHANGED status
        \/ Table!Submit({<<"out", fold[w], w>>}) /\ At(w, "insert")
    BY <1>5 DEF InsertTest
  <2>5. At(w, "insert") => <<"out", fold[w], w>> \in Runs
    BY DEF At, Advancing
  <2> HIDE DEF TypeOK, Table!Submit, Table!Set, Goal
  <2>6. QED
    BY <2>2, <2>3, <2>4, <2>5
<1>6. ASSUME \/ \E w \in Workers : VerdictLost(w)
             \/ \E j \in Janitors : TimerFires(j)
             \/ \E w \in Promoters : \/ Look(w) \/ NextFold(w) \/ ReadSweep(w) \/ Choose(w)
                                     \/ InsertBasket(w) \/ StatementFails(w) \/ Vanish(w)
             \/ UNCHANGED vars
      PROVE  Goal
  <2>1. UNCHANGED <<status, sweep, score, point>>
    BY <1>6 DEF VerdictLost, TimerFires, Look, NextFold, ReadSweep, Choose, InsertBasket,
       StatementFails, Vanish, vars
  <2>2. QED
    BY <2>1 DEF NothingInserted
<1> HIDE DEF TypeOK, Goal
<1>7. Goal
  BY <1>1, <1>2, <1>3, <1>4, <1>5, <1>6 DEF Next, Execute, Promote
<1>8. QED
  BY <1>7 DEF Goal

(* So the scores of a settled fold are frozen.                              *)
LEMMA Frozen ==
  ASSUME TypeOK, [Next]_vars, ~CreateSweep, ~DeleteSweep, NEW f \in Folds, Over(f)
  PROVE  Over(f)' /\ FoldScores(f)' = FoldScores(f)
<1>1. \A r \in FoldRuns(f) : r \in Runs /\ r \in InSample
  BY RowFacts
<1>2. \A r \in FoldRuns(f) : status'[r] = status[r]
  BY <1>1, VerdictsStay DEF Over
<1>3. Over(f)'
  BY <1>2 DEF Over, FoldRuns
<1>4. \A p \in Grid : Scored(f, p)' = Scored(f, p)
                     /\ (Scored(f, p) => score'[<<"in", f, p>>] = score[<<"in", f, p>>])
  BY <1>1, <1>2, VerdictsStay, RowFacts DEF Scored
<1>5. QED
  BY <1>3, <1>4 DEF FoldScores

(* What a promoter that takes no part in a step saw still holds after it.   *)
SawStill(v) ==
  /\ \A f \in todo[v] : sweep' # "new" /\ Over(f)'
  /\ \A f \in Folds : (pc[v] \in Advancing /\ fold[v] = f) => sweep' # "new" /\ Over(f)'
  /\ \A f \in Folds : (pc[v] = "insert" /\ fold[v] = f /\ sweep' = "there") =>
                        pick[v] \in Winners(FoldScores(f)')

LEMMA SightsLast ==
  ASSUME WalkForwardInv, [Next]_vars, ~CreateSweep, ~DeleteSweep
  PROVE  \A v \in Promoters : SawStill(v)
<1> SUFFICES ASSUME NEW v \in Promoters PROVE SawStill(v)
  OBVIOUS
<1>1. TypeOK /\ WhatPromotersSaw
  BY DEF WalkForwardInv
<1>2. sweep' = sweep
  BY <1>1, VerdictsStay
<1>3. todo[v] \subseteq Folds /\ (pc[v] \in Advancing => fold[v] \in Folds)
  BY <1>1 DEF TypeOK
<1>4. \A f \in todo[v] : sweep # "new" /\ Over(f)'
  BY <1>1, <1>3, Frozen DEF WhatPromotersSaw
<1>5. \A f \in Folds : (pc[v] \in Advancing /\ fold[v] = f) =>
                        sweep # "new" /\ Over(f)' /\ FoldScores(f)' = FoldScores(f)
  BY <1>1, <1>3, Frozen DEF WhatPromotersSaw
<1>6. pc[v] = "insert" => pc[v] \in Advancing
  BY DEF Advancing
<1>7. QED
  BY <1>1, <1>2, <1>4, <1>5, <1>6 DEF SawStill, WhatPromotersSaw

(* A step that inserts nothing leaves the tests as they stood.              *)
LEMMA TestsStay ==
  ASSUME WalkForwardInv, [Next]_vars, ~CreateSweep, ~DeleteSweep, NothingInserted
  PROVE  RowsMatchTheSweep' /\ TestsStand' /\ FoldTestedAtMostOnce'
<1>1. TypeOK /\ RowsMatchTheSweep /\ TestsStand /\ FoldTestedAtMostOnce
  BY DEF WalkForwardInv
<1>2. RowsMatchTheSweep'
  BY <1>1, VerdictsStay, RowFacts DEF RowsMatchTheSweep, NothingInserted, Exists
<1>3. \A t \in Tests : Exists(t)' => Exists(t)
  BY RowFacts DEF NothingInserted, Exists
<1>4. \A f \in Folds : Over(f) => Over(f)' /\ FoldScores(f)' = FoldScores(f)
  BY <1>1, Frozen
<1>5. TestsStand'
  BY <1>1, <1>3, <1>4, RowFacts DEF TestsStand, NothingInserted, FoldTests
<1>6. FoldTestedAtMostOnce'
  BY <1>1, <1>3, RowFacts DEF FoldTestedAtMostOnce, FoldTests
<1>7. QED
  BY <1>2, <1>5, <1>6

LEMMA StepInv == WalkForwardInv /\ [Next]_vars => WalkForwardInv'
<1> SUFFICES ASSUME WalkForwardInv, [Next]_vars PROVE WalkForwardInv'
  OBVIOUS
<1>a. TypeOK /\ TypeOK' /\ RowsMatchTheSweep /\ WhatPromotersSaw /\ TestsStand /\ FoldTestedAtMostOnce
  BY StepTypes DEF WalkForwardInv
<1> DEFINE Rest == RowsMatchTheSweep /\ WhatPromotersSaw /\ TestsStand /\ FoldTestedAtMostOnce
<1>1. CASE CreateSweep
  <2>1. \A r \in Runs : status[r] = "new"
    BY <1>1, <1>a DEF CreateSweep, RowsMatchTheSweep
  <2>2. sweep' = "there" /\ \A r \in Runs : status'[r] = IF r \in InSample THEN "queued" ELSE "new"
    BY <1>1, <2>1 DEF CreateSweep, Table!Submit, Table!Set
  <2>3. RowsMatchTheSweep'
    BY <2>2, RowFacts DEF RowsMatchTheSweep
  <2>4. WhatPromotersSaw'
    BY <1>1, <1>a DEF CreateSweep, stackVars, WhatPromotersSaw, Advancing
  <2>5. \A t \in Tests : ~Exists(t)'
    BY <2>2, RowFacts DEF Exists
  <2>6. TestsStand' /\ FoldTestedAtMostOnce'
    BY <2>5, RowFacts DEF TestsStand, FoldTestedAtMostOnce, FoldTests
  <2>7. QED
    BY <1>a, <2>3, <2>4, <2>6 DEF WalkForwardInv
<1>2. CASE DeleteSweep
  <2>1. sweep = "there" /\ sweep' = "gone"
    BY <1>2 DEF DeleteSweep
  <2>2. \A r \in Runs : status'[r] = IF Exists(r) THEN "gone" ELSE status[r]
    BY <1>2 DEF DeleteSweep, Table!Delete, Table!Set
  <2>3. RowsMatchTheSweep'
    BY <1>a, <2>1, <2>2, RowFacts DEF RowsMatchTheSweep, Exists
  <2>4. \A f \in Folds : Over(f)'
    BY <1>a, <2>1, <2>2, RowFacts DEF Over, RowsMatchTheSweep, Exists, FoldRuns
  <2>5. WhatPromotersSaw'
    BY <1>2, <1>a, <2>1, <2>4 DEF DeleteSweep, stackVars, WhatPromotersSaw, TypeOK
  <2>6. \A t \in Tests : ~Exists(t)'
    BY <2>1, <2>3, RowFacts DEF RowsMatchTheSweep
  <2>7. TestsStand' /\ FoldTestedAtMostOnce'
    BY <2>6, RowFacts DEF TestsStand, FoldTestedAtMostOnce, FoldTests
  <2>8. QED
    BY <1>a, <2>3, <2>5, <2>7 DEF WalkForwardInv
<1>3. CASE ~CreateSweep /\ ~DeleteSweep
  <2>a. \A v \in Promoters : SawStill(v)
    BY <1>3, SightsLast
  <2>b. sweep' = sweep
    BY <1>3, <1>a, VerdictsStay
  <2>1. ASSUME NEW w \in Promoters, InsertTest(w) PROVE Rest'
    <3>1. WhatPromotersSaw'
      <4>1. CASE Leave(w)
        BY <4>1, <2>a, <2>b, <1>a DEF Leave, Goto, WhatPromotersSaw, SawStill, Advancing, TypeOK
      <4>2. CASE Goto(w, "basket") /\ UNCHANGED <<held, todo, fold, pick>>
        <5>1. pc[w] = "insert"
          BY <2>1 DEF InsertTest, At
        <5>2. QED
          BY <4>2, <5>1, <2>a, <2>b, <1>a DEF Goto, WhatPromotersSaw, SawStill, Advancing, TypeOK
      <4>3. QED
        BY <2>1, <4>1, <4>2 DEF InsertTest
    <3>2. CASE NothingInserted
      BY <1>3, <3>1, <3>2, TestsStay
    <3>3. CASE ~NothingInserted
      <4> DEFINE n == <<"out", fold[w], w>>
      <4>1. /\ pc[w] = "insert" /\ fold[w] \in Folds /\ sweep # "new" /\ Over(fold[w])
        BY <2>1, <1>a DEF InsertTest, At, WhatPromotersSaw, Advancing, TypeOK
      <4>2. n \in FoldTests(fold[w]) /\ n \in Tests
        BY <4>1, RowFacts
      <4>3. /\ sweep # "gone"
            /\ \A t \in FoldTests(fold[w]) : ~Exists(t)
            /\ \A r \in Runs : status'[r] = IF r = n THEN "queued" ELSE status[r]
            /\ point' = [point EXCEPT ![n] = pick[w]]
        BY <2>1, <3>3 DEF InsertTest, Table!Submit, Table!Set, NothingInserted
      <4>4. sweep = "there"
        BY <4>1, <4>3, <1>a DEF TypeOK
      <4>5. pick[w] \in Winners(FoldScores(fold[w]))
        BY <4>1, <4>4, <1>a DEF WhatPromotersSaw
      <4>6. \A f \in Folds : Over(f) => Over(f)' /\ FoldScores(f)' = FoldScores(f)
        BY <1>3, <1>a, Frozen
      <4> HIDE DEF n
      <4>7. RowsMatchTheSweep'
        BY <4>2, <4>3, <4>4, <2>b, <1>a, RowFacts DEF RowsMatchTheSweep
      <4>8. \A t \in Tests : t # n => (Exists(t)' <=> Exists(t)) /\ point'[t] = point[t]
        BY <4>2, <4>3, <1>a, RowFacts DEF Exists, TypeOK
      <4>9. point'[n] = pick[w]
        BY <4>2, <4>3, <1>a DEF TypeOK
      <4>10. n[2] = fold[w]
        BY DEF n
      <4>11. TestsStand'
        <5> SUFFICES ASSUME NEW f \in Folds, NEW t \in FoldTests(f), Exists(t)'
                     PROVE  Over(f)' /\ point'[t] \in Winners(FoldScores(f)')
          BY DEF TestsStand, FoldTests, Winners
        <5>1. CASE t = n
          <6>1. f = fold[w]
            BY <5>1, <4>10 DEF FoldTests
          <6>2. QED
            BY <5>1, <6>1, <4>1, <4>5, <4>6, <4>9
        <5>2. CASE t # n
          <6>1. t \in Tests /\ Exists(t)
            BY <5>2, <4>8, RowFacts
          <6>2. QED
            BY <5>2, <6>1, <4>6, <4>8, <1>a DEF TestsStand
        <5>3. QED
          BY <5>1, <5>2
      <4>12. FoldTestedAtMostOnce'
        <5> SUFFICES ASSUME NEW f \in Folds, NEW t \in FoldTests(f), NEW u \in FoldTests(f),
                            Exists(t)', Exists(u)'
                     PROVE  t = u
          BY DEF FoldTestedAtMostOnce, FoldTests
        <5>1. t \in Tests /\ u \in Tests /\ t[2] = f /\ u[2] = f
          BY RowFacts DEF FoldTests
        <5>2. CASE f = fold[w]
          BY <5>1, <5>2, <4>3, <4>8
        <5>3. CASE f # fold[w]
          BY <5>1, <5>3, <4>8, <4>10, <1>a DEF FoldTestedAtMostOnce
        <5>4. QED
          BY <5>2, <5>3
      <4>13. QED
        BY <3>1, <4>7, <4>11, <4>12
    <3>4. QED
      BY <3>2, <3>3
  <2>2. ASSUME \A w \in Promoters : ~InsertTest(w) PROVE Rest'
    <3>1. NothingInserted
      BY <1>3, <1>a, <2>2, VerdictsStay
    <3>2. RowsMatchTheSweep' /\ TestsStand' /\ FoldTestedAtMostOnce'
      BY <1>3, <3>1, TestsStay
    <3> USE <1>a, <2>a, <2>b DEF SawStill, Advancing, Goto
    <3>3. ASSUME NEW w \in Workers, NEW r \in Runs, Claim(w, r) PROVE WhatPromotersSaw'
      BY <3>3 DEF Claim, WhatPromotersSaw, TypeOK
    <3>4. ASSUME NEW w \in Workers, Load(w) \/ Settle(w) \/ VerdictLost(w) PROVE WhatPromotersSaw'
      BY <3>4 DEF Load, Settle, VerdictLost, WhatPromotersSaw, TypeOK
    <3>5. ASSUME NEW j \in Janitors, TimerFires(j) PROVE WhatPromotersSaw'
      BY <3>5 DEF TimerFires, WhatPromotersSaw, TypeOK
    <3>6. ASSUME NEW r \in Runs, Reclaim(r) PROVE WhatPromotersSaw'
      BY <3>6 DEF Reclaim, stackVars, WhatPromotersSaw
    <3>7. ASSUME NEW w \in Promoters, Look(w) PROVE WhatPromotersSaw'
      <4>1. \A f \in Folds : Ready(f) => sweep # "new" /\ Over(f)
        BY RowFacts DEF Ready, Over, RowsMatchTheSweep, Table!Active, Active, TypeOK, Table!Statuses,
           Table!Terminal
      <4>2. status' = status
        BY <3>7 DEF Look, rowVars
      <4>3. \A f \in Folds : Over(f)' <=> Over(f)
        BY <4>2 DEF Over, FoldRuns
      <4>4. QED
        BY <3>7, <4>1, <4>3 DEF Look, WhatPromotersSaw, TypeOK
    <3>8. ASSUME NEW w \in Promoters, NextFold(w) PROVE WhatPromotersSaw'
      BY <3>8 DEF NextFold, WhatPromotersSaw, TypeOK
    <3>9. ASSUME NEW w \in Promoters, ReadSweep(w) PROVE WhatPromotersSaw'
      BY <3>9 DEF ReadSweep, At, Leave, WhatPromotersSaw, TypeOK
    <3>10. ASSUME NEW w \in Promoters, Choose(w) PROVE WhatPromotersSaw'
      <4>1. status' = status /\ score' = score
        BY <3>10 DEF Choose, rowVars
      <4>2. FoldScores(fold[w])' = FoldScores(fold'[w])
        BY <4>1 DEF FoldScores, Scored
      <4>3. BestOf(fold[w]) # NoPoint => BestOf(fold[w]) \in Winners(FoldScores(fold[w]))
        BY DEF BestOf, FirstBest
      <4>4. QED
        BY <3>10, <4>1, <4>2, <4>3 DEF Choose, At, Leave, WhatPromotersSaw, TypeOK
    <3>11. ASSUME NEW w \in Promoters, InsertBasket(w) \/ StatementFails(w) PROVE WhatPromotersSaw'
      BY <3>11 DEF InsertBasket, StatementFails, Leave, WhatPromotersSaw, TypeOK
    <3>12. ASSUME NEW w \in Promoters, Vanish(w) PROVE WhatPromotersSaw'
      BY <3>12 DEF Vanish, WhatPromotersSaw, TypeOK
    <3>13. ASSUME UNCHANGED vars PROVE WhatPromotersSaw'
      BY <3>13 DEF vars, stackVars, WhatPromotersSaw
    <3> HIDE <1>a, <2>a, <2>b DEF SawStill, Advancing, Goto
    <3>14. WhatPromotersSaw'
      BY <1>3, <2>2, <3>3, <3>4, <3>5, <3>6, <3>7, <3>8, <3>9, <3>10, <3>11, <3>12, <3>13
         DEF Next, Execute, Promote
    <3>15. QED
      BY <3>2, <3>14
  <2>3. QED
    BY <1>a, <2>1, <2>2 DEF WalkForwardInv
<1>4. QED
  BY <1>1, <1>2, <1>3

LEMMA InitInv == Init => WalkForwardInv
<1> SUFFICES ASSUME Init PROVE WalkForwardInv
  OBVIOUS
<1>1. TypeOK
  BY RowFacts, WalkForwardAssumption DEF Init, TypeOK, Advancing, Table!Init, Table!Statuses
<1>2. RowsMatchTheSweep /\ WhatPromotersSaw
  BY DEF Init, Table!Init, RowsMatchTheSweep, WhatPromotersSaw, Advancing
<1>3. \A t \in Tests : ~Exists(t)
  BY RowFacts DEF Init, Table!Init, Exists
<1>4. QED
  BY <1>1, <1>2, <1>3, RowFacts DEF WalkForwardInv, TestsStand, FoldTestedAtMostOnce, FoldTests

THEOREM WalkForwardInvariant == Spec => []WalkForwardInv
  BY InitInv, StepInv, PTL DEF Spec

-----------------------------------------------------------------------------
(* However many promoters notice a fold, one run tests it.                  *)
THEOREM TestedOnce == Spec => []FoldTestedAtMostOnce
<1>1. WalkForwardInv => FoldTestedAtMostOnce
  BY DEF WalkForwardInv
<1>2. QED
  BY <1>1, WalkForwardInvariant, PTL

(* The tested point is the winner of the fold's in-sample runs, and stays   *)
(* so.                                                                      *)
THEOREM WinnersStand == Spec => []TestedPointIsTheWinner
<1>1. WalkForwardInv => TestedPointIsTheWinner
  BY DEF WalkForwardInv, TestsStand, TestedPointIsTheWinner
<1>2. QED
  BY <1>1, WalkForwardInvariant, PTL

(* No fold is tested before all of its in-sample runs have stopped.         *)
THEOREM TestsWait == Spec => []TestedFoldHasSettled
<1>1. WalkForwardInv => TestedFoldHasSettled
  BY RowFacts DEF WalkForwardInv, TypeOK, TestsStand, RowsMatchTheSweep, Over, Exists,
     TestedFoldHasSettled, Terminal, Table!Terminal
<1>2. QED
  BY <1>1, WalkForwardInvariant, PTL

(* A promote under way never resurrects a deleted sweep.                    *)
THEOREM DeletedSweeps == Spec => []DeletedSweepHasNoRuns
<1>1. WalkForwardInv => DeletedSweepHasNoRuns
  BY DEF WalkForwardInv, RowsMatchTheSweep, DeletedSweepHasNoRuns
<1>2. QED
  BY <1>1, WalkForwardInvariant, PTL

(* A test is left without its basket by a crash or a failed statement and   *)
(* by nothing else.                                                         *)
THEOREM StrandedByFaults == Spec => OnlyFaultsStrandTests
<1> DEFINE Goal == \A t \in Tests : Stranded(t)' /\ ~Stranded(t) => faults' > faults
           Stays(t) == /\ Exists(t)' => Exists(t)
                       /\ t \in basket => t \in basket'
                       /\ BasketIsComing(t) => BasketIsComing(t)'
<1>1. ASSUME WalkForwardInv, [Next]_vars PROVE Goal
  <2> SUFFICES ASSUME NEW t \in Tests, Stranded(t)', ~Stranded(t) PROVE faults' > faults
    OBVIOUS
  <2>a. TypeOK /\ DeletedSweepHasNoRuns
    BY <1>1 DEF WalkForwardInv, RowsMatchTheSweep, DeletedSweepHasNoRuns
  <2>b. t \in Runs /\ t[2] \in Folds /\ t[3] \in Promoters /\ t = <<"out", t[2], t[3]>>
    BY RowFacts DEF Tests
  <2>c. ~Stays(t)
    BY DEF Stranded
  <2>d. Exists(t)' /\ t \notin basket' /\ ~BasketIsComing(t)'
    BY DEF Stranded
  <2> USE <2>a, <2>b, RowFacts DEF TypeOK, Exists, BasketIsComing, At, Goto, rowVars, stackVars
  <2>1. ASSUME CreateSweep PROVE Stays(t)
    BY <2>1 DEF CreateSweep, Table!Submit, Table!Set
  <2>2. ASSUME DeleteSweep PROVE ~Exists(t)'
    BY <2>2 DEF DeleteSweep, Table!Delete, Table!Set
  <2>3. ASSUME NEW w \in Workers, NEW r \in Runs, Claim(w, r) PROVE Stays(t)
    BY <2>3 DEF Claim, Table!Take, Table!Set, Promoters
  <2>4. ASSUME NEW w \in Workers, Load(w) PROVE Stays(t)
    BY <2>4 DEF Load, Promoters
  <2>5. ASSUME NEW w \in Workers, Settle(w) PROVE Stays(t)
    <3>1. Exists(t)' => Exists(t)
      BY <2>5 DEF Settle, Table!Settle, Table!Set
    <3>2. QED
      BY <2>5, <3>1 DEF Settle, Promoters
  <2>6. ASSUME NEW r \in Runs, Reclaim(r) PROVE Stays(t)
    BY <2>6 DEF Reclaim, Table!HandBack, Table!Set
  <2>7. ASSUME NEW w \in Promoters, InsertTest(w) PROVE Stays(t)
    <3> DEFINE n == <<"out", fold[w], w>>
    <3>1. pc[w] = "insert" /\ basket' = basket
      BY <2>7 DEF InsertTest
    <3>2. BasketIsComing(t) => BasketIsComing(t)'
      BY <2>7, <3>1 DEF InsertTest, Leave
    <3>3. CASE UNCHANGED status
      BY <3>1, <3>2, <3>3
    <3>4. CASE Table!Submit({n}) /\ Goto(w, "basket") /\ UNCHANGED <<held, todo, fold, pick>>
      <4>1. t # n
        BY <2>d, <3>4
      <4>2. Exists(t)' => Exists(t)
        BY <3>4, <4>1 DEF Table!Submit, Table!Set
      <4>3. QED
        BY <3>1, <3>2, <4>2
    <3>5. QED
      BY <2>7, <3>3, <3>4 DEF InsertTest
  <2>8. ASSUME NEW w \in Promoters, InsertBasket(w) PROVE Stays(t)
    <3>1. pc[w] = "basket" /\ sweep # "gone"
      BY <2>8, <2>d DEF InsertBasket, DeletedSweepHasNoRuns
    <3>2. t # <<"out", fold[w], w>> /\ basket \subseteq basket'
      BY <2>8, <2>d, <3>1 DEF InsertBasket
    <3>3. BasketIsComing(t) => t[3] # w
      BY <2>b, <3>2
    <3>4. QED
      BY <2>8, <3>2, <3>3 DEF InsertBasket, Leave
  <2>9. ASSUME \/ \E j \in Janitors : TimerFires(j)
               \/ \E w \in Promoters : Look(w) \/ NextFold(w) \/ ReadSweep(w) \/ Choose(w)
               \/ UNCHANGED vars
        PROVE  Stays(t)
    <3>1. ASSUME NEW w \in Promoters, Look(w) \/ ReadSweep(w) \/ Choose(w) PROVE Stays(t)
      BY <3>1 DEF Look, ReadSweep, Choose, Leave
    <3>2. ASSUME NEW w \in Promoters, NextFold(w) PROVE Stays(t)
      BY <3>2 DEF NextFold
    <3>3. ASSUME NEW j \in Janitors, TimerFires(j) PROVE Stays(t)
      BY <3>3 DEF TimerFires, Promoters
    <3>4. CASE UNCHANGED vars
      BY <3>4 DEF vars
    <3>5. QED
      BY <2>9, <3>1, <3>2, <3>3, <3>4
  <2>10. ASSUME \/ \E w \in Workers : VerdictLost(w)
                \/ \E w \in Promoters : StatementFails(w) \/ Vanish(w)
         PROVE  faults' > faults
    BY <2>10, WalkForwardAssumption DEF VerdictLost, StatementFails, Vanish, Fault
  <2> HIDE <2>a, <2>b, RowFacts DEF TypeOK, Exists, BasketIsComing, At, Goto, rowVars, stackVars, Stays
  <2>11. QED
    BY <1>1, <2>c, <2>d, <2>1, <2>2, <2>3, <2>4, <2>5, <2>6, <2>7, <2>8, <2>9, <2>10
       DEF Next, Execute, Promote
<1>2. WalkForwardInv /\ [Next]_vars => [Goal]_vars
  BY <1>1
<1>3. QED
  BY <1>2, WalkForwardInvariant, PTL DEF Spec, OnlyFaultsStrandTests, Goal

=============================================================================
