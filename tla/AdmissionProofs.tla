---------------------------- MODULE AdmissionProofs ----------------------------
(***************************************************************************)
(* Theorems of Admission, for any number of handlers, rows and versions.   *)
(***************************************************************************)
EXTENDS Admission, FiniteSetTheorems, TLAPS

(* The row an update leaves, and the one an insertion puts in.              *)
LEMMA UpdatedRow ==
  ASSUME TypeOK, NEW id \in Ids, NEW name \in Names, NEW spec \in Specs,
         UpdateStrategy(id, name, spec)
  PROVE  \E row \in Rows :
           /\ id \in Held(strategies) /\ strategies[id] \in Rows
           /\ strategies' = [strategies EXCEPT ![id] = row]
           /\ published' = published \cup {<<id, row.version, spec>>}
           /\ row.token = strategies[id].token /\ row.spec = spec
           /\ row.version = IF spec = strategies[id].spec THEN strategies[id].version
                            ELSE strategies[id].version + 1
<1> DEFINE old == strategies[id]
           version == IF spec = old.spec THEN old.version ELSE old.version + 1
           new == [old EXCEPT !.name = name, !.spec = spec, !.version = version]
<1>1. id \in Held(strategies) /\ old \in Rows
  BY DEF UpdateStrategy, TypeOK, Held
<1>2. version \in 1 .. MaxVersion
  BY <1>1, AdmissionAssumption DEF UpdateStrategy, Rows
<1>3. new \in Rows /\ new.version = version /\ new.token = old.token /\ new.spec = spec
  BY <1>1, <1>2 DEF Rows
<1>4. strategies' = [strategies EXCEPT ![id] = new] /\ published' = published \cup {<<id, version, spec>>}
  BY DEF UpdateStrategy
<1> HIDE DEF new
<1> QED BY <1>1, <1>3, <1>4

LEMMA InsertedRow ==
  ASSUME TypeOK, NEW h \in Handlers, NEW id \in Ids, InsertStrategy(h, id),
         ~ UNCHANGED <<strategies, used, published>>
  PROVE  \E row \in Rows :
           /\ strategies' = [strategies EXCEPT ![id] = row]
           /\ published' = published \cup {<<id, row.version, row.spec>>}
           /\ row.token = NoToken /\ used' = used \cup {id} /\ id \notin used
<1> DEFINE new == [name |-> asked[h].name, spec |-> asked[h].spec, version |-> 1, token |-> NoToken]
<1>1. asked[h].name \in Names /\ asked[h].spec \in Specs
  BY DEF InsertStrategy, TypeOK, Requests, Nothing
<1>2. 1 \in 1 .. MaxVersion
  BY AdmissionAssumption
<1>3. new \in Rows /\ new.version = 1 /\ new.spec = asked[h].spec /\ new.token = NoToken
  BY <1>1, <1>2 DEF Rows
<1>4. /\ strategies' = [strategies EXCEPT ![id] = new] /\ published' = published \cup {<<id, 1, asked[h].spec>>}
      /\ used' = used \cup {id} /\ id \notin used
  BY DEF InsertStrategy
<1> HIDE DEF new
<1> QED BY <1>3, <1>4

(* Every variable keeps the shape the schema and the handlers give it.      *)
THEOREM AdmissionTypes == Spec => []TypeOK
<1>1. ASSUME Init PROVE TypeOK
  BY <1>1 DEF Init, TypeOK, Nothing, Requests
<1>2. ASSUME TypeOK, [Next]_vars PROVE TypeOK'
  <2> USE <1>2
  <2>1. ASSUME NEW h \in Handlers, NEW name \in Names, NEW spec \in Specs, AskStrategy(h, name, spec)
        PROVE  TypeOK'
    <3>1. [kind |-> "strategy", name |-> name, spec |-> spec] \in Requests \ {Nothing}
      BY DEF Requests, Nothing
    <3> QED BY <2>1, <3>1 DEF TypeOK, AskStrategy, Begin
  <2>2. ASSUME NEW h \in Handlers, NEW kind \in {"backtest", "sweep"}, NEW id \in Ids,
               AskLaunch(h, kind, id)
        PROVE  TypeOK'
    <3>1. [kind |-> kind, strategy |-> id] \in Requests \ {Nothing}
      BY DEF Requests, Nothing
    <3> QED BY <2>2, <3>1 DEF TypeOK, AskLaunch, Begin
  <2>3. Nothing \in Requests
    BY DEF Requests
  <2>4. ASSUME NEW h \in Handlers, Done(h)
        PROVE  /\ step' \in [Handlers -> {"idle", "count", "insert"}]
               /\ asked' \in [Handlers -> Requests]
               /\ \A g \in Handlers : step'[g] = "idle" <=> asked'[g] = Nothing
    BY <2>3, <2>4 DEF TypeOK, Done
  <2>5. ASSUME NEW h \in Handlers, Admit(h) PROVE TypeOK'
    <3>1. CASE Done(h)
      BY <2>4, <2>5, <3>1 DEF TypeOK, Admit
    <3>2. CASE step' = [step EXCEPT ![h] = "insert"] /\ UNCHANGED asked
      BY <2>5, <3>2 DEF TypeOK, Admit
    <3> QED BY <2>5, <3>1, <3>2 DEF Admit
  <2>6. ASSUME NEW h \in Handlers, NEW id \in Ids, InsertStrategy(h, id) PROVE TypeOK'
    <3>1. CASE UNCHANGED <<strategies, used, published>>
      BY <2>4, <2>6, <3>1 DEF TypeOK, InsertStrategy
    <3>2. CASE ~ UNCHANGED <<strategies, used, published>>
      <4>1. PICK row \in Rows : /\ strategies' = [strategies EXCEPT ![id] = row]
                                /\ published' = published \cup {<<id, row.version, row.spec>>}
                                /\ used' = used \cup {id}
        BY <2>6, <3>2, InsertedRow
      <4>2. row.version \in 1 .. MaxVersion /\ row.spec \in Specs
        BY DEF Rows
      <4> QED BY <2>4, <2>6, <4>1, <4>2 DEF TypeOK, InsertStrategy
    <3> QED BY <3>1, <3>2
  <2>7. ASSUME NEW h \in Handlers, step[h] = "insert", asked[h].kind \in {"backtest", "sweep"}
        PROVE  Launched(h) \in Launches
    BY <2>7 DEF TypeOK, Requests, Nothing, Launched, Launches
  <2>8. ASSUME NEW h \in Handlers, NEW r \in Runs, InsertRun(h, r) PROVE TypeOK'
    BY <2>4, <2>7, <2>8 DEF TypeOK, InsertRun
  <2>9. ASSUME NEW h \in Handlers, NEW s \in Sweeps, InsertSweep(h, s) PROVE TypeOK'
    BY <2>4, <2>7, <2>9 DEF TypeOK, InsertSweep
  <2>10. ASSUME NEW id \in Ids, id \in Held(strategies) PROVE strategies[id] \in Rows
    BY <2>10 DEF TypeOK, Held
  <2>11. ASSUME NEW id \in Ids, NEW name \in Names, NEW spec \in Specs, UpdateStrategy(id, name, spec)
         PROVE  TypeOK'
    <3>1. PICK row \in Rows : /\ strategies' = [strategies EXCEPT ![id] = row]
                              /\ published' = published \cup {<<id, row.version, spec>>}
      BY <2>11, UpdatedRow
    <3>2. row.version \in 1 .. MaxVersion
      BY DEF Rows
    <3> QED BY <2>11, <3>1, <3>2 DEF TypeOK, UpdateStrategy, Free
  <2>12. ASSUME NEW id \in Ids, DeleteStrategy(id) PROVE TypeOK'
    BY <2>12 DEF TypeOK, DeleteStrategy, Free
  <2>13. ASSUME NEW id \in Ids, NEW token \in Tokens \cup {NoToken}, id \in Held(strategies)
         PROVE  [strategies EXCEPT ![id].token = token] \in [Ids -> Rows \cup {Absent}]
    <3>1. [strategies[id] EXCEPT !.token = token] \in Rows
      BY <2>10, <2>13 DEF Rows
    <3> QED BY <2>13, <3>1 DEF TypeOK
  <2>14. ASSUME NEW id \in Ids, NEW token \in Tokens, ShareStrategy(id, token) PROVE TypeOK'
    BY <2>13, <2>14 DEF TypeOK, ShareStrategy, Free
  <2>15. ASSUME NEW id \in Ids, UnshareStrategy(id) PROVE TypeOK'
    BY <2>13, <2>15 DEF TypeOK, UnshareStrategy, Free
  <2>16. ASSUME NEW r \in Runs, RunSettles(r) PROVE TypeOK'
    <3>1. [runs[r] EXCEPT !.status = "over"] \in Launches
      BY <2>16 DEF RunSettles, Active, Held, TypeOK, Launches
    <3> QED BY <2>16, <3>1 DEF TypeOK, RunSettles
  <2>17. ASSUME NEW s \in Sweeps, s \in Held(sweeps), NEW status \in {"active", "between", "over"}
         PROVE  [sweeps EXCEPT ![s].status = status] \in [Sweeps -> Launches \cup {Absent}]
    <3>1. [sweeps[s] EXCEPT !.status = status] \in Launches
      BY <2>17 DEF Held, TypeOK, Launches
    <3> QED BY <2>17, <3>1 DEF TypeOK
  <2>18. ASSUME NEW s \in Sweeps, SweepSettles(s) PROVE TypeOK'
    <3>1. PICK status \in {"over", "between"} : sweeps' = [sweeps EXCEPT ![s].status = status]
      BY <2>18 DEF SweepSettles
    <3>2. sweeps' \in [Sweeps -> Launches \cup {Absent}]
      BY <2>17, <2>18, <3>1 DEF SweepSettles, Active
    <3> QED BY <2>18, <3>2 DEF TypeOK, SweepSettles
  <2>19. ASSUME NEW s \in Sweeps, Promote(s) PROVE TypeOK'
    BY <2>17, <2>19 DEF TypeOK, Promote
  <2>20. ASSUME NEW s \in Sweeps, DeleteSweep(s) PROVE TypeOK'
    BY <2>20 DEF TypeOK, DeleteSweep
  <2>21. ASSUME UNCHANGED vars PROVE TypeOK'
    BY <2>21 DEF TypeOK, vars
  <2> QED BY <2>1, <2>2, <2>5, <2>6, <2>8, <2>9, <2>11, <2>12, <2>14, <2>15, <2>16, <2>18, <2>19,
             <2>20, <2>21 DEF Next
<1> QED BY <1>1, <1>2, PTL DEF Spec

-----------------------------------------------------------------------------
(* The limits.  What bounds the overrun is that a request which was let in  *)
(* counts against the limit from then on, as a row or as a request.         *)

Waiting(kind) == {h \in Handlers : step[h] = "insert" /\ asked[h].kind = kind}

Counted(kind) == IF kind = "strategy" THEN Held(strategies) ELSE Active(runs)

Overrun(kind) ==
  Cardinality(Counted(kind)) + Cardinality(Waiting(kind)) < Limit(kind) + Cardinality(Handlers)

Limited == {"strategy", "backtest"}

LEMMA CountsAreFinite ==
  ASSUME TypeOK, NEW kind \in Limited
  PROVE  /\ IsFiniteSet(Counted(kind)) /\ IsFiniteSet(Waiting(kind))
         /\ Cardinality(Counted(kind)) \in Nat /\ Cardinality(Waiting(kind)) \in Nat
         /\ Cardinality(Waiting(kind)) <= Cardinality(Handlers)
         /\ Cardinality(Handlers) \in Nat /\ Limit(kind) \in Nat \ {0}
         /\ Count(kind) = Cardinality(Counted(kind))
<1>1. Counted(kind) \subseteq Ids \/ Counted(kind) \subseteq Runs
  BY DEF Counted, Held, Active, TypeOK
<1>2. IsFiniteSet(Counted(kind))
  BY <1>1, FS_Subset, AdmissionAssumption
<1>3. Waiting(kind) \subseteq Handlers
  BY DEF Waiting
<1>4. IsFiniteSet(Waiting(kind)) /\ Cardinality(Waiting(kind)) <= Cardinality(Handlers)
  BY <1>3, FS_Subset, AdmissionAssumption
<1>5. Limit(kind) \in Nat \ {0} /\ Count(kind) = Cardinality(Counted(kind))
  BY AdmissionAssumption DEF Limit, Limited, Count, Counted
<1> QED BY <1>2, <1>4, <1>5, FS_CardinalityType, AdmissionAssumption

(* A step that adds a row serves a request that was waiting, and the other  *)
(* steps add neither.                                                       *)
LEMMA OverrunKept ==
  ASSUME TypeOK, TypeOK', NEW kind \in Limited, Overrun(kind),
         \/ Counted(kind)' \subseteq Counted(kind) /\ Waiting(kind)' \subseteq Waiting(kind)
         \/ \E h \in Waiting(kind) : \E row :
               /\ Counted(kind)' \subseteq Counted(kind) \cup {row}
               /\ Waiting(kind)' \subseteq Waiting(kind) \ {h}
  PROVE  Overrun(kind)'
<1> DEFINE C == Cardinality(Counted(kind))
           W == Cardinality(Waiting(kind))
<1>1. IsFiniteSet(Counted(kind)) /\ IsFiniteSet(Waiting(kind)) /\ C \in Nat /\ W \in Nat
  BY CountsAreFinite
<1>2. Cardinality(Handlers) \in Nat /\ Limit(kind) \in Nat /\ Limit(kind)' = Limit(kind)
  BY CountsAreFinite DEF Limit
<1>3. C + W < Limit(kind) + Cardinality(Handlers)
  BY DEF Overrun
<1>4. CASE Counted(kind)' \subseteq Counted(kind) /\ Waiting(kind)' \subseteq Waiting(kind)
  <2>1. /\ Cardinality(Counted(kind)') \in Nat /\ Cardinality(Counted(kind)') <= C
        /\ Cardinality(Waiting(kind)') \in Nat /\ Cardinality(Waiting(kind)') <= W
    BY <1>1, <1>4, FS_Subset, FS_CardinalityType
  <2> HIDE DEF C, W
  <2> QED BY <1>1, <1>2, <1>3, <2>1 DEF Overrun
<1>5. ASSUME NEW h \in Waiting(kind), NEW row,
             Counted(kind)' \subseteq Counted(kind) \cup {row},
             Waiting(kind)' \subseteq Waiting(kind) \ {h}
      PROVE  Overrun(kind)'
  <2> DEFINE more == Counted(kind) \cup {row}
  <2>1. IsFiniteSet(more) /\ Cardinality(more) <= C + 1
    <3>1. IsFiniteSet(more) /\ (Cardinality(more) = C \/ Cardinality(more) = C + 1)
      BY <1>1, FS_AddElement, Zenon
    <3> HIDE DEF C, more
    <3> QED BY <1>1, <3>1
  <2>2. IsFiniteSet(Waiting(kind) \ {h}) /\ Cardinality(Waiting(kind) \ {h}) = W - 1
    BY <1>1, FS_RemoveElement
  <2>3. Cardinality(Counted(kind)') \in Nat /\ Cardinality(Waiting(kind)') \in Nat
    BY <1>5, <2>1, <2>2, FS_Subset, FS_CardinalityType
  <2>4. Cardinality(more) \in Nat /\ Cardinality(Waiting(kind) \ {h}) \in Nat
    BY <2>1, <2>2, FS_CardinalityType
  <2>5. /\ Cardinality(Counted(kind)') <= Cardinality(more)
        /\ Cardinality(Waiting(kind)') <= Cardinality(Waiting(kind) \ {h})
    BY <1>5, <2>1, <2>2, FS_Subset
  <2> HIDE DEF C, W, more
  <2> QED BY <1>1, <1>2, <1>3, <2>1, <2>2, <2>3, <2>4, <2>5 DEF Overrun
<1> QED BY <1>4, <1>5

(* LimitsAreOverrunByRequestsOnly, from the stronger Overrun.               *)
THEOREM LimitsHold == Spec => []LimitsAreOverrunByRequestsOnly
<1> DEFINE Inv == \A kind \in Limited : Overrun(kind)
<1>1. ASSUME Init, TypeOK PROVE Inv
  <2> SUFFICES ASSUME NEW kind \in Limited PROVE Overrun(kind)
    OBVIOUS
  <2>1. Counted(kind) = {} /\ Waiting(kind) = {}
    BY <1>1 DEF Init, Counted, Waiting, Held, Active
  <2>2. Limit(kind) \in Nat \ {0} /\ Cardinality(Handlers) \in Nat
    BY <1>1, CountsAreFinite
  <2> QED BY <2>1, <2>2, FS_EmptySet DEF Overrun
<1>2. ASSUME TypeOK, TypeOK', Inv, [Next]_vars PROVE Inv'
  <2> SUFFICES ASSUME NEW kind \in Limited PROVE Overrun(kind)'
    OBVIOUS
  <2> DEFINE NoMore  == Counted(kind)' \subseteq Counted(kind) /\ Waiting(kind)' \subseteq Waiting(kind)
             Served  == \E h \in Waiting(kind) : \E row :
                          /\ Counted(kind)' \subseteq Counted(kind) \cup {row}
                          /\ Waiting(kind)' \subseteq Waiting(kind) \ {h}
  <2>1. NoMore \/ Served => Overrun(kind)'
    BY <1>2, OverrunKept
  <2>2. ASSUME UNCHANGED <<step, asked>> PROVE Waiting(kind)' = Waiting(kind)
    BY <2>2 DEF Waiting
  <2>3. ASSUME UNCHANGED <<strategies, runs>> PROVE Counted(kind)' = Counted(kind)
    BY <2>3 DEF Counted, Held, Active
  <2>4. ASSUME NEW h \in Handlers, NEW what, Begin(h, what, "count") PROVE NoMore
    <3>1. Waiting(kind)' \subseteq Waiting(kind)
      BY <1>2, <2>4 DEF Begin, Waiting, TypeOK
    <3> QED BY <2>3, <2>4, <3>1 DEF Begin
  <2>5. ASSUME NEW h \in Handlers, Done(h) PROVE Waiting(kind)' \subseteq Waiting(kind) \ {h}
    BY <1>2, <2>5 DEF Done, Waiting, TypeOK
  <2>6. ASSUME NEW h \in Handlers, Admit(h) PROVE Overrun(kind)'
    <3>1. Counted(kind)' = Counted(kind)
      BY <2>3, <2>6 DEF Admit
    <3>2. CASE Done(h)
      BY <2>1, <2>5, <3>1, <3>2
    <3>3. CASE /\ asked[h].kind # kind /\ UNCHANGED asked
               /\ step' = [step EXCEPT ![h] = "insert"]
      <4>1. Waiting(kind)' \subseteq Waiting(kind)
        BY <1>2, <3>3 DEF Waiting, TypeOK
      <4> QED BY <2>1, <3>1, <4>1
    <3>4. CASE asked[h].kind = kind /\ Count(kind) < Limit(kind)
      <4>1. /\ Cardinality(Counted(kind)') \in Nat /\ Cardinality(Waiting(kind)') \in Nat
            /\ Cardinality(Waiting(kind)') <= Cardinality(Handlers) /\ Cardinality(Handlers) \in Nat
        <5>1. Waiting(kind)' \subseteq Handlers
          BY DEF Waiting
        <5>2. IsFiniteSet(Waiting(kind)') /\ Cardinality(Waiting(kind)') <= Cardinality(Handlers)
          BY <5>1, FS_Subset, AdmissionAssumption
        <5> QED BY <1>2, <3>1, <5>2, CountsAreFinite, FS_CardinalityType
      <4>2. Cardinality(Counted(kind)') < Limit(kind) /\ Limit(kind) \in Nat
        BY <1>2, <3>1, <3>4, CountsAreFinite
      <4>3. Overrun(kind)' <=> Cardinality(Counted(kind)') + Cardinality(Waiting(kind)') < Limit(kind) + Cardinality(Handlers)
        BY DEF Overrun, Limit
      <4> QED BY <4>1, <4>2, <4>3
    <3>5. Count(kind) \in Nat /\ Limit(kind) \in Nat
      BY <1>2, CountsAreFinite
    <3> QED BY <2>6, <3>2, <3>3, <3>4, <3>5 DEF Admit
  <2>7. ASSUME NEW h \in Handlers, NEW id \in Ids, InsertStrategy(h, id) PROVE NoMore \/ Served
    <3>1. Waiting(kind)' \subseteq Waiting(kind) \ {h}
      BY <2>5, <2>7 DEF InsertStrategy
    <3>2. CASE kind = "strategy"
      <4>1. h \in Waiting(kind)
        BY <2>7, <3>2 DEF InsertStrategy, Waiting
      <4>2. Held(strategies') \subseteq Held(strategies) \cup {id}
        BY <1>2, <2>7 DEF InsertStrategy, Held, TypeOK
      <4> QED BY <3>1, <3>2, <4>1, <4>2 DEF Counted
    <3>3. CASE kind # "strategy"
      BY <2>7, <3>1, <3>3 DEF InsertStrategy, Counted, Active, Held
    <3> QED BY <3>2, <3>3
  <2>8. ASSUME NEW h \in Handlers, NEW r \in Runs, InsertRun(h, r) PROVE NoMore \/ Served
    <3>1. Waiting(kind)' \subseteq Waiting(kind) \ {h}
      BY <2>5, <2>8 DEF InsertRun
    <3>2. CASE kind = "backtest"
      <4>1. h \in Waiting(kind)
        BY <2>8, <3>2 DEF InsertRun, Waiting
      <4>2. Active(runs') \subseteq Active(runs) \cup {r}
        BY <1>2, <2>8 DEF InsertRun, Active, Held, TypeOK
      <4> QED BY <3>1, <3>2, <4>1, <4>2 DEF Counted
    <3>3. CASE kind = "strategy"
      BY <2>8, <3>1, <3>3 DEF InsertRun, Counted, Held
    <3> QED BY <3>2, <3>3 DEF Limited
  <2>9. ASSUME NEW h \in Handlers, NEW s \in Sweeps, InsertSweep(h, s) PROVE NoMore
    BY <2>3, <2>5, <2>9 DEF InsertSweep
  <2>10. ASSUME NEW id \in Ids, UNCHANGED <<runs, step, asked>>, Held(strategies') \subseteq Held(strategies)
         PROVE  NoMore
    BY <2>2, <2>10 DEF Counted, Active, Held
  <2>11. ASSUME NEW id \in Ids, NEW row, id \in Held(strategies), strategies' = [strategies EXCEPT ![id] = row]
         PROVE  Held(strategies') \subseteq Held(strategies)
    BY <1>2, <2>11 DEF Held, TypeOK
  <2>12. ASSUME NEW id \in Ids, NEW name \in Names, NEW spec \in Specs, UpdateStrategy(id, name, spec)
         PROVE  NoMore
    BY <2>10, <2>11, <2>12 DEF UpdateStrategy, Free
  <2>13. ASSUME NEW id \in Ids, DeleteStrategy(id) PROVE NoMore
    BY <2>10, <2>11, <2>13 DEF DeleteStrategy, Free
  <2>14. ASSUME NEW id \in Ids, NEW token \in Tokens, ShareStrategy(id, token) PROVE NoMore
    BY <2>10, <2>11, <2>14 DEF ShareStrategy, Free
  <2>15. ASSUME NEW id \in Ids, UnshareStrategy(id) PROVE NoMore
    BY <2>10, <2>11, <2>15 DEF UnshareStrategy, Free
  <2>16. ASSUME NEW r \in Runs, RunSettles(r) PROVE NoMore
    <3>1. Active(runs') \subseteq Active(runs)
      BY <1>2, <2>16 DEF RunSettles, Active, Held, TypeOK
    <3> QED BY <2>2, <2>16, <3>1 DEF RunSettles, Counted, Held
  <2>17. ASSUME NEW s \in Sweeps, DeleteSweep(s) \/ SweepSettles(s) \/ Promote(s) PROVE NoMore
    BY <2>2, <2>3, <2>17 DEF DeleteSweep, SweepSettles, Promote
  <2>18. ASSUME UNCHANGED vars PROVE NoMore
    BY <2>2, <2>3, <2>18 DEF vars
  <2> HIDE DEF NoMore, Served
  <2> QED BY <1>2, <2>1, <2>4, <2>6, <2>7, <2>8, <2>9, <2>12, <2>13, <2>14, <2>15, <2>16, <2>17, <2>18
          DEF Next, AskStrategy, AskLaunch
<1>3. ASSUME TypeOK, Inv PROVE LimitsAreOverrunByRequestsOnly
  <2> SUFFICES ASSUME NEW kind \in Limited PROVE Count(kind) < Limit(kind) + Cardinality(Handlers)
    BY DEF LimitsAreOverrunByRequestsOnly, Limited
  <2>1. /\ Cardinality(Counted(kind)) \in Nat /\ Cardinality(Waiting(kind)) \in Nat
        /\ Limit(kind) \in Nat /\ Cardinality(Handlers) \in Nat
        /\ Count(kind) = Cardinality(Counted(kind))
    BY <1>3, CountsAreFinite
  <2> QED BY <1>3, <2>1 DEF Overrun
<1> QED BY <1>1, <1>2, <1>3, AdmissionTypes, PTL DEF Spec

-----------------------------------------------------------------------------
(* References, versions and links.                                          *)

(* ReferencedStrategiesStay is inductive: the foreign key is checked by the *)
(* insertion and by the deletion.                                           *)
THEOREM ReferencesHold == Spec => []ReferencedStrategiesStay
<1>1. ASSUME Init PROVE ReferencedStrategiesStay
  BY <1>1 DEF Init, ReferencedStrategiesStay, Referenced, Held
<1>2. ASSUME TypeOK, TypeOK', ReferencedStrategiesStay, [Next]_vars PROVE ReferencedStrategiesStay'
  <2> DEFINE Kept == Held(strategies) \subseteq Held(strategies')
             NoMore == \A id \in Ids : Referenced(id)' => Referenced(id)
  <2>1. Kept /\ NoMore => ReferencedStrategiesStay'
    BY <1>2 DEF ReferencedStrategiesStay
  <2>2. ASSUME UNCHANGED <<runs, sweeps>> PROVE NoMore
    BY <2>2 DEF Referenced, Held
  <2>3. ASSUME UNCHANGED strategies PROVE Kept
    BY <2>3 DEF Held
  <2>4. ASSUME NEW id \in Ids, strategies' = [strategies EXCEPT ![id] = strategies'[id]],
               strategies'[id] # Absent
        PROVE  Kept
    BY <1>2, <2>4 DEF Held, TypeOK
  <2>5. ASSUME NEW h \in Handlers, NEW r \in Runs, InsertRun(h, r) PROVE ReferencedStrategiesStay'
    BY <1>2, <2>5 DEF InsertRun, ReferencedStrategiesStay, Referenced, Held, Launched, TypeOK
  <2>6. ASSUME NEW h \in Handlers, NEW s \in Sweeps, InsertSweep(h, s) PROVE ReferencedStrategiesStay'
    BY <1>2, <2>6 DEF InsertSweep, ReferencedStrategiesStay, Referenced, Held, Launched, TypeOK
  <2>7. ASSUME NEW id \in Ids, DeleteStrategy(id) PROVE ReferencedStrategiesStay'
    BY <1>2, <2>2, <2>7 DEF DeleteStrategy, Free, ReferencedStrategiesStay, Held, TypeOK
  <2>8. ASSUME NEW id \in Ids, NEW row \in Rows, UNCHANGED <<runs, sweeps>>,
               strategies' = [strategies EXCEPT ![id] = row]
        PROVE  ReferencedStrategiesStay'
    <3>1. strategies'[id] = row /\ row # Absent
      BY <1>2, <2>8, AdmissionAssumption DEF TypeOK
    <3> QED BY <2>1, <2>2, <2>4, <2>8, <3>1
  <2>10. ASSUME NEW id \in Ids, NEW name \in Names, NEW spec \in Specs, UpdateStrategy(id, name, spec)
         PROVE  ReferencedStrategiesStay'
    <3>1. PICK row \in Rows : strategies' = [strategies EXCEPT ![id] = row]
      BY <1>2, <2>10, UpdatedRow
    <3> QED BY <2>8, <2>10, <3>1 DEF UpdateStrategy, Free
  <2>11. ASSUME NEW id \in Ids, NEW token \in Tokens \cup {NoToken}, id \in Held(strategies),
                UNCHANGED <<runs, sweeps>>, strategies' = [strategies EXCEPT ![id].token = token]
         PROVE  ReferencedStrategiesStay'
    <3>1. [strategies[id] EXCEPT !.token = token] \in Rows
      BY <1>2, <2>11 DEF TypeOK, Held, Rows
    <3> QED BY <2>8, <2>11, <3>1
  <2>12. ASSUME NEW r \in Runs, RunSettles(r) PROVE ReferencedStrategiesStay'
    <3>1. NoMore
      BY <1>2, <2>12 DEF RunSettles, Active, Referenced, Held, TypeOK, Launches
    <3> QED BY <2>1, <2>3, <2>12, <3>1 DEF RunSettles
  <2>13. ASSUME NEW s \in Sweeps, NEW status, s \in Held(sweeps), UNCHANGED <<strategies, runs>>,
                sweeps' = [sweeps EXCEPT ![s].status = status]
         PROVE  ReferencedStrategiesStay'
    <3>1. NoMore
      BY <1>2, <2>13 DEF Referenced, Held, TypeOK, Launches
    <3> QED BY <2>1, <2>3, <2>13, <3>1
  <2>14. ASSUME NEW s \in Sweeps, SweepSettles(s) \/ Promote(s) PROVE ReferencedStrategiesStay'
    BY <2>13, <2>14 DEF SweepSettles, Promote, Active
  <2>15. ASSUME NEW s \in Sweeps, DeleteSweep(s) PROVE ReferencedStrategiesStay'
    <3>1. NoMore
      BY <1>2, <2>15 DEF DeleteSweep, Referenced, Held, TypeOK
    <3> QED BY <2>1, <2>3, <2>15, <3>1 DEF DeleteSweep
  <2>16. ASSUME NEW h \in Handlers, NEW id \in Ids, InsertStrategy(h, id) PROVE ReferencedStrategiesStay'
    <3>1. CASE UNCHANGED <<strategies, used, published>>
      BY <2>1, <2>2, <2>3, <2>16, <3>1 DEF InsertStrategy
    <3>2. CASE ~ UNCHANGED <<strategies, used, published>>
      <4>1. PICK row \in Rows : strategies' = [strategies EXCEPT ![id] = row]
        BY <1>2, <2>16, <3>2, InsertedRow
      <4> QED BY <2>8, <2>16, <4>1 DEF InsertStrategy
    <3> QED BY <3>1, <3>2
  <2>17. ASSUME UNCHANGED <<strategies, runs, sweeps>> PROVE ReferencedStrategiesStay'
    BY <2>1, <2>2, <2>3, <2>17
  <2> HIDE DEF Kept, NoMore
  <2> QED BY <1>2, <2>5, <2>6, <2>7, <2>10, <2>11, <2>12, <2>14, <2>15, <2>16, <2>17
          DEF Next, AskStrategy, AskLaunch, Begin, Admit, ShareStrategy, UnshareStrategy, Free, vars
<1> QED BY <1>1, <1>2, AdmissionTypes, PTL DEF Spec

(* All that happens to the row of a strategy.                               *)
Untouched == UNCHANGED <<strategies, used, published>>

Put(id, row) == row \in Rows /\ strategies' = [strategies EXCEPT ![id] = row]

Created(id) ==
  /\ id \notin used /\ used' = used \cup {id}
  /\ \E row \in Rows : /\ Put(id, row) /\ row.token = NoToken
                       /\ published' = published \cup {<<id, row.version, row.spec>>}

Updated(id) ==
  /\ id \in Held(strategies) /\ strategies[id] \in Rows /\ UNCHANGED used
  /\ \E row \in Rows : /\ Put(id, row) /\ row.token = strategies[id].token
                       /\ published' = published \cup {<<id, row.version, row.spec>>}
                       /\ row.version = IF row.spec = strategies[id].spec THEN strategies[id].version
                                        ELSE strategies[id].version + 1

Deleted(id) == strategies' = [strategies EXCEPT ![id] = Absent] /\ UNCHANGED <<used, published>>

Linked(id) ==
  /\ id \in Held(strategies) /\ UNCHANGED published
  /\ \E row \in Rows : /\ Put(id, row)
                       /\ row.version = strategies[id].version /\ row.spec = strategies[id].spec
                       /\ \/ row.token = NoToken /\ UNCHANGED used
                          \/ row.token \notin used /\ used' = used \cup {row.token}

LEMMA LinkedRow ==
  ASSUME NEW id \in Ids, NEW row \in Rows, id \in Held(strategies), UNCHANGED published,
         strategies' = [strategies EXCEPT ![id] = row],
         row.version = strategies[id].version, row.spec = strategies[id].spec,
         \/ row.token = NoToken /\ UNCHANGED used
         \/ row.token \notin used /\ used' = used \cup {row.token}
  PROVE  Linked(id)
BY DEF Linked, Put

LEMMA RowSteps ==
  ASSUME TypeOK, [Next]_vars
  PROVE  Untouched \/ \E id \in Ids : Created(id) \/ Updated(id) \/ Deleted(id) \/ Linked(id)
<1>1. ASSUME NEW h \in Handlers, NEW id \in Ids, InsertStrategy(h, id) PROVE Untouched \/ Created(id)
  BY <1>1, InsertedRow DEF Untouched, Created, Put
<1>2. ASSUME NEW id \in Ids, NEW name \in Names, NEW spec \in Specs, UpdateStrategy(id, name, spec)
      PROVE  Updated(id)
  <2>1. PICK row \in Rows :
           /\ id \in Held(strategies) /\ strategies[id] \in Rows
           /\ strategies' = [strategies EXCEPT ![id] = row]
           /\ published' = published \cup {<<id, row.version, spec>>}
           /\ row.token = strategies[id].token /\ row.spec = spec
           /\ row.version = IF spec = strategies[id].spec THEN strategies[id].version
                            ELSE strategies[id].version + 1
    BY <1>2, UpdatedRow
  <2>2. UNCHANGED used
    BY <1>2 DEF UpdateStrategy
  <2> QED BY <2>1, <2>2 DEF Updated, Put
<1>3. ASSUME NEW id \in Ids, DeleteStrategy(id) PROVE Deleted(id)
  BY <1>3 DEF DeleteStrategy, Deleted
<1> DEFINE Relinked(id, token) == [strategies[id] EXCEPT !.token = token]
<1>4. ASSUME NEW id \in Ids, NEW token \in Tokens \cup {NoToken}, id \in Held(strategies)
      PROVE  /\ Relinked(id, token) \in Rows /\ Relinked(id, token).token = token
             /\ Relinked(id, token).version = strategies[id].version
             /\ Relinked(id, token).spec = strategies[id].spec
  BY <1>4 DEF TypeOK, Held, Rows
<1>5. ASSUME NEW id \in Ids, NEW token \in Tokens, ShareStrategy(id, token) PROVE Linked(id)
  <2>1. /\ id \in Held(strategies) /\ UNCHANGED published
        /\ token \notin used /\ used' = used \cup {token}
        /\ strategies' = [strategies EXCEPT ![id] = Relinked(id, token)]
    BY <1>5 DEF ShareStrategy
  <2>2. /\ Relinked(id, token) \in Rows /\ Relinked(id, token).token = token
        /\ Relinked(id, token).version = strategies[id].version
        /\ Relinked(id, token).spec = strategies[id].spec
    BY <1>4, <2>1
  <2> HIDE DEF Relinked
  <2> QED BY <2>1, <2>2, LinkedRow
<1>6. ASSUME NEW id \in Ids, UnshareStrategy(id) PROVE Linked(id)
  <2>1. /\ id \in Held(strategies) /\ UNCHANGED <<published, used>>
        /\ strategies' = [strategies EXCEPT ![id] = Relinked(id, NoToken)]
    BY <1>6 DEF UnshareStrategy
  <2>2. /\ Relinked(id, NoToken) \in Rows /\ Relinked(id, NoToken).token = NoToken
        /\ Relinked(id, NoToken).version = strategies[id].version
        /\ Relinked(id, NoToken).spec = strategies[id].spec
    BY <1>4, <2>1
  <2> HIDE DEF Relinked
  <2> QED BY <2>1, <2>2, LinkedRow
<1>7. ASSUME NEW h \in Handlers, NEW r \in Runs, InsertRun(h, r) PROVE Untouched
  BY <1>7 DEF InsertRun, Untouched
<1>8. ASSUME NEW h \in Handlers, NEW s \in Sweeps, InsertSweep(h, s) PROVE Untouched
  BY <1>8 DEF InsertSweep, Untouched
<1>9. ASSUME NEW r \in Runs, RunSettles(r) PROVE Untouched
  BY <1>9 DEF RunSettles, Untouched
<1>10. ASSUME NEW s \in Sweeps, DeleteSweep(s) \/ SweepSettles(s) \/ Promote(s) PROVE Untouched
  BY <1>10 DEF DeleteSweep, SweepSettles, Promote, Untouched
<1>11. ASSUME NEW h \in Handlers, NEW what, Begin(h, what, "count") \/ Admit(h) PROVE Untouched
  BY <1>11 DEF Begin, Admit, Untouched
<1>12. ASSUME UNCHANGED vars PROVE Untouched
  BY <1>12 DEF vars, Untouched
<1> QED BY <1>1, <1>2, <1>3, <1>5, <1>6, <1>7, <1>8, <1>9, <1>10, <1>11, <1>12
        DEF Next, AskStrategy, AskLaunch

(* What the rows remember of the ids, the versions and the tokens handed    *)
(* out: a row has the last version published of its id.                     *)
Remembered ==
  /\ Held(strategies) \subseteq used
  /\ \A p \in published :
       /\ p[1] \in used
       /\ p[1] \in Held(strategies) =>
            /\ p[2] <= strategies[p[1]].version
            /\ p[2] = strategies[p[1]].version => p[3] = strategies[p[1]].spec
  /\ \A id \in Held(strategies) : strategies[id].token \in Tokens => strategies[id].token \in used

LEMMA RememberedStep ==
  ASSUME TypeOK, TypeOK', Remembered, VersionsNameOneSpec, [Next]_vars
  PROVE  Remembered' /\ VersionsNameOneSpec'
<1>1. CASE Untouched
  BY <1>1 DEF Untouched, Remembered, VersionsNameOneSpec, Held
<1>2. ASSUME NEW id \in Ids, NEW row \in Rows, Put(id, row)
      PROVE  /\ Held(strategies') = Held(strategies) \cup {id}
             /\ strategies'[id] = row
             /\ \A other \in Ids \ {id} : strategies'[other] = strategies[other]
             /\ row.version \in Nat
  BY <1>2, AdmissionAssumption DEF Put, Held, TypeOK, Rows
<1>3. \A p \in published : p[1] \in Ids /\ p[2] \in Nat
  BY AdmissionAssumption DEF TypeOK
<1>4. Held(strategies) \subseteq Ids /\ \A id \in Held(strategies) : strategies[id] \in Rows /\ strategies[id].version \in Nat
  BY AdmissionAssumption DEF Held, TypeOK, Rows
<1>5. ASSUME NEW id \in Ids, Created(id) PROVE Remembered' /\ VersionsNameOneSpec'
  <2>1. PICK row \in Rows : /\ Put(id, row) /\ row.token = NoToken
                            /\ published' = published \cup {<<id, row.version, row.spec>>}
    BY <1>5 DEF Created
  <2>2. id \notin used /\ used' = used \cup {id} /\ NoToken \notin Tokens
    BY <1>5, AdmissionAssumption DEF Created
  <2>3. Remembered'
    BY <1>2, <1>3, <1>4, <2>1, <2>2 DEF Remembered
  <2>4. VersionsNameOneSpec'
    BY <2>1, <2>2 DEF Remembered, VersionsNameOneSpec
  <2> QED BY <2>3, <2>4
<1>6. ASSUME NEW id \in Ids, Updated(id) PROVE Remembered' /\ VersionsNameOneSpec'
  <2>1. PICK row \in Rows : /\ Put(id, row) /\ row.token = strategies[id].token
                            /\ published' = published \cup {<<id, row.version, row.spec>>}
                            /\ row.version = IF row.spec = strategies[id].spec THEN strategies[id].version
                                             ELSE strategies[id].version + 1
    BY <1>6 DEF Updated
  <2>2. id \in Held(strategies) /\ id \in used /\ used' = used
    BY <1>6 DEF Updated, Remembered
  <2>3. strategies[id].version \in Nat /\ strategies[id].version <= row.version
    BY <1>4, <2>1, <2>2
  <2>4. \A p \in published : p[1] = id =>
          p[2] <= row.version /\ (p[2] = row.version => p[3] = row.spec)
    BY <1>3, <2>1, <2>2, <2>3 DEF Remembered
  <2>5. Remembered'
    BY <1>2, <1>3, <1>4, <2>1, <2>2, <2>4 DEF Remembered
  <2>6. VersionsNameOneSpec'
    BY <2>1, <2>4 DEF VersionsNameOneSpec
  <2> QED BY <2>5, <2>6
<1>7. ASSUME NEW id \in Ids, Deleted(id) PROVE Remembered' /\ VersionsNameOneSpec'
  <2>1. Held(strategies') \subseteq Held(strategies) \ {id}
    BY <1>7 DEF Deleted, Held, TypeOK
  <2>2. \A other \in Ids \ {id} : strategies'[other] = strategies[other]
    BY <1>7 DEF Deleted, TypeOK
  <2>3. UNCHANGED <<used, published>>
    BY <1>7 DEF Deleted
  <2>4. \A other \in Held(strategies') : /\ other \in Held(strategies)
                                        /\ strategies'[other] = strategies[other]
    BY <1>4, <2>1, <2>2
  <2>5. VersionsNameOneSpec'
    BY <2>3 DEF VersionsNameOneSpec
  <2>6. Remembered'
    BY <2>3, <2>4 DEF Remembered
  <2> QED BY <2>5, <2>6
<1>8. ASSUME NEW id \in Ids, Linked(id) PROVE Remembered' /\ VersionsNameOneSpec'
  <2>1. PICK row \in Rows : /\ Put(id, row)
                            /\ row.version = strategies[id].version /\ row.spec = strategies[id].spec
                            /\ \/ row.token = NoToken /\ UNCHANGED used
                               \/ row.token \notin used /\ used' = used \cup {row.token}
    BY <1>8 DEF Linked
  <2>2. id \in Held(strategies) /\ UNCHANGED published /\ NoToken \notin Tokens
    BY <1>8, AdmissionAssumption DEF Linked
  <2> QED BY <1>2, <1>3, <1>4, <2>1, <2>2 DEF Remembered, VersionsNameOneSpec
<1> QED BY <1>1, <1>5, <1>6, <1>7, <1>8, RowSteps

(* VersionsNameOneSpec, and the invariant it rests on.                      *)
THEOREM VersionsHold == Spec => [](VersionsNameOneSpec /\ Remembered)
<1>1. ASSUME Init PROVE VersionsNameOneSpec /\ Remembered
  BY <1>1 DEF Init, VersionsNameOneSpec, Remembered, Held
<1> QED BY <1>1, RememberedStep, AdmissionTypes, PTL DEF Spec

(* RevokedLinksStayDead: a token enters a row only fresh.                   *)
THEOREM RevokedLinksHold == Spec => RevokedLinksStayDead
<1> DEFINE Dead ==
      \A token \in Tokens \cap used, id \in Ids :
        id \in Held(strategies') /\ strategies'[id].token = token =>
          id \in Held(strategies) /\ strategies[id].token = token
<1>1. ASSUME TypeOK, [Next]_vars PROVE Dead
  <2>1. CASE Untouched
    BY <2>1 DEF Untouched, Held
  <2>2. ASSUME NEW id \in Ids, NEW row, strategies' = [strategies EXCEPT ![id] = row],
               row = Absent \/ row.token \notin Tokens \cap used
                            \/ (id \in Held(strategies) /\ row.token = strategies[id].token)
        PROVE  Dead
    BY <1>1, <2>2 DEF Held, TypeOK
  <2>3. ASSUME NEW id \in Ids, Created(id) \/ Updated(id) \/ Deleted(id) \/ Linked(id) PROVE Dead
    BY <2>2, <2>3, AdmissionAssumption DEF Created, Updated, Deleted, Linked, Put
  <2> HIDE DEF Dead
  <2> QED BY <1>1, <2>1, <2>3, RowSteps
<1> QED BY <1>1, AdmissionTypes, PTL DEF Spec, RevokedLinksStayDead
=============================================================================
