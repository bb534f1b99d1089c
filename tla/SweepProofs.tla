----------------------------- MODULE SweepProofs ------------------------------
(***************************************************************************)
(* Theorems about the folds and the grid of SweepPlan, for any requests,   *)
(* axes and caps; what they need of a stored spec is in StrategyProofs.    *)
(*                                                                         *)
(* A fold fits if its number is at most a quotient of the range, so the    *)
(* folds that fit are the first n (FitsAreFirst); a day is tested by the   *)
(* fold whose number is the quotient of its distance from the first test   *)
(* (OneFoldTests).  What a sweep holds was planned for the request it was  *)
(* asked with (Planned), and that is all the property needs to know of it. *)
(*                                                                         *)
(* The cursors of a grid are the numbers below its size, written in places *)
(* as large as the axes (IsCount, AdvanceCounts), so each setting is read  *)
(* once (EverySetting).  What an axis sets is one number at its own place  *)
(* (SetAndSetBack), and a stored spec with other numbers is read back as it*)
(* is (StoredIs): a point's spec has the numbers of the point, and the     *)
(* saved ones put back make the saved spec (AppliedIs).  A run is found by *)
(* quotient and remainder from its window and point (RunsAreProducts).     *)
(***************************************************************************)
EXTENDS StrategyProofs

-----------------------------------------------------------------------------
(* The folds of a range.                                                    *)
LEMMA FoldIs ==
  ASSUME NEW first \in Int, NEW i \in Nat, NEW in \in Nat, NEW out \in Nat,
         NEW m \in Nat, m = i * out, NEW f, f = Fold(first, i, in, out)
  PROVE  /\ f.fold = i
         /\ f.inStart = first + m /\ f.inEnd = first + m + in - 1
         /\ f.outStart = first + m + in /\ f.outEnd = first + m + in + out - 1
  BY DEF Fold

Fits(first, last, in, out) ==
  {i \in 0 .. MaxFolds - 1 : Fold(first, i, in, out).outEnd <= last}

LEMMA FitsAreFirst ==
  ASSUME NEW first \in Int, NEW last \in Int, NEW in \in Nat \ {0}, NEW out \in Nat \ {0},
         Fits(first, last, in, out) # {}
  PROVE  \E n \in Nat \ {0} :
           /\ Cardinality(Fits(first, last, in, out)) = n
           /\ Fits(first, last, in, out) = 0 .. n - 1
           /\ n <= MaxFolds
           /\ n < MaxFolds => first + n * out + in + out - 1 > last
<1>1. PICK fits : fits = Fits(first, last, in, out)
  OBVIOUS
<1>2. PICK max \in Nat \ {0} : max = MaxFolds
  BY SweepAssumption
<1>3. PICK room \in Int : room = last + 1 - first - in - out
  OBVIOUS
<1>4. ASSUME NEW i \in Nat
      PROVE  i \in fits <=> i < max /\ i * out <= room
  <2>1. PICK m \in Nat : m = i * out
    OBVIOUS
  <2>2. Fold(first, i, in, out).outEnd = first + m + in + out - 1
    BY <2>1, FoldIs
  <2>3. i \in fits <=> i < max /\ first + m + in + out - 1 <= last
    BY <1>1, <1>2, <2>2 DEF Fits
  <2>4. QED
    BY <1>3, <2>1, <2>3
<1>5. fits \subseteq Nat
  BY <1>1, <1>2 DEF Fits
<1>6. room \in Nat
  <2>1. PICK i \in fits : i \in Nat
    BY <1>1, <1>5
  <2>2. PICK m \in Nat : m = i * out
    BY <2>1
  <2>3. m <= room
    BY <1>4, <2>1, <2>2
  <2>4. QED
    BY <2>3
<1>7. PICK q \in Nat, m \in Nat : m = q * out /\ m <= room /\ room < m + out
  BY <1>6, Quotient
<1>8. \A i \in Nat : i * out <= room <=> i <= q
  BY <1>6, <1>7, MultiplesUpTo
<1>9. PICK n \in Nat \ {0} : n = IF q + 1 <= max THEN q + 1 ELSE max
  OBVIOUS
<1>10. fits = 0 .. n - 1
  <2>1. \A i \in Nat : i \in fits <=> i < n
    BY <1>4, <1>8, <1>9
  <2>2. \A i \in Nat : i < n <=> i \in 0 .. n - 1
    OBVIOUS
  <2>3. 0 .. n - 1 \subseteq Nat
    OBVIOUS
  <2>4. QED
    BY <1>5, <2>1, <2>2, <2>3
<1>11. Cardinality(fits) = n
  <2>1. Cardinality(0 .. n - 1) = IF 0 > n - 1 THEN 0 ELSE n - 1 - 0 + 1
    BY FS_Interval
  <2>2. QED
    BY <1>10, <2>1
<1>12. n < max => first + n * out + in + out - 1 > last
  <2>1. PICK k \in Nat : k = n * out
    OBVIOUS
  <2>2. n < max => ~ (k <= room)
    BY <1>8, <1>9, <2>1
  <2>3. n < max => first + k + in + out - 1 > last
    BY ONLY k \in Nat, <1>3, first \in Int, last \in Int, in \in Nat, out \in Nat, <2>2
  <2>4. QED
    BY <2>1, <2>3
<1>13. n <= max
  BY <1>9
<1>14. QED
  BY <1>1, <1>2, <1>10, <1>11, <1>12, <1>13

(* A day on or after the first test lies in the test of one fold.           *)
LEMMA OneFoldTests ==
  ASSUME NEW first \in Int, NEW in \in Nat \ {0}, NEW out \in Nat \ {0},
         NEW d \in Int, first + in <= d
  PROVE  \E i \in Nat :
           /\ first + i * out + in <= d /\ d <= first + i * out + in + out - 1
           /\ \A j \in Nat :
                first + j * out + in <= d /\ d <= first + j * out + in + out - 1 => j = i
<1>1. PICK n \in Nat : n = d - first - in
  OBVIOUS
<1>2. PICK q \in Nat, m \in Nat : m = q * out /\ m <= n /\ n < m + out
  BY Quotient
<1>3. ASSUME NEW j \in Nat, NEW k \in Nat, k = j * out,
             first + k + in <= d, d <= first + k + in + out - 1
      PROVE  j = q
  <2>1. k <= n /\ n < k + out
    BY <1>1, <1>3
  <2>2. ~ (j < q)
    <3> SUFFICES ASSUME j < q PROVE FALSE
      OBVIOUS
    <3>1. k + out <= m
      BY <1>2, <1>3, LaterMultiple
    <3>2. QED
      BY <1>2, <2>1, <3>1
  <2>3. ~ (q < j)
    <3> SUFFICES ASSUME q < j PROVE FALSE
      OBVIOUS
    <3>1. m + out <= k
      BY <1>2, <1>3, LaterMultiple
    <3>2. QED
      BY <1>2, <2>1, <3>1
  <2>4. QED
    BY <2>2, <2>3
<1>4. first + m + in <= d /\ d <= first + m + in + out - 1
  BY <1>1, <1>2
<1>5. \A j \in Nat : j * out \in Nat
  OBVIOUS
<1>6. QED
  BY <1>2, <1>3, <1>4, <1>5

(* A sequence of folds that was cut for a request.                          *)
CutFor(request, s) ==
  /\ request.in \in Nat \ {0} /\ request.out \in Nat \ {0}
  /\ Fits(request.first, request.last, request.in, request.out) # {}
  /\ s = [k \in 1 .. Cardinality(Fits(request.first, request.last, request.in, request.out))
             |-> Fold(request.first, k - 1, request.in, request.out)]

(* The folds of a cut are the first n.                                      *)
FirstFolds(n, first, last, in, out, s) ==
  /\ DOMAIN s = 1 .. n /\ Len(s) = n
  /\ \A k \in 1 .. n : s[k] = Fold(first, k - 1, in, out)
  /\ \A i \in 0 .. n - 1 : Fold(first, i, in, out).outEnd <= last
  /\ n < MaxFolds => first + n * out + in + out - 1 > last

LEMMA CutIs ==
  ASSUME NEW request \in Requests, NEW s, CutFor(request, s),
         NEW first, first = request.first, NEW last, last = request.last,
         NEW in, in = request.in, NEW out, out = request.out
  PROVE  /\ first \in Int /\ last \in Int /\ in \in Nat \ {0} /\ out \in Nat \ {0}
         /\ \E n \in Nat \ {0} : FirstFolds(n, first, last, in, out, s)
<1>1. first \in Int /\ last \in Int /\ in \in Nat \ {0} /\ out \in Nat \ {0}
  BY SweepAssumption DEF CutFor, IsRequest
<1>2. PICK fits : fits = Fits(first, last, in, out)
  OBVIOUS
<1>3. PICK n \in Nat \ {0} :
        /\ Cardinality(fits) = n /\ fits = 0 .. n - 1
        /\ n < MaxFolds => first + n * out + in + out - 1 > last
  BY <1>1, <1>2, FitsAreFirst DEF CutFor
<1>4. s = [k \in 1 .. n |-> Fold(first, k - 1, in, out)]
  BY <1>2, <1>3 DEF CutFor
<1>5. \A i \in fits : Fold(first, i, in, out).outEnd <= last
  BY <1>2 DEF Fits
<1>6. DOMAIN s = 1 .. n /\ \A k \in 1 .. n : s[k] = Fold(first, k - 1, in, out)
  BY <1>4
<1>7. Len(s) = n
  BY <1>4
<1>8. FirstFolds(n, first, last, in, out, s)
  BY <1>3, <1>5, <1>6, <1>7 DEF FirstFolds
<1>9. QED
  BY <1>1, <1>8

(* The property, of a cut.                                                  *)
Tile(request, s) ==
  LET folds == ToSet(s)
      days  == Min({f.outStart : f \in folds}) .. Max({f.outEnd : f \in folds})
  IN  /\ \A d \in days : Cardinality({f \in folds : d \in f.outStart .. f.outEnd}) = 1
      /\ \A f \in folds : /\ f.inEnd - f.inStart + 1 = request.in
                          /\ f.outEnd - f.outStart + 1 = request.out
                          /\ (f.inStart .. f.inEnd) \cap days \subseteq
                                UNION {g.outStart .. g.outEnd : g \in {g \in folds : g.fold < f.fold}}
                          /\ request.first <= f.inStart /\ f.outEnd <= request.last
      /\ Len(s) < MaxFolds => Max(days) + request.out > request.last

LEMMA CutsTile ==
  ASSUME NEW request \in Requests, NEW s, CutFor(request, s)
  PROVE  Tile(request, s)
<1>1. PICK first, last, in, out :
        first = request.first /\ last = request.last /\ in = request.in /\ out = request.out
  OBVIOUS
<1>2. first \in Int /\ last \in Int /\ in \in Nat \ {0} /\ out \in Nat \ {0}
  BY <1>1, CutIs
<1>3. PICK n \in Nat \ {0} :
        /\ DOMAIN s = 1 .. n /\ Len(s) = n
        /\ \A k \in 1 .. n : s[k] = Fold(first, k - 1, in, out)
        /\ \A i \in 0 .. n - 1 : Fold(first, i, in, out).outEnd <= last
        /\ n < MaxFolds => first + n * out + in + out - 1 > last
  <2>1. PICK n \in Nat \ {0} : FirstFolds(n, first, last, in, out, s)
    BY <1>1, CutIs
  <2>2. QED
    BY <2>1 DEF FirstFolds
<1>4. PICK F : F = ToSet(s)
  OBVIOUS
<1>5. /\ \A i \in 0 .. n - 1 : Fold(first, i, in, out) \in F
      /\ \A f \in F : \E i \in 0 .. n - 1 : f = Fold(first, i, in, out)
  <2>1. ASSUME NEW i \in 0 .. n - 1 PROVE Fold(first, i, in, out) \in F
    <3>1. i + 1 \in 1 .. n /\ (i + 1) - 1 = i
      OBVIOUS
    <3>2. s[i + 1] = Fold(first, i, in, out)
      BY <1>3, <3>1
    <3>3. s[i + 1] \in ToSet(s)
      BY <1>3, <3>1 DEF ToSet
    <3>4. QED
      BY <1>4, <3>2, <3>3
  <2>2. ASSUME NEW f \in F PROVE \E i \in 0 .. n - 1 : f = Fold(first, i, in, out)
    <3>1. PICK k \in 1 .. n : f = s[k]
      BY <1>3, <1>4 DEF ToSet
    <3>2. k - 1 \in 0 .. n - 1
      OBVIOUS
    <3>3. QED
      BY <1>3, <3>1, <3>2
  <2>3. QED
    BY <2>1, <2>2
<1>6. ASSUME NEW i \in 0 .. n - 1, NEW m, m = i * out, NEW f, f = Fold(first, i, in, out)
      PROVE  /\ m \in Nat /\ f.fold = i
             /\ f.inStart = first + m /\ f.inEnd = first + m + in - 1
             /\ f.outStart = first + m + in /\ f.outEnd = first + m + in + out - 1
  <2>1. m \in Nat /\ i \in Nat
    BY <1>2, <1>6
  <2>2. f = Fold(first, i, in, out) /\ m = i * out /\ in \in Nat /\ out \in Nat
    BY <1>2, <1>6
  <2>3. QED
    BY <1>2, <2>1, <2>2 DEF Fold
<1>7. PICK z \in Nat : z = (n - 1) * out
  BY <1>2
<1>8. \A i \in 0 .. n - 1 : i * out \in Nat /\ i * out <= z
  <2> SUFFICES ASSUME NEW i \in 0 .. n - 1 PROVE i * out \in Nat /\ i * out <= z
    OBVIOUS
  <2>1. PICK m \in Nat : m = i * out
    BY <1>2
  <2>2. CASE i = n - 1
    BY <1>7, <2>1, <2>2
  <2>3. CASE i < n - 1
    <3>1. m + out <= z
      BY <1>2, <1>7, <2>1, <2>3, LaterMultiple
    <3>2. QED
      BY <1>2, <2>1, <3>1
  <2>4. QED
    BY <2>2, <2>3
<1>9. Min({f.outStart : f \in F}) = first + in
  <2>1. PICK S : S = {f.outStart : f \in F}
    OBVIOUS
  <2>2. first + in \in S
    <3>1. 0 \in 0 .. n - 1 /\ 0 * out = 0
      BY <1>2
    <3>2. Fold(first, 0, in, out) \in F /\ Fold(first, 0, in, out).outStart = first + 0 + in
      BY <1>5, <1>6, <3>1
    <3>3. QED
      BY <1>2, <2>1, <3>2
  <2>3. \A y \in S : y \in Int /\ first + in <= y
    <3> SUFFICES ASSUME NEW f \in F PROVE f.outStart \in Int /\ first + in <= f.outStart
      BY <2>1
    <3>1. PICK i \in 0 .. n - 1 : f = Fold(first, i, in, out)
      BY <1>5
    <3>2. PICK m \in Nat : m = i * out
      BY <1>8
    <3>3. f.outStart = first + m + in
      BY <1>6, <3>1, <3>2
    <3>4. QED
      BY <1>2, <3>3
  <2>4. QED
    BY <2>1, <2>2, <2>3, MinIs
<1>10. Max({f.outEnd : f \in F}) = first + z + in + out - 1
  <2>1. PICK S : S = {f.outEnd : f \in F}
    OBVIOUS
  <2>2. first + z + in + out - 1 \in S
    <3>1. n - 1 \in 0 .. n - 1
      OBVIOUS
    <3>2. /\ Fold(first, n - 1, in, out) \in F
          /\ Fold(first, n - 1, in, out).outEnd = first + z + in + out - 1
      BY <1>5, <1>6, <1>7, <3>1
    <3>3. QED
      BY <2>1, <3>2
  <2>3. \A y \in S : y \in Int /\ y <= first + z + in + out - 1
    <3> SUFFICES ASSUME NEW f \in F
                 PROVE  f.outEnd \in Int /\ f.outEnd <= first + z + in + out - 1
      BY <2>1
    <3>1. PICK i \in 0 .. n - 1 : f = Fold(first, i, in, out)
      BY <1>5
    <3>2. PICK m \in Nat : m = i * out /\ m <= z
      BY <1>8
    <3>3. f.outEnd = first + m + in + out - 1
      BY <1>6, <3>1, <3>2
    <3>4. QED
      BY <1>2, <3>2, <3>3
  <2>4. QED
    BY <2>1, <2>2, <2>3, MaxIs
<1>11. PICK end \in Int : end = first + z + in + out - 1
  BY <1>2
<1>12. PICK days : days = first + in .. end
  OBVIOUS
<1>13. days = Min({f.outStart : f \in ToSet(s)}) .. Max({f.outEnd : f \in ToSet(s)})
  BY <1>4, <1>9, <1>10, <1>11, <1>12
(* A day is tested by one fold.                                             *)
<1>14. ASSUME NEW d \in days
       PROVE  \E i \in 0 .. n - 1 :
                /\ first + i * out + in <= d /\ d <= first + i * out + in + out - 1
                /\ \A j \in Nat :
                     first + j * out + in <= d /\ d <= first + j * out + in + out - 1 => j = i
  <2>1. d \in Int /\ first + in <= d /\ d <= end
    BY <1>2, <1>11, <1>12
  <2>2. PICK i \in Nat :
          /\ first + i * out + in <= d /\ d <= first + i * out + in + out - 1
          /\ \A j \in Nat :
               first + j * out + in <= d /\ d <= first + j * out + in + out - 1 => j = i
    BY <1>2, <2>1, OneFoldTests
  <2>3. i <= n - 1
    <3> SUFFICES ASSUME n - 1 < i PROVE FALSE
      OBVIOUS
    <3>1. PICK m \in Nat : m = i * out /\ first + m + in <= d
      BY <1>2, <2>2
    <3>2. n - 1 \in Nat
      OBVIOUS
    <3>3. z + out <= m
      BY <1>2, <1>7, <3>1, <3>2, LaterMultiple
    <3>4. QED
      BY <1>2, <1>11, <2>1, <3>1, <3>3
  <2>4. QED
    BY <2>2, <2>3
<1>15. ASSUME NEW d \in days
       PROVE  Cardinality({f \in F : d \in f.outStart .. f.outEnd}) = 1
  <2>1. PICK i \in 0 .. n - 1 :
          /\ first + i * out + in <= d /\ d <= first + i * out + in + out - 1
          /\ \A j \in Nat :
               first + j * out + in <= d /\ d <= first + j * out + in + out - 1 => j = i
    BY <1>14
  <2>2. d \in Int
    BY <1>12
  <2>3. PICK g : g = Fold(first, i, in, out)
    OBVIOUS
  <2>4. g \in F /\ d \in g.outStart .. g.outEnd
    <3>1. PICK m \in Nat : m = i * out
      BY <1>8
    <3>2. g.outStart = first + m + in /\ g.outEnd = first + m + in + out - 1
      BY <1>6, <2>3, <3>1
    <3>3. QED
      BY <1>2, <1>5, <2>1, <2>2, <2>3, <3>1, <3>2
  <2>5. ASSUME NEW f \in F, d \in f.outStart .. f.outEnd PROVE f = g
    <3>1. PICK j \in 0 .. n - 1 : f = Fold(first, j, in, out)
      BY <1>5
    <3>2. f.outStart = first + j * out + in /\ f.outEnd = first + j * out + in + out - 1
      BY <1>6, <3>1
    <3>3. first + j * out + in <= d /\ d <= first + j * out + in + out - 1
      BY <2>5, <3>2
    <3>4. j = i
      BY <2>1, <3>3
    <3>5. QED
      BY <2>3, <3>1, <3>4
  <2>6. {f \in F : d \in f.outStart .. f.outEnd} = {g}
    BY <2>4, <2>5
  <2>7. QED
    BY <2>6, FS_Singleton
(* What is chosen on and tested all the same was tested by an earlier fold. *)
<1>16. ASSUME NEW f \in F, NEW d \in (f.inStart .. f.inEnd) \cap days
       PROVE  \E g \in F : g.fold < f.fold /\ d \in g.outStart .. g.outEnd
  <2>1. PICK j \in 0 .. n - 1 : f = Fold(first, j, in, out)
    BY <1>5
  <2>2. PICK k \in Nat : k = j * out
    BY <1>8
  <2>3. f.fold = j /\ d <= first + k + in - 1
    <3>1. f.fold = j /\ f.inEnd = first + k + in - 1
      BY <1>6, <2>1, <2>2
    <3>2. QED
      BY <3>1
  <2>4. PICK i \in 0 .. n - 1 :
          first + i * out + in <= d /\ d <= first + i * out + in + out - 1
    BY <1>14
  <2>5. PICK m \in Nat : m = i * out
    BY <1>8
  <2>6. d \in Int /\ first + m + in <= d /\ d <= first + m + in + out - 1
    BY <1>12, <2>4, <2>5
  <2>7. m < k
    BY <1>2, <2>3, <2>6
  <2>8. i < j
    <3> SUFFICES ASSUME j <= i PROVE FALSE
      OBVIOUS
    <3>1. CASE j = i
      BY <2>2, <2>5, <2>7, <3>1
    <3>2. CASE j < i
      <4>1. k + out <= m
        BY <1>2, <2>2, <2>5, <3>2, LaterMultiple
      <4>2. QED
        BY <1>2, <2>7, <4>1
    <3>3. QED
      BY <3>1, <3>2
  <2>9. PICK g : g = Fold(first, i, in, out)
    OBVIOUS
  <2>10. g \in F /\ g.fold = i /\ g.outStart = first + m + in /\ g.outEnd = first + m + in + out - 1
    BY <1>5, <1>6, <2>5, <2>9
  <2>11. QED
    BY <1>2, <2>3, <2>6, <2>8, <2>10
<1>17. ASSUME NEW f \in F
       PROVE  /\ f.inEnd - f.inStart + 1 = in /\ f.outEnd - f.outStart + 1 = out
              /\ first <= f.inStart /\ f.outEnd <= last
  <2>1. PICK i \in 0 .. n - 1 : f = Fold(first, i, in, out)
    BY <1>5
  <2>2. PICK m \in Nat : m = i * out
    BY <1>8
  <2>3. /\ f.inStart = first + m /\ f.inEnd = first + m + in - 1
        /\ f.outStart = first + m + in /\ f.outEnd = first + m + in + out - 1
    BY <1>6, <2>1, <2>2
  <2>4. f.outEnd <= last
    BY <1>3, <2>1
  <2>5. QED
    BY <1>2, <2>3, <2>4
<1>18. Len(s) < MaxFolds => Max(days) + out > last
  <2>1. Max(days) = end
    <3>1. days \in SUBSET Int /\ end \in days /\ \A d \in days : d <= end
      BY <1>2, <1>11, <1>12
    <3>2. QED
      BY <3>1, MaxIs
  <2>2. PICK next \in Nat : next = n * out /\ next = z + out
    BY <1>2, <1>7
  <2>3. n < MaxFolds => first + next + in + out - 1 > last
    BY <1>3, <2>2
  <2>4. n < MaxFolds => end + out > last
    BY ONLY <1>2, <1>11, <2>2, <2>3, z \in Nat
  <2>5. QED
    BY <1>3, <2>1, <2>4
<1>19. QED
  <2>1. \A f \in F : (f.inStart .. f.inEnd) \cap days \subseteq
                        UNION {g.outStart .. g.outEnd : g \in {g \in F : g.fold < f.fold}}
    BY <1>16
  <2>2. QED
    BY <1>1, <1>4, <1>13, <1>15, <1>17, <1>18, <2>1 DEF Tile

-----------------------------------------------------------------------------
(* Planned: what was queued was planned for the request that is remembered. *)
Planned ==
  \/ sweep = None
  \/ asked \in Requests /\ \E stored : sweep = CreateSweep(stored, asked)

(* A sweep was planned for its request at all times, and for no other.      *)
THEOREM SweepInvariant == Spec => []Planned
<1>1. Init => Planned
  BY DEF Init, SweepInit, Planned
<1>2. Planned /\ [Next]_<<strategyVars, sweepVars>> => Planned'
  <2> SUFFICES ASSUME Planned, [Next]_<<strategyVars, sweepVars>> PROVE Planned'
    OBVIOUS
  <2>1. CASE UNCHANGED sweepVars
    BY <2>1 DEF sweepVars, Planned
  <2>2. ASSUME NEW request \in Requests, RequestSweep(request) PROVE Planned'
    BY <2>2 DEF RequestSweep, Planned
  <2>3. QED
    BY <2>1, <2>2 DEF Next
<1>3. QED
  BY <1>1, <1>2, PTL DEF Spec

LEMMA PlannedIsCut ==
  ASSUME NEW request \in Requests, NEW stored, NEW planned,
         planned = CreateSweep(stored, request), planned # Fault, planned.folds # <<>>
  PROVE  CutFor(request, planned.folds)
<1>1. PICK r : r = [request EXCEPT !.kind = ReadKind(request.kind)]
  OBVIOUS
<1>2. r.first = request.first /\ r.last = request.last /\ r.in = request.in /\ r.out = request.out
  BY <1>1, SweepAssumption DEF IsRequest
<1>3. \E axes, folds, points, basket, capital :
        /\ planned = QueueSweep(r, axes, folds, points, basket, capital)
        /\ points # Fault => folds = ReadFolds(r, Len(points))
  <2>1. PICK axes, basket, capital : planned = PlanSweep(stored, r, axes, basket, capital)
    BY <1>1 DEF CreateSweep
  <2>2. QED
    BY <2>1 DEF PlanSweep
<1>4. PICK axes, folds, points, basket, capital :
        /\ planned = QueueSweep(r, axes, folds, points, basket, capital)
        /\ points # Fault => folds = ReadFolds(r, Len(points))
  BY <1>3
<1>5. planned.folds = folds /\ folds # Fault /\ points # Fault
  BY <1>4 DEF QueueSweep
<1>6. folds = Folds(r) /\ folds # Fault
  BY <1>4, <1>5 DEF ReadFolds
<1>7. /\ ~ (r.in < MinFoldDays \/ r.out < MinFoldDays)
      /\ Fits(r.first, r.last, r.in, r.out) # {}
      /\ folds = [k \in 1 .. Cardinality(Fits(r.first, r.last, r.in, r.out))
                    |-> Fold(r.first, k - 1, r.in, r.out)]
  BY <1>6 DEF Folds, Fits
<1>8. request.in \in Nat \ {0} /\ request.out \in Nat \ {0}
  <2>1. PICK least \in Nat \ {0} : least = MinFoldDays
    BY SweepAssumption
  <2>2. PICK in \in Int, out \in Int : in = request.in /\ out = request.out
    BY SweepAssumption DEF IsRequest
  <2>3. in >= least /\ out >= least
    BY <1>2, <1>7, <2>1, <2>2
  <2>4. QED
    BY <2>2, <2>3
<1>9. QED
  BY <1>2, <1>5, <1>7, <1>8 DEF CutFor

(* FoldsTestEachDayOnce: every day between the first test and the last is   *)
(* tested by one fold, none inside its own sample, and no fold that fits is *)
(* left out but by the cap (Folds in folds.go).                             *)
THEOREM FoldsTile == Spec => []FoldsTestEachDayOnce
<1>1. Planned => FoldsTestEachDayOnce
  <2> SUFFICES ASSUME Planned, Queued, sweep.folds # <<>>
               PROVE  Tile(asked, sweep.folds)
    BY DEF FoldsTestEachDayOnce, Tile
  <2>1. PICK request, stored, planned :
          request \in Requests /\ request = asked /\ planned = sweep /\ planned = CreateSweep(stored, request)
    BY DEF Planned, Queued
  <2>2. planned # Fault /\ planned.folds # <<>>
    BY <2>1 DEF Queued
  <2>3. CutFor(request, planned.folds)
    BY <2>1, <2>2, PlannedIsCut
  <2>4. Tile(request, planned.folds)
    BY <2>1, <2>3, CutsTile
  <2>5. QED
    BY <2>1, <2>4
<1>2. QED
  BY <1>1, SweepInvariant, PTL

-----------------------------------------------------------------------------
(* Numbers written in places of different sizes.                            *)

(* How many there are of the first k places.                                *)
IsSizes(p, n, sizes) == p[0] = 1 /\ \A k \in 1 .. n : p[k] = p[k - 1] * sizes[k]

(* What stands in the places, and the number the first k of them read.      *)
Digits(n, sizes) == {c \in [1 .. n -> Nat] : \A k \in 1 .. n : c[k] \in 1 .. sizes[k]}
Counted(x, size, d) == x * size + d
IsCount(q, n, sizes, c) == q[0] = 0 /\ \A k \in 1 .. n : q[k] = Counted(q[k - 1], sizes[k], c[k] - 1)

LEMMA OneDigit ==
  ASSUME NEW x \in Nat, NEW p \in Nat, NEW size \in Nat, NEW d \in 0 .. size - 1, x < p
  PROVE  Counted(x, size, d) \in Nat /\ p * size \in Nat /\ Counted(x, size, d) < p * size
<1>1. x * size \in Nat /\ p * size \in Nat /\ x * size + size <= p * size
  BY LaterMultiple
<1>2. PICK m \in Nat, l \in Nat : m = x * size /\ l = p * size /\ m + size <= l
  BY <1>1
<1>3. m + d \in Nat /\ m + d < l
  BY <1>2
<1>4. QED
  BY <1>2, <1>3 DEF Counted

LEMMA SameDigits ==
  ASSUME NEW x \in Nat, NEW y \in Nat, NEW size \in Nat, NEW d \in 0 .. size - 1, NEW e \in 0 .. size - 1,
         Counted(x, size, d) = Counted(y, size, e)
  PROVE  x = y /\ d = e
<1>1. PICK m \in Nat, l \in Nat : m = x * size /\ l = y * size /\ m + d = l + e
  BY DEF Counted
<1>2. ~ (x < y)
  <2> SUFFICES ASSUME x < y PROVE FALSE
    OBVIOUS
  <2>1. m + size <= l
    BY <1>1, LaterMultiple
  <2>2. QED
    BY <1>1, <2>1
<1>3. ~ (y < x)
  <2> SUFFICES ASSUME y < x PROVE FALSE
    OBVIOUS
  <2>1. l + size <= m
    BY <1>1, LaterMultiple
  <2>2. QED
    BY <1>1, <2>1
<1>4. x = y
  BY <1>2, <1>3
<1>5. m = l
  BY <1>1, <1>4
<1>6. d = e
  BY <1>1, <1>5
<1>7. QED
  BY <1>4, <1>6

LEMMA DigitIs ==
  ASSUME NEW n \in Nat, NEW sizes \in [1 .. n -> Nat], NEW c \in Digits(n, sizes), NEW k \in 1 .. n
  PROVE  /\ sizes[k] \in Nat /\ c[k] \in Nat /\ c[k] \in 1 .. sizes[k]
         /\ c[k] - 1 \in 0 .. sizes[k] - 1
<1>1. c[k] \in 1 .. sizes[k]
  BY DEF Digits
<1>2. PICK size \in Nat : size = sizes[k]
  OBVIOUS
<1>3. PICK x \in 1 .. size : x = c[k]
  BY <1>1, <1>2
<1>4. x - 1 \in 0 .. size - 1
  OBVIOUS
<1>5. QED
  BY <1>1, <1>2, <1>3, <1>4

LEMMA SizesExist ==
  ASSUME NEW n \in Nat, NEW sizes \in [1 .. n -> Nat]
  PROVE  \E p \in [0 .. n -> Nat] : IsSizes(p, n, sizes)
<1>1. PICK step : step = [k \in 1 .. n |-> [v \in Nat |-> v * sizes[k]]]
  OBVIOUS
<1>2. StepsIn(n, Nat, step)
  BY <1>1 DEF StepsIn
<1>3. 1 \in Nat
  OBVIOUS
<1>4. PICK p \in [0 .. n -> Nat] : IsFold(p, n, 1, step)
  BY <1>2, <1>3, Folding
<1>5. IsSizes(p, n, sizes)
  <2>1. ASSUME NEW k \in 1 .. n PROVE p[k] = p[k - 1] * sizes[k]
    <3>1. p[k - 1] \in Nat /\ p[k] = step[k][p[k - 1]]
      BY <1>4 DEF IsFold
    <3>2. QED
      BY <1>1, <3>1
  <2>2. QED
    BY <1>4, <2>1 DEF IsFold, IsSizes
<1>6. QED
  BY <1>5

LEMMA CountExists ==
  ASSUME NEW n \in Nat, NEW sizes \in [1 .. n -> Nat], NEW c \in Digits(n, sizes)
  PROVE  \E q \in [0 .. n -> Nat] : IsCount(q, n, sizes, c)
<1>1. PICK step : step = [k \in 1 .. n |-> [v \in Nat |-> Counted(v, sizes[k], c[k] - 1)]]
  OBVIOUS
<1>2. StepsIn(n, Nat, step)
  <2> SUFFICES ASSUME NEW k \in 1 .. n, NEW v \in Nat PROVE step[k][v] \in Nat
    BY DEF StepsIn
  <2>1. c[k] \in 1 .. sizes[k]
    BY DEF Digits
  <2>2. PICK m \in Nat, d \in Nat : m = v * sizes[k] /\ d = c[k] - 1
    BY <2>1
  <2>3. step[k][v] = m + d
    BY <1>1, <2>2 DEF Counted
  <2>4. QED
    BY <2>3
<1>3. 0 \in Nat
  OBVIOUS
<1>4. PICK q \in [0 .. n -> Nat] : IsFold(q, n, 0, step)
  BY <1>2, <1>3, Folding
<1>5. IsCount(q, n, sizes, c)
  <2>1. ASSUME NEW k \in 1 .. n PROVE q[k] = Counted(q[k - 1], sizes[k], c[k] - 1)
    <3>1. q[k - 1] \in Nat /\ q[k] = step[k][q[k - 1]]
      BY <1>4 DEF IsFold
    <3>2. QED
      BY <1>1, <3>1
  <2>2. QED
    BY <1>4, <2>1 DEF IsFold, IsCount
<1>6. QED
  BY <1>5

(* There are as many numbers as the places have room for.                   *)
LEMMA CountIsSmall ==
  ASSUME NEW n \in Nat, NEW sizes \in [1 .. n -> Nat], NEW c \in Digits(n, sizes),
         NEW p \in [0 .. n -> Nat], IsSizes(p, n, sizes),
         NEW q \in [0 .. n -> Nat], IsCount(q, n, sizes, c)
  PROVE  q[n] < p[n]
<1> DEFINE P == {k \in 0 .. n : q[k] < p[k]}
<1>1. 0 \in P
  BY DEF IsSizes, IsCount
<1>2. ASSUME NEW k \in 0 .. n - 1, k \in P PROVE k + 1 \in P
  <2>1. PICK j \in 1 .. n : j = k + 1 /\ j - 1 = k
    OBVIOUS
  <2>2. PICK size \in Nat : size = sizes[j]
    OBVIOUS
  <2>7. PICK d \in 0 .. size - 1 : d = c[j] - 1
    BY <2>2, DigitIs
  <2>3. q[k] \in Nat /\ p[k] \in Nat /\ q[k] < p[k]
    BY <1>2
  <2>4. Counted(q[k], size, d) < p[k] * size
    BY <2>3, <2>7, OneDigit
  <2>5. q[j] = Counted(q[k], size, d) /\ p[j] = p[k] * size
    BY <2>1, <2>2, <2>7 DEF IsSizes, IsCount
  <2>6. QED
    BY <2>1, <2>4, <2>5
<1>3. QED
  <2>1. 0 \in 0 .. n /\ n \in 0 .. n
    OBVIOUS
  <2> HIDE DEF P
  <2>2. \A k \in 0 .. n : k \in P
    BY <1>1, <1>2, <2>1, Climb
  <2>3. n \in P
    BY <2>1, <2>2
  <2>4. QED
    BY <2>3 DEF P

(* A number is written in one way.                                          *)
LEMMA CountIsOne ==
  ASSUME NEW n \in Nat, NEW sizes \in [1 .. n -> Nat], NEW c \in Digits(n, sizes), NEW d \in Digits(n, sizes),
         NEW q \in [0 .. n -> Nat], IsCount(q, n, sizes, c),
         NEW r \in [0 .. n -> Nat], IsCount(r, n, sizes, d), q[n] = r[n]
  PROVE  c = d
<1>1. ASSUME NEW k \in 1 .. n, q[k] = r[k] PROVE q[k - 1] = r[k - 1] /\ c[k] = d[k]
  <2>0. PICK size \in Nat : size = sizes[k]
    OBVIOUS
  <2>1. PICK x \in 0 .. size - 1 : x = c[k] - 1
    BY <2>0, DigitIs
  <2>7. PICK y \in 0 .. size - 1 : y = d[k] - 1
    BY <2>0, DigitIs
  <2>2. PICK a \in Nat, b \in Nat : a = q[k - 1] /\ b = r[k - 1]
    OBVIOUS
  <2>3. Counted(a, size, x) = Counted(b, size, y)
    BY <1>1, <2>0, <2>1, <2>2, <2>7 DEF IsCount
  <2>4. a = b /\ x = y
    BY <2>3, SameDigits
  <2>5. PICK g \in Nat, h \in Nat : g = c[k] /\ h = d[k]
    BY DigitIs
  <2>6. g - 1 = h - 1
    BY <2>1, <2>4, <2>5, <2>7
  <2>8. g = h
    BY <2>6
  <2>9. QED
    BY <2>2, <2>4, <2>5, <2>8
<1> DEFINE P == {j \in 0 .. n : q[n - j] = r[n - j]}
<1>2. \A j \in 0 .. n : j \in P
  <2>1. 0 \in P
    OBVIOUS
  <2>2. ASSUME NEW j \in 0 .. n - 1, j \in P PROVE j + 1 \in P
    <3>1. PICK k \in 1 .. n : k = n - j /\ k - 1 = n - (j + 1)
      <4>1. n - j \in 1 .. n /\ (n - j) - 1 = n - (j + 1)
        OBVIOUS
      <4>2. QED
        BY <4>1
    <3>2. q[k - 1] = r[k - 1]
      BY <1>1, <2>2, <3>1
    <3>3. QED
      BY <3>1, <3>2
  <2>3. 0 \in 0 .. n
    OBVIOUS
  <2> HIDE DEF P
  <2>4. QED
    BY <2>1, <2>2, <2>3, Climb
<1>3. \A k \in 1 .. n : c[k] = d[k]
  <2> SUFFICES ASSUME NEW k \in 1 .. n PROVE c[k] = d[k]
    OBVIOUS
  <2>1. n - k \in 0 .. n /\ n - (n - k) = k
    OBVIOUS
  <2>2. q[k] = r[k]
    BY <1>2, <2>1
  <2>3. QED
    BY <1>1, <2>2
<1>4. QED
  BY <1>3 DEF Digits

-----------------------------------------------------------------------------
(* The odometer.                                                            *)

(* Axes with so many values each.                                           *)
AreAxes(axes, n, sizes) ==
  /\ n \in Nat /\ Len(axes) = n /\ DOMAIN axes = 1 .. n
  /\ sizes \in [1 .. n -> Nat]
  /\ \A k \in 1 .. n : Len(axes[k].values) = sizes[k]

AtEnd(sizes, c, k) == c[k] = sizes[k]

LEMMA AdvanceIs ==
  ASSUME NEW axes, NEW n, NEW sizes, AreAxes(axes, n, sizes), NEW c \in Digits(n, sizes),
         NEW t \in 1 .. n, ~AtEnd(sizes, c, t), \A k \in t + 1 .. n : AtEnd(sizes, c, k)
  PROVE  /\ Advance(axes, c) \in Digits(n, sizes)
         /\ \A k \in 1 .. n : Advance(axes, c)[k] = IF k < t THEN c[k] ELSE IF k = t THEN c[k] + 1 ELSE 1
<1>1. PICK next : next = [k \in 1 .. n |-> IF k < t THEN c[k] ELSE IF k = t THEN c[k] + 1 ELSE 1]
  OBVIOUS
<1>2. n \in Nat /\ sizes \in [1 .. n -> Nat]
  BY DEF AreAxes
<1>3. \A k \in 1 .. n : c[k] = Len(axes[k].values) <=> AtEnd(sizes, c, k)
  BY DEF AreAxes, AtEnd
<1>4. ASSUME NEW k \in 1 .. n
      PROVE  (IF ~(\A j \in k + 1 .. n : c[j] = Len(axes[j].values)) THEN c[k]
              ELSE IF c[k] = Len(axes[k].values) THEN 1 ELSE c[k] + 1) = next[k]
  <2>1. \A j \in k + 1 .. n : j \in 1 .. n
    BY <1>2
  <2>2. CASE k < t
    <3>1. t \in k + 1 .. n
      BY <1>2, <2>2
    <3>2. ~(\A j \in k + 1 .. n : c[j] = Len(axes[j].values))
      BY <1>3, <3>1
    <3>3. next[k] = c[k]
      BY <1>1, <2>2
    <3>4. QED
      BY <3>2, <3>3
  <2>3. CASE k = t
    <3>1. \A j \in k + 1 .. n : c[j] = Len(axes[j].values)
      BY <1>3, <2>1, <2>3
    <3>2. c[k] # Len(axes[k].values)
      BY <1>3, <2>3
    <3>3. next[k] = c[k] + 1
      BY <1>1, <2>3
    <3>4. QED
      BY <3>1, <3>2, <3>3
  <2>4. CASE t < k
    <3>1. k \in t + 1 .. n /\ \A j \in k + 1 .. n : j \in t + 1 .. n
      BY <1>2, <2>4
    <3>2. \A j \in k + 1 .. n : c[j] = Len(axes[j].values)
      BY <1>3, <2>1, <3>1
    <3>3. c[k] = Len(axes[k].values)
      BY <1>3, <3>1
    <3>4. next[k] = 1
      BY <1>1, <2>4
    <3>5. QED
      BY <3>2, <3>3, <3>4
  <2>5. QED
    BY <1>2, <2>2, <2>3, <2>4
<1>5. Advance(axes, c) = next
  <2>1. /\ DOMAIN axes = 1 .. n /\ Len(axes) = n
    BY DEF AreAxes
  <2>2. Advance(axes, c) = [k \in 1 .. n |->
          IF ~(\A j \in k + 1 .. n : c[j] = Len(axes[j].values)) THEN c[k]
          ELSE IF c[k] = Len(axes[k].values) THEN 1 ELSE c[k] + 1]
    BY <2>1 DEF Advance
  <2>3. QED
    BY <1>1, <1>4, <2>2
<1>6. ASSUME NEW k \in 1 .. n PROVE next[k] \in Nat /\ next[k] \in 1 .. sizes[k]
  <2>1. c[k] \in 1 .. sizes[k] /\ c[k] \in Nat /\ sizes[k] \in Nat
    BY <1>2 DEF Digits
  <2>2. k = t => c[k] # sizes[k]
    BY DEF AtEnd
  <2>3. next[k] = IF k < t THEN c[k] ELSE IF k = t THEN c[k] + 1 ELSE 1
    BY <1>1
  <2>4. QED
    BY <2>1, <2>2, <2>3
<1>7. next \in Digits(n, sizes)
  <2>1. next \in [1 .. n -> Nat]
    BY <1>1, <1>6
  <2>2. QED
    BY <1>6, <2>1 DEF Digits
<1>8. QED
  BY <1>1, <1>5, <1>7

(* If every axis is at its end, no number is left.                          *)
LEMMA AllAtEnd ==
  ASSUME NEW n \in Nat, NEW sizes \in [1 .. n -> Nat], NEW c \in Digits(n, sizes),
         NEW p \in [0 .. n -> Nat], IsSizes(p, n, sizes),
         NEW q \in [0 .. n -> Nat], IsCount(q, n, sizes, c), \A k \in 1 .. n : AtEnd(sizes, c, k)
  PROVE  q[n] + 1 = p[n]
<1> DEFINE P == {k \in 0 .. n : q[k] + 1 = p[k]}
<1>1. 0 \in P
  BY DEF IsSizes, IsCount, Counted
<1>2. ASSUME NEW k \in 0 .. n - 1, k \in P PROVE k + 1 \in P
  <2>1. PICK j \in 1 .. n : j = k + 1 /\ j - 1 = k
    OBVIOUS
  <2>2. PICK size \in Nat : size = sizes[j] /\ c[j] = size
    BY DEF AtEnd
  <2>3. PICK x \in Nat : x = q[k] /\ p[k] = x + 1
    BY <1>2
  <2>4. q[j] = x * size + (size - 1) /\ p[j] = (x + 1) * size
    BY <2>1, <2>2, <2>3 DEF IsSizes, IsCount, Counted
  <2>5. PICK m \in Nat : m = x * size
    BY <2>2, <2>3
  <2>6. (x + 1) * size = m + size
    BY <2>5
  <2>7. q[j] + 1 = p[j]
    BY <2>4, <2>5, <2>6
  <2>8. QED
    BY <2>1, <2>7
<1>3. QED
  <2>1. 0 \in 0 .. n /\ n \in 0 .. n
    OBVIOUS
  <2> HIDE DEF P
  <2>2. \A k \in 0 .. n : k \in P
    BY <1>1, <1>2, <2>1, Climb
  <2>3. n \in P
    BY <2>1, <2>2
  <2>4. QED
    BY <2>3 DEF P

LEMMA LastNotAtEnd ==
  ASSUME NEW n \in Nat, NEW sizes, NEW c, \E k \in 1 .. n : ~AtEnd(sizes, c, k)
  PROVE  \E t \in 1 .. n : ~AtEnd(sizes, c, t) /\ \A k \in t + 1 .. n : AtEnd(sizes, c, k)
<1> DEFINE S == {j \in 0 .. n - 1 : ~AtEnd(sizes, c, n - j)}
<1>1. PICK k \in 1 .. n : ~AtEnd(sizes, c, k)
  OBVIOUS
<1>2. n - k \in 0 .. n - 1 /\ n - (n - k) = k
  OBVIOUS
<1>3. S \in SUBSET Nat /\ S # {}
  BY <1>1, <1>2
<1>4. PICK m \in S : \A j \in S : m <= j
  BY <1>3, LeastNatural
<1>5. PICK t \in 1 .. n : t = n - m
  OBVIOUS
<1>6. ~AtEnd(sizes, c, t)
  BY <1>4, <1>5
<1>7. ASSUME NEW j \in t + 1 .. n PROVE AtEnd(sizes, c, j)
  <2>1. n - j \in 0 .. n - 1 /\ n - (n - j) = j /\ n - j < m
    BY <1>5
  <2>2. n - j \notin S
    <3>1. PICK i \in Nat : i = n - j /\ i < m
      BY <2>1
    <3>2. m \in Nat /\ i \notin S
      BY <1>4, <3>1
    <3>3. QED
      BY <3>1, <3>2
  <2>3. QED
    BY <2>1, <2>2
<1>8. QED
  BY <1>6, <1>7

(* c reads m.                                                               *)
ReadsAs(n, sizes, c, m) == \E q \in [0 .. n -> Nat] : IsCount(q, n, sizes, c) /\ q[n] = m

(* An advance counts one further.                                           *)
LEMMA AdvanceCounts ==
  ASSUME NEW axes, NEW n, NEW sizes, AreAxes(axes, n, sizes), NEW c \in Digits(n, sizes),
         NEW p \in [0 .. n -> Nat], IsSizes(p, n, sizes), NEW m, ReadsAs(n, sizes, c, m), m + 1 # p[n]
  PROVE  Advance(axes, c) \in Digits(n, sizes) /\ ReadsAs(n, sizes, Advance(axes, c), m + 1)
<1>0. PICK q \in [0 .. n -> Nat] : IsCount(q, n, sizes, c) /\ q[n] = m
  BY DEF ReadsAs
<1>1. n \in Nat /\ sizes \in [1 .. n -> Nat]
  BY DEF AreAxes
<1>2. PICK t \in 1 .. n : ~AtEnd(sizes, c, t) /\ \A k \in t + 1 .. n : AtEnd(sizes, c, k)
  <2>1. \E k \in 1 .. n : ~AtEnd(sizes, c, k)
    BY <1>0, <1>1, AllAtEnd
  <2>2. QED
    BY <1>1, <2>1, LastNotAtEnd
<1>3. PICK d \in Digits(n, sizes) :
        /\ d = Advance(axes, c)
        /\ \A k \in 1 .. n : d[k] = IF k < t THEN c[k] ELSE IF k = t THEN c[k] + 1 ELSE 1
  BY <1>2, AdvanceIs
<1>4. PICK r \in [0 .. n -> Nat] : IsCount(r, n, sizes, d)
  BY <1>1, CountExists
<1> DEFINE P == {k \in 0 .. t - 1 : r[k] = q[k]}
           Q == {k \in t .. n : r[k] = q[k] + 1}
<1>5. r[t - 1] = q[t - 1]
  <2>1. 0 \in P
    BY <1>0, <1>4 DEF IsCount
  <2>2. ASSUME NEW k \in 0 .. (t - 1) - 1, k \in P PROVE k + 1 \in P
    <3>1. PICK j \in 1 .. n : j = k + 1 /\ j - 1 = k /\ j < t /\ j \in 0 .. t - 1
      BY <1>1
    <3>2. d[j] = c[j]
      BY <1>3, <3>1
    <3>3. r[j] = q[j]
      BY <1>0, <1>4, <2>2, <3>1, <3>2 DEF IsCount
    <3>4. QED
      BY <3>1, <3>3
  <2>3. t - 1 \in Nat /\ 0 \in 0 .. t - 1 /\ t - 1 \in 0 .. t - 1
    BY <1>1
  <2> HIDE DEF P
  <2>4. \A k \in 0 .. t - 1 : k \in P
    BY <2>1, <2>2, <2>3, Climb
  <2>5. t - 1 \in P
    BY <2>3, <2>4
  <2>6. QED
    BY <2>5 DEF P
<1>6. r[t] = q[t] + 1
  <2>1. PICK z : z = q[t - 1] * sizes[t]
    OBVIOUS
  <2>2. z \in Nat /\ c[t] \in Nat
    <3>0. t - 1 \in 0 .. n
      BY <1>1
    <3>1. PICK a \in Nat, b \in Nat : a = q[t - 1] /\ b = sizes[t]
      BY <1>1, <3>0
    <3>2. z = a * b
      BY <2>1, <3>1
    <3>3. c[t] \in Nat
      BY <1>1, DigitIs
    <3>4. QED
      BY <3>2, <3>3
  <2>3. q[t] = z + (c[t] - 1) /\ r[t] = z + (c[t] + 1 - 1)
    <3>1. d[t] = c[t] + 1
      BY <1>1, <1>3
    <3>2. q[t] = q[t - 1] * sizes[t] + (c[t] - 1) /\ r[t] = r[t - 1] * sizes[t] + (d[t] - 1)
      BY <1>0, <1>4 DEF IsCount, Counted
    <3>3. PICK a : a = r[t - 1] * sizes[t] /\ r[t] = a + (d[t] - 1)
      BY <3>2
    <3>4. a = z
      BY <1>5, <2>1, <3>3
    <3>5. r[t] = z + (c[t] + 1 - 1)
      BY <2>2, <3>1, <3>3, <3>4
    <3>6. q[t] = z + (c[t] - 1)
      BY <2>1, <3>2
    <3>7. QED
      BY <3>5, <3>6
  <2>4. QED
    BY <2>2, <2>3
<1>7. r[n] = q[n] + 1
  <2>1. t \in Q
    BY <1>1, <1>6
  <2>2. ASSUME NEW k \in t .. n - 1, k \in Q PROVE k + 1 \in Q
    <3>1. PICK j \in 1 .. n : j = k + 1 /\ j - 1 = k /\ t < j /\ j \in t .. n /\ k \in 0 .. n
      BY <1>1
    <3>2. d[j] = 1
      BY <1>3, <3>1
    <3>10. j \in t + 1 .. n
      BY <1>1, <3>1
    <3>3. PICK size \in Nat : size = sizes[j] /\ c[j] = size
      BY <1>1, <1>2, <3>10 DEF AtEnd
    <3>4. PICK x \in Nat : x = q[k] /\ r[k] = x + 1
      BY <2>2, <3>1
    <3>5. q[j] = x * size + (size - 1) /\ r[j] = (x + 1) * size + (1 - 1)
      BY <1>0, <1>4, <3>1, <3>2, <3>3, <3>4 DEF IsCount, Counted
    <3>6. PICK z \in Nat : z = x * size
      BY <3>3, <3>4
    <3>7. (x + 1) * size = z + size
      BY <3>6
    <3>8. r[j] = q[j] + 1
      BY <3>5, <3>6, <3>7
    <3>9. QED
      BY <3>1, <3>8
  <2>3. t \in 0 .. n /\ n \in t .. n
    BY <1>1
  <2> HIDE DEF Q
  <2>4. \A k \in t .. n : k \in Q
    BY <1>1, <2>1, <2>2, <2>3, Climb
  <2>5. n \in Q
    BY <2>3, <2>4
  <2>6. QED
    BY <2>5 DEF Q
<1>8. ReadsAs(n, sizes, d, m + 1)
  BY <1>0, <1>4, <1>7 DEF ReadsAs
<1>9. QED
  BY <1>3, <1>8

-----------------------------------------------------------------------------
(* The cursors of the grid: every setting of the odometer once.             *)

LEMMA GridSizeIs ==
  ASSUME NEW axes, NEW n, NEW sizes, AreAxes(axes, n, sizes)
  PROVE  \E p \in [0 .. n -> Nat] : IsSizes(p, n, sizes) /\ GridSize(axes) = p[n]
<1>1. n \in Nat /\ Len(axes) = n /\ sizes \in [1 .. n -> Nat] /\ \A k \in 1 .. n : Len(axes[k].values) = sizes[k]
  BY DEF AreAxes
<1>2. PICK p \in [0 .. n -> Nat] : IsSizes(p, n, sizes)
  BY <1>1, SizesExist
<1> DEFINE Is(g) == g = [k \in 0 .. n |-> IF k = 0 THEN 1 ELSE g[k - 1] * Len(axes[k].values)]
<1>3. Is(p)
  <2>1. ASSUME NEW k \in 0 .. n PROVE p[k] = IF k = 0 THEN 1 ELSE p[k - 1] * Len(axes[k].values)
    <3>1. CASE k = 0
      BY <1>2, <3>1 DEF IsSizes
    <3>2. CASE k # 0
      <4>1. k \in 1 .. n
        BY <1>1, <3>2
      <4>2. p[k] = p[k - 1] * sizes[k] /\ Len(axes[k].values) = sizes[k]
        BY <1>1, <1>2, <4>1 DEF IsSizes
      <4>3. QED
        BY <3>2, <4>2
    <3>3. QED
      BY <3>1, <3>2
  <2>2. p = [k \in 0 .. n |-> IF k = 0 THEN 1 ELSE p[k - 1] * Len(axes[k].values)]
    BY <2>1
  <2>3. QED
    BY <2>2
<1>4. PICK g : g = CHOOSE h : Is(h)
  OBVIOUS
<1>5. Is(g)
  <2> HIDE DEF Is
  <2>1. QED
    BY <1>3, <1>4
<1>6. GridSize(axes) = g[n]
  BY <1>1, <1>4 DEF GridSize
<1>7. IsSizes(g, n, sizes)
  <2>1. g[0] = 1
    BY <1>1, <1>5
  <2>2. ASSUME NEW k \in 1 .. n PROVE g[k] = g[k - 1] * sizes[k]
    <3>1. k \in 0 .. n /\ k # 0
      OBVIOUS
    <3>2. g[k] = IF k = 0 THEN 1 ELSE g[k - 1] * Len(axes[k].values)
      BY <1>5, <3>1
    <3>3. QED
      BY <1>1, <3>1, <3>2
  <2>3. QED
    BY <2>1, <2>2 DEF IsSizes
<1> DEFINE P == {k \in 0 .. n : g[k] \in Nat}
<1>8. \A k \in 0 .. n : k \in P
  <2>1. 0 \in P
    BY <1>1, <1>7 DEF IsSizes
  <2>2. ASSUME NEW k \in 0 .. n - 1, k \in P PROVE k + 1 \in P
    <3>1. PICK j \in 1 .. n : j = k + 1 /\ j - 1 = k
      BY <1>1
    <3>2. PICK a \in Nat, b \in Nat : a = g[k] /\ b = sizes[j]
      BY <1>1, <2>2
    <3>3. g[j] = a * b
      BY <1>7, <3>1, <3>2 DEF IsSizes
    <3>4. QED
      BY <3>1, <3>3
  <2>3. 0 \in 0 .. n
    BY <1>1
  <2> HIDE DEF P
  <2>4. QED
    BY <1>1, <2>1, <2>2, <2>3, Climb
<1>9. g \in [0 .. n -> Nat]
  <2>1. \A k \in 0 .. n : g[k] \in Nat
    BY <1>8
  <2>2. DOMAIN g = 0 .. n /\ g = [k \in 0 .. n |-> g[k]]
    <3>1. \A f : Is(f) => DOMAIN f = 0 .. n /\ f = [k \in 0 .. n |-> f[k]]
      OBVIOUS
    <3> HIDE DEF Is
    <3>2. QED
      BY <1>5, <3>1
  <2>3. QED
    BY <2>1, <2>2
<1>10. QED
  BY <1>6, <1>7, <1>9

(* The first is all ones, and each is an advance of the one before.         *)
AreCursors(cur, axes, n, total) ==
  /\ DOMAIN cur = 1 .. total
  /\ \A i \in 1 .. total : cur[i] = IF i = 1 THEN [k \in 1 .. n |-> 1] ELSE Advance(axes, cur[i - 1])

LEMMA CursorsAre ==
  ASSUME NEW axes, NEW n, NEW sizes, AreAxes(axes, n, sizes), NEW total \in Nat, total = GridSize(axes)
  PROVE  AreCursors(Cursors(axes), axes, n, total)
<1>1. n \in Nat /\ DOMAIN axes = 1 .. n
  BY DEF AreAxes
<1>2. PICK one : one = [k \in 1 .. n |-> 1]
  OBVIOUS
<1>3. PICK V : V = [1 .. n -> Nat]
  OBVIOUS
<1>4. one \in V
  BY <1>2, <1>3
<1>5. PICK step : step = [k \in 1 .. total |-> [v \in V |-> Advance(axes, v)]]
  OBVIOUS
<1>6. StepsIn(total, V, step)
  <2> SUFFICES ASSUME NEW k \in 1 .. total, NEW v \in V PROVE Advance(axes, v) \in V
    BY <1>5 DEF StepsIn
  <2>1. \A j \in 1 .. n : v[j] \in Nat /\ v[j] + 1 \in Nat
    BY <1>3
  <2>2. QED
    BY <1>1, <1>3, <2>1 DEF Advance
<1>7. PICK f \in [0 .. total -> V] : IsFold(f, total, one, step)
  BY <1>4, <1>6, Folding
<1> DEFINE Is(g) == g = [i \in 1 .. total |-> IF i = 1 THEN [k \in DOMAIN axes |-> 1] ELSE Advance(axes, g[i - 1])]
<1>8. PICK c : c = [i \in 1 .. total |-> f[i - 1]]
  OBVIOUS
<1>9. Is(c)
  <2>1. ASSUME NEW i \in 1 .. total
        PROVE  f[i - 1] = IF i = 1 THEN [k \in DOMAIN axes |-> 1] ELSE Advance(axes, c[i - 1])
    <3>1. CASE i = 1
      BY <1>1, <1>2, <1>7, <3>1 DEF IsFold
    <3>2. CASE i # 1
      <4>1. PICK j \in 1 .. total : j = i - 1
        BY <3>2
      <4>2. j - 1 \in 0 .. total
        OBVIOUS
      <4>3. f[j] = step[j][f[j - 1]] /\ f[j - 1] \in V /\ c[j] = f[j - 1]
        BY <1>7, <1>8, <4>2 DEF IsFold
      <4>4. f[j] = Advance(axes, c[j])
        BY <1>5, <4>3
      <4>5. QED
        BY <3>2, <4>1, <4>4
    <3>3. QED
      BY <3>1, <3>2
  <2>2. c = [i \in 1 .. total |-> IF i = 1 THEN [k \in DOMAIN axes |-> 1] ELSE Advance(axes, c[i - 1])]
    BY <1>8, <2>1
  <2>3. QED
    BY <2>2
<1>10. PICK g : g = CHOOSE h : Is(h)
  OBVIOUS
<1>11. Is(g)
  <2> HIDE DEF Is
  <2>1. QED
    BY <1>9, <1>10
<1>12. Cursors(axes) = g
  BY <1>10 DEF Cursors
<1>13. AreCursors(g, axes, n, total)
  <2>1. \A h : Is(h) => DOMAIN h = 1 .. total
    OBVIOUS
  <2>2. DOMAIN g = 1 .. total
    <3> HIDE DEF Is
    <3>1. QED
      BY <1>11, <2>1
  <2>3. \A i \in 1 .. total : g[i] = IF i = 1 THEN [k \in 1 .. n |-> 1] ELSE Advance(axes, g[i - 1])
    BY <1>1, <1>11
  <2>4. QED
    BY <2>2, <2>3 DEF AreCursors
<1>14. QED
  BY <1>12, <1>13

LEMMA CountAgrees ==
  ASSUME NEW n \in Nat, NEW sizes, NEW c, NEW q, IsCount(q, n, sizes, c), NEW r, IsCount(r, n, sizes, c)
  PROVE  q[n] = r[n]
<1> DEFINE P == {k \in 0 .. n : q[k] = r[k]}
<1>1. 0 \in P
  BY DEF IsCount
<1>2. ASSUME NEW k \in 0 .. n - 1, k \in P PROVE k + 1 \in P
  <2>1. PICK j \in 1 .. n : j = k + 1 /\ j - 1 = k
    OBVIOUS
  <2>2. q[j] = r[j]
    BY <1>2, <2>1 DEF IsCount
  <2>3. QED
    BY <2>1, <2>2
<1>3. 0 \in 0 .. n /\ n \in 0 .. n
  OBVIOUS
<1> HIDE DEF P
<1>4. \A k \in 0 .. n : k \in P
  BY <1>1, <1>2, <1>3, Climb
<1>5. n \in P
  BY <1>3, <1>4
<1>6. QED
  BY <1>5 DEF P

(* The odometer goes through every setting, each once.                      *)
(* Each setting is read once.                                               *)
ReadOnce(cur, total, n, sizes) ==
  /\ \A i \in 1 .. total : cur[i] \in Digits(n, sizes)
  /\ \A c \in Digits(n, sizes) : \E i \in 1 .. total : \A j \in 1 .. total : cur[j] = c <=> j = i

LEMMA EverySetting ==
  ASSUME NEW axes, NEW n, NEW sizes, AreAxes(axes, n, sizes), NEW total \in Nat, total = GridSize(axes)
  PROVE  ReadOnce(Cursors(axes), total, n, sizes)
<1>1. n \in Nat /\ sizes \in [1 .. n -> Nat]
  BY DEF AreAxes
<1>2. PICK p \in [0 .. n -> Nat] : IsSizes(p, n, sizes) /\ total = p[n]
  BY GridSizeIs
<1>3. PICK cur : cur = Cursors(axes) /\ AreCursors(cur, axes, n, total)
  BY CursorsAre
<1> DEFINE P == {i \in 1 .. total : cur[i] \in Digits(n, sizes) /\ ReadsAs(n, sizes, cur[i], i - 1)}
<1>4. ASSUME NEW i \in 1 .. total, \A k \in 1 .. i - 1 : k \in P PROVE i \in P
  <2>1. CASE i = 1
    <3>1. PICK one : one = [k \in 1 .. n |-> 1]
      OBVIOUS
    <3>2. cur[i] = one
      BY <1>3, <2>1, <3>1 DEF AreCursors
    <3>3. PICK zero : zero = [k \in 0 .. n |-> 0]
      OBVIOUS
    <3>4. ASSUME NEW k \in 1 .. n PROVE sizes[k] # 0
      <4>1. SUFFICES ASSUME sizes[k] = 0 PROVE FALSE
        OBVIOUS
      <4> DEFINE Q == {j \in k .. n : p[j] = 0}
      <4>2. k \in Q
        <5>1. PICK a \in Nat : a = p[k - 1]
          BY <1>1
        <5>2. p[k] = a * 0
          BY <1>2, <4>1, <5>1 DEF IsSizes
        <5>3. QED
          BY <1>1, <5>2
      <4>3. ASSUME NEW j \in k .. n - 1, j \in Q PROVE j + 1 \in Q
        <5>1. PICK l \in 1 .. n : l = j + 1 /\ l - 1 = j
          BY <1>1
        <5>2. PICK a \in Nat : a = sizes[l]
          BY <1>1
        <5>3. p[l] = 0 * a
          BY <1>2, <4>3, <5>1, <5>2 DEF IsSizes
        <5>4. QED
          BY <5>1, <5>3
      <4>4. k \in 0 .. n /\ n \in k .. n
        BY <1>1
      <4> HIDE DEF Q
      <4>5. n \in Q
        BY <1>1, <4>2, <4>3, <4>4, Climb
      <4>6. p[n] = 0
        BY <4>5 DEF Q
      <4>7. QED
        BY <1>2, <4>6
    <3>5. one \in Digits(n, sizes)
      <4>1. ASSUME NEW k \in 1 .. n PROVE 1 \in 1 .. sizes[k]
        <5>1. sizes[k] \in Nat /\ sizes[k] # 0
          BY <1>1, <3>4
        <5>2. QED
          BY <5>1
      <4>2. QED
        BY <3>1, <4>1 DEF Digits
    <3>6. IsCount(zero, n, sizes, one)
      <4>1. ASSUME NEW k \in 1 .. n PROVE zero[k] = Counted(zero[k - 1], sizes[k], one[k] - 1)
        <5>1. k - 1 \in 0 .. n /\ zero[k] = 0 /\ zero[k - 1] = 0 /\ one[k] = 1
          BY <1>1, <3>1, <3>3
        <5>2. PICK a \in Nat : a = sizes[k]
          BY <1>1
        <5>3. Counted(0, a, 1 - 1) = 0
          BY DEF Counted
        <5>4. QED
          BY <5>1, <5>2, <5>3
      <4>2. zero[0] = 0
        BY <1>1, <3>3
      <4>3. QED
        BY <4>1, <4>2 DEF IsCount
    <3>7. zero \in [0 .. n -> Nat] /\ zero[n] = i - 1
      BY <1>1, <2>1, <3>3
    <3>8. ReadsAs(n, sizes, one, i - 1)
      BY <3>6, <3>7 DEF ReadsAs
    <3>9. QED
      BY <3>2, <3>5, <3>8
  <2>2. CASE i # 1
    <3>1. PICK j \in 1 .. total : j = i - 1 /\ j \in 1 .. i - 1
      BY <2>2
    <3>2. PICK c \in Digits(n, sizes) : c = cur[j] /\ ReadsAs(n, sizes, c, j - 1)
      BY <1>4, <3>1
    <3>3. PICK m \in Nat : m = j - 1 /\ m + 1 = i - 1 /\ m + 1 # p[n]
      <4>1. j - 1 \in Nat /\ (j - 1) + 1 = i - 1 /\ (j - 1) + 1 # total
        BY <3>1
      <4>2. QED
        BY <1>2, <4>1
    <3>4. Advance(axes, c) \in Digits(n, sizes) /\ ReadsAs(n, sizes, Advance(axes, c), m + 1)
      <4> HIDE DEF P
      <4>1. IsSizes(p, n, sizes) /\ ReadsAs(n, sizes, c, m)
        BY <1>2, <3>2, <3>3
      <4>2. QED
        BY <3>3, <4>1, AdvanceCounts
    <3>5. cur[i] = Advance(axes, c)
      BY <1>3, <2>2, <3>1, <3>2 DEF AreCursors
    <3>6. QED
      BY <3>3, <3>4, <3>5
  <2>3. QED
    BY <2>1, <2>2
<1>5. \A i \in 1 .. total : cur[i] \in Digits(n, sizes) /\ ReadsAs(n, sizes, cur[i], i - 1)
  <2>1. \A i \in 1 .. total : i \in P
    <3> HIDE DEF P
    <3>1. QED
      BY <1>4, ClimbAll
  <2>2. QED
    BY <2>1
<1>6. ASSUME NEW c \in Digits(n, sizes)
      PROVE  \E i \in 1 .. total : \A j \in 1 .. total : cur[j] = c <=> j = i
  <2>1. PICK q \in [0 .. n -> Nat] : IsCount(q, n, sizes, c)
    BY <1>1, CountExists
  <2>2. q[n] < p[n] /\ q[n] \in Nat
    <3>1. n \in 0 .. n
      BY <1>1
    <3>2. q[n] \in Nat
      BY <3>1
    <3>3. IsSizes(p, n, sizes)
      BY <1>2
    <3>4. q[n] < p[n]
      BY <1>1, <2>1, <3>3, CountIsSmall
    <3>5. QED
      BY <3>2, <3>4
  <2>3. PICK i \in 1 .. total : i - 1 = q[n]
    <3>1. PICK m \in Nat : m = q[n] /\ m < total
      BY <1>2, <2>2
    <3>2. m + 1 \in 1 .. total /\ (m + 1) - 1 = m
      BY <3>1
    <3>3. QED
      BY <3>1, <3>2
  <2>4. ASSUME NEW j \in 1 .. total PROVE cur[j] = c <=> j = i
    <3>1. PICK d \in Digits(n, sizes) : d = cur[j] /\ ReadsAs(n, sizes, d, j - 1)
      BY <1>5
    <3>2. PICK r \in [0 .. n -> Nat] : IsCount(r, n, sizes, d) /\ r[n] = j - 1
      BY <3>1 DEF ReadsAs
    <3>3. j = i => d = c
      BY <1>1, <2>1, <2>3, <3>2, CountIsOne
    <3>4. ASSUME d = c PROVE j = i
      <4>1. PICK s \in [0 .. n -> Nat] : s = r /\ IsCount(s, n, sizes, c)
        BY <3>2, <3>4
      <4>2. s[n] = q[n]
        BY <1>1, <2>1, <4>1, CountAgrees
      <4>3. j - 1 = i - 1
        BY <2>3, <3>2, <4>1, <4>2
      <4>4. QED
        BY <4>3
    <3>5. QED
      BY <3>1, <3>3, <3>4
  <2>5. QED
    BY <2>4
<1>7. QED
  BY <1>3, <1>5, <1>6 DEF ReadOnce

-----------------------------------------------------------------------------
(* Numbers in order.                                                        *)
UpTo(S, v) == {w \in S : w <= v}
Rank(S) == [v \in S |-> Cardinality(UpTo(S, v))]

LEMMA RankIs ==
  ASSUME NEW S \in SUBSET Int, IsFiniteSet(S), NEW n \in Nat, n = Cardinality(S)
  PROVE  /\ Rank(S) \in Injection(S, 1 .. n)
         /\ \A k \in 1 .. n : \E v \in S : Rank(S)[v] = k
<1>1. ASSUME NEW v \in S
      PROVE  IsFiniteSet(UpTo(S, v)) /\ Cardinality(UpTo(S, v)) \in 1 .. n
  <2>1. UpTo(S, v) \in SUBSET S /\ v \in UpTo(S, v)
    BY DEF UpTo
  <2>2. IsFiniteSet(UpTo(S, v)) /\ Cardinality(UpTo(S, v)) <= n
    BY <2>1, FS_Subset
  <2>3. Cardinality(UpTo(S, v)) \in Nat /\ Cardinality(UpTo(S, v)) # 0
    BY <2>1, <2>2, FS_CardinalityType, FS_EmptySet
  <2>4. QED
    BY <2>2, <2>3
<1>2. ASSUME NEW v \in S, NEW u \in S, v < u PROVE Cardinality(UpTo(S, v)) # Cardinality(UpTo(S, u))
  <2>1. v \in Int /\ u \in Int
    OBVIOUS
  <2>2. UpTo(S, v) \in SUBSET UpTo(S, u) /\ u \in UpTo(S, u) /\ u \notin UpTo(S, v)
    <3>1. ASSUME NEW w \in S, w <= v PROVE w <= u
      <4>1. w \in Int
        OBVIOUS
      <4>2. QED
        BY <1>2, <2>1, <3>1, <4>1
    <3>2. u <= u /\ ~(u <= v)
      BY <1>2, <2>1
    <3>3. QED
      BY <3>1, <3>2 DEF UpTo
  <2>3. QED
    BY <1>1, <2>2, FS_Subset
<1>3. Rank(S) \in [S -> 1 .. n]
  BY <1>1 DEF Rank
<1>4. ASSUME NEW v \in S, NEW u \in S, Rank(S)[v] = Rank(S)[u] PROVE v = u
  <2>1. v \in Int /\ u \in Int
    OBVIOUS
  <2>2. Cardinality(UpTo(S, v)) = Cardinality(UpTo(S, u))
    BY <1>4 DEF Rank
  <2>3. ~(v < u) /\ ~(u < v)
    BY <1>2, <2>2
  <2>4. QED
    BY <2>1, <2>3
<1>5. Rank(S) \in Injection(S, 1 .. n)
  BY <1>3, <1>4 DEF Injection, IsInjective
<1>6. IsFiniteSet(1 .. n) /\ Cardinality(1 .. n) = n
  <2>1. 1 \in Int /\ n \in Int
    OBVIOUS
  <2>2. QED
    BY <2>1, FS_Interval
<1>7. Rank(S) \in Surjection(S, 1 .. n)
  BY <1>5, <1>6, FS_Injection
<1>8. QED
  BY <1>5, <1>7 DEF Surjection

(* Every element is there once.                                             *)
Lists(s, n, S) ==
  /\ n \in Nat /\ s \in [1 .. n -> S]
  /\ \A v \in S : \E k \in 1 .. n : s[k] = v
  /\ \A k, j \in 1 .. n : s[k] = s[j] => k = j

LEMMA SortedLists ==
  ASSUME NEW S \in SUBSET Int, IsFiniteSet(S)
  PROVE  Lists(Sorted(S), Cardinality(S), S)
<1>1. PICK n \in Nat : n = Cardinality(S)
  BY FS_CardinalityType
<1>2. PICK rank \in Injection(S, 1 .. n) : rank = Rank(S) /\ \A k \in 1 .. n : \E v \in S : rank[v] = k
  BY <1>1, RankIs
<1>3. PICK s : s = Sorted(S)
  OBVIOUS
<1>4. s = [k \in 1 .. n |-> CHOOSE v \in S : Cardinality(UpTo(S, v)) = k]
  BY <1>1, <1>3 DEF Sorted, UpTo
<1>5. ASSUME NEW k \in 1 .. n PROVE s[k] \in S /\ rank[s[k]] = k
  <2>1. \A v \in S : rank[v] = Cardinality(UpTo(S, v))
    BY <1>2 DEF Rank
  <2>2. \E v \in S : Cardinality(UpTo(S, v)) = k
    BY <1>2, <2>1
  <2>3. s[k] = CHOOSE v \in S : Cardinality(UpTo(S, v)) = k
    BY <1>4
  <2>4. s[k] \in S /\ Cardinality(UpTo(S, s[k])) = k
    BY <2>2, <2>3
  <2>5. QED
    BY <2>1, <2>4
<1>6. ASSUME NEW v \in S PROVE \E k \in 1 .. n : s[k] = v
  <2>1. rank[v] \in 1 .. n
    BY <1>2 DEF Injection
  <2>2. PICK k \in 1 .. n : k = rank[v]
    BY <2>1
  <2>3. rank[s[k]] = rank[v] /\ s[k] \in S
    BY <1>5, <2>2
  <2>4. s[k] = v
    <3>1. \A a, b \in S : rank[a] = rank[b] => a = b
      BY <1>2 DEF Injection, IsInjective
    <3>2. QED
      BY <2>3, <3>1
  <2>5. QED
    BY <2>4
<1>7. ASSUME NEW k \in 1 .. n, NEW j \in 1 .. n, s[k] = s[j] PROVE k = j
  BY <1>5, <1>7
<1>8. s \in [1 .. n -> S]
  BY <1>4, <1>5
<1>9. Lists(s, n, S)
  BY <1>6, <1>7, <1>8 DEF Lists
<1>10. QED
  BY <1>1, <1>3, <1>9

-----------------------------------------------------------------------------
(* The values of an axis.                                                   *)
AreInts(given, n) == \A i \in 1 .. n : given[i] \in Int

LEMMA RoundedIs ==
  ASSUME NEW n \in Nat, NEW given, AreInts(given, n),
         NEW values, values = {Rounded(given[i]) : i \in 1 .. n}
  PROVE  values \in SUBSET Int /\ IsFiniteSet(values)
<1>1. \A i \in 1 .. n : Rounded(given[i]) \in Int
  BY DEF Rounded, AreInts
<1>2. PICK f : f = [i \in 1 .. n |-> Rounded(given[i])]
  OBVIOUS
<1>3. f \in Surjection(1 .. n, values)
  <2>1. f \in [1 .. n -> values]
    BY <1>2
  <2>2. QED
    BY <1>2, <2>1 DEF Surjection
<1>4. IsFiniteSet(1 .. n)
  <2>1. 1 \in Int /\ n \in Int
    OBVIOUS
  <2>2. QED
    BY <2>1, FS_Interval
<1>5. IsFiniteSet(values)
  BY <1>3, <1>4, FS_Surjection
<1>6. QED
  BY <1>1, <1>5

LEMMA ValuesAreListed ==
  ASSUME NEW axis, IsAxis(axis), ReadValues(axis) # Fault
  PROVE  \E S \in SUBSET Int, n \in Nat : Lists(ReadValues(axis), n, S)
<1>1. axis.values \in Seq(Int) /\ {axis.from, axis.to, axis.step} \subseteq Int \cup {None}
  BY DEF IsAxis
<1>2. PICK stepped : stepped = (axis.values = <<>>)
  OBVIOUS
<1>3. PICK count : count = (axis.to - axis.from) \div axis.step + 1
  OBVIOUS
<1>4. PICK given : given = IF stepped THEN [i \in 1 .. count |-> axis.from + (i - 1) * axis.step] ELSE axis.values
  OBVIOUS
<1>5. PICK values : values = {Rounded(given[i]) : i \in DOMAIN given}
  OBVIOUS
<1>6. /\ ~(stepped /\ (None \in {axis.from, axis.to, axis.step} \/ axis.step <= 0))
      /\ ~(stepped /\ (axis.to < axis.from \/ count > MaxValues))
      /\ ReadValues(axis) = Sorted(values)
  <2>1. PICK a, b, c : /\ a <=> stepped /\ (None \in {axis.from, axis.to, axis.step} \/ axis.step <= 0)
                       /\ b <=> stepped /\ (axis.to < axis.from \/ count > MaxValues)
                       /\ c <=> Cardinality(values) > MaxValues
    OBVIOUS
  <2>2. ReadValues(axis) = IF a \/ b \/ c THEN Fault ELSE Sorted(values)
    <3>1. ReadValues(axis) =
            IF \/ stepped /\ (None \in {axis.from, axis.to, axis.step} \/ axis.step <= 0)
               \/ stepped /\ (axis.to < axis.from \/ count > MaxValues)
               \/ Cardinality(values) > MaxValues
            THEN Fault ELSE Sorted(values)
      BY <1>2, <1>3, <1>4, <1>5, Zenon DEF ReadValues
    <3>2. QED
      BY <2>1, <3>1
  <2>3. ~a /\ ~b /\ ReadValues(axis) = Sorted(values)
    BY <2>2
  <2>4. QED
    BY <2>1, <2>3
<1>7. \E n \in Nat : DOMAIN given = 1 .. n /\ \A i \in 1 .. n : given[i] \in Int
  <2>1. CASE stepped
    <3>1. PICK from \in Int, to \in Int, step \in Int : /\ from = axis.from /\ to = axis.to /\ step = axis.step
                                                       /\ 0 < step /\ from <= to
      <4>1. axis.from \in Int /\ axis.to \in Int /\ axis.step \in Int
        BY <1>1, <1>6, <2>1
      <4>2. ~(axis.step <= 0) /\ ~(axis.to < axis.from)
        BY <1>6, <2>1
      <4>3. QED
        BY <4>1, <4>2
    <3>2. PICK q \in Nat : q = (to - from) \div step
      <4>1. to - from \in Nat /\ step \in Nat \ {0}
        BY <3>1
      <4>2. (to - from) \div step \in Nat
        BY <4>1
      <4>3. QED
        BY <4>2
    <3>3. count = q + 1 /\ count \in Nat
      BY <1>3, <3>1, <3>2
    <3>4. given = [i \in 1 .. count |-> from + (i - 1) * step]
      BY <1>4, <2>1, <3>1
    <3>5. \A i \in 1 .. count : from + (i - 1) * step \in Int
      BY <3>3
    <3>6. QED
      BY <3>3, <3>4, <3>5
  <2>2. CASE ~stepped
    <3>1. given = axis.values
      BY <1>4, <2>2
    <3>2. PICK n \in Nat : n = Len(axis.values)
      BY <1>1
    <3>3. DOMAIN given = 1 .. n /\ \A i \in 1 .. n : given[i] \in Int
      BY <1>1, <3>1, <3>2
    <3>4. QED
      BY <3>3
  <2>3. QED
    BY <2>1, <2>2
<1>8. values \in SUBSET Int /\ IsFiniteSet(values)
  <2>1. PICK n \in Nat : DOMAIN given = 1 .. n /\ \A i \in 1 .. n : given[i] \in Int
    BY <1>7
  <2>2. values = {Rounded(given[i]) : i \in 1 .. n}
    BY <1>5, <2>1
  <2>3. AreInts(given, n)
    BY <2>1 DEF AreInts
  <2>4. QED
    BY <2>2, <2>3, RoundedIs
<1>9. Lists(ReadValues(axis), Cardinality(values), values) /\ Cardinality(values) \in Nat
  BY <1>6, <1>8, SortedLists, FS_CardinalityType
<1>10. QED
  BY <1>8, <1>9

-----------------------------------------------------------------------------
(* A stored spec and the numbers in it.                                     *)
PeriodAt(n) == <<"inputs", n, "params", "period">>
CostAt(c)   == <<"costs", c>>
SizeAt      == <<"sizing", "value">>
CostNames   == {"brokerage", "fee", "slippage"}
PlacesIn(s) == {PeriodAt(n) : n \in DOMAIN s.inputs} \cup {CostAt(c) : c \in CostNames} \cup {SizeAt}

Sized(input, v) ==
  [indicator |-> input.indicator, period |-> v, source |-> input.source, output |-> input.output]
AllSized(inputs, f) == [n \in DOMAIN inputs |-> Sized(inputs[n], f[PeriodAt(n)])]
Charged(f) == [brokerage |-> f[CostAt("brokerage")], fee |-> f[CostAt("fee")], slippage |-> f[CostAt("slippage")]]
Numbered(s, f) ==
  Parts(1, AllSized(s.inputs, f), s.rules, s.entry, s.exit,
        [type |-> s.sizing.type, value |-> f[SizeAt]], Charged(f))

IsStored(s) ==
  /\ s = Parts(1, s.inputs, s.rules, s.entry, s.exit, s.sizing, s.costs)
  /\ s.inputs = [n \in DOMAIN s.inputs |-> Sized(s.inputs[n], s.inputs[n].period)]
  /\ s.sizing = [type |-> s.sizing.type, value |-> s.sizing.value]
  /\ s.costs = [brokerage |-> s.costs.brokerage, fee |-> s.costs.fee, slippage |-> s.costs.slippage]

LEMMA PlacesDiffer ==
  /\ \A n, m : PeriodAt(n) = PeriodAt(m) => n = m
  /\ \A c, d : CostAt(c) = CostAt(d) => c = d
  /\ \A n, c : PeriodAt(n) # CostAt(c) /\ PeriodAt(n) # SizeAt /\ CostAt(c) # SizeAt
<1>1. \A n : Len(PeriodAt(n)) = 4 /\ PeriodAt(n)[1] = "inputs" /\ PeriodAt(n)[2] = n
  BY DEF PeriodAt
<1>2. \A c : Len(CostAt(c)) = 2 /\ CostAt(c)[1] = "costs" /\ CostAt(c)[2] = c
  BY DEF CostAt
<1>3. Len(SizeAt) = 2 /\ SizeAt[1] = "sizing"
  BY DEF SizeAt
<1>4. "inputs" # "costs" /\ "inputs" # "sizing" /\ "costs" # "sizing"
  OBVIOUS
<1>5. QED
  BY <1>1, <1>2, <1>3, <1>4

LEMMA NumberAtIs ==
  ASSUME NEW stored
  PROVE  /\ \A n : NumberAt(stored, PeriodAt(n)) =
                   IF n \in DOMAIN stored.inputs THEN stored.inputs[n].period ELSE Fault
         /\ \A c : NumberAt(stored, CostAt(c)) = IF c \in DOMAIN stored.costs THEN stored.costs[c] ELSE Fault
         /\ NumberAt(stored, SizeAt) = stored.sizing.value
<1>1. ASSUME NEW n
      PROVE  NumberAt(stored, PeriodAt(n)) = IF n \in DOMAIN stored.inputs THEN stored.inputs[n].period ELSE Fault
  <2>1. PICK p : p = PeriodAt(n)
    OBVIOUS
  <2>2. p[1] = "inputs" /\ p[2] = n /\ p[4] = "period" /\ ~(p[1] = "costs")
    BY <2>1 DEF PeriodAt
  <2>3. QED
    BY <2>1, <2>2 DEF NumberAt
<1>2. ASSUME NEW c
      PROVE  NumberAt(stored, CostAt(c)) = IF c \in DOMAIN stored.costs THEN stored.costs[c] ELSE Fault
  <2>1. PICK p : p = CostAt(c)
    OBVIOUS
  <2>2. p[1] = "costs" /\ p[2] = c /\ ~(p[1] = "inputs")
    BY <2>1 DEF CostAt
  <2>3. QED
    BY <2>1, <2>2 DEF NumberAt
<1>3. NumberAt(stored, SizeAt) = stored.sizing.value
  <2>1. PICK p : p = SizeAt
    OBVIOUS
  <2>2. ~(p[1] = "costs") /\ ~(p[1] = "inputs")
    BY <2>1 DEF SizeAt
  <2>3. QED
    BY <2>1, <2>2 DEF NumberAt
<1>4. QED
  BY <1>1, <1>2, <1>3

LEMMA NumberedHas ==
  ASSUME NEW s, NEW f, NEW w, w = Numbered(s, f)
  PROVE  /\ w = Parts(1, w.inputs, w.rules, w.entry, w.exit, w.sizing, w.costs)
         /\ w.inputs = AllSized(s.inputs, f) /\ DOMAIN w.inputs = DOMAIN s.inputs
         /\ w.rules = s.rules
      /\ w.entry = s.entry /\ w.exit = s.exit /\ w.version = 1
         /\ w.sizing = [type |-> s.sizing.type, value |-> f[SizeAt]]
         /\ w.costs = Charged(f) /\ DOMAIN w.costs = CostNames
<1>1. /\ w.inputs = AllSized(s.inputs, f) /\ w.rules = s.rules
      /\ w.entry = s.entry /\ w.exit = s.exit /\ w.version = 1
      /\ w.sizing = [type |-> s.sizing.type, value |-> f[SizeAt]] /\ w.costs = Charged(f)
  BY DEF Numbered, Parts
<1>2. DOMAIN AllSized(s.inputs, f) = DOMAIN s.inputs
  BY DEF AllSized
<1>3. DOMAIN Charged(f) = CostNames
  BY DEF Charged, CostNames
<1>4. w = Parts(1, w.inputs, w.rules, w.entry, w.exit, w.sizing, w.costs)
  BY <1>1 DEF Numbered
<1>5. QED
  BY <1>1, <1>2, <1>3, <1>4

LEMMA NumberOf ==
  ASSUME NEW s, NEW f, NEW place \in PlacesIn(s)
  PROVE  NumberAt(Numbered(s, f), place) = f[place]
<1>1. PICK w : w = Numbered(s, f)
  OBVIOUS
<1>2. CASE place = SizeAt
  <2>1. w.sizing.value = f[SizeAt]
    <3>1. w.sizing = [type |-> s.sizing.type, value |-> f[SizeAt]]
      BY <1>1, NumberedHas
    <3>2. QED
      BY <3>1
  <2>2. QED
    BY <1>1, <1>2, <2>1, NumberAtIs
<1>3. ASSUME NEW c \in CostNames, place = CostAt(c) PROVE NumberAt(w, place) = f[place]
  <2>1. w.costs[c] = f[CostAt(c)]
    <3>1. w.costs = Charged(f)
      BY <1>1, NumberedHas
    <3>2. Charged(f)[c] = f[CostAt(c)]
      BY DEF Charged, CostNames
    <3>3. QED
      BY <3>1, <3>2
  <2>2. c \in DOMAIN w.costs
    BY <1>1, NumberedHas
  <2>3. QED
    BY <1>3, <2>1, <2>2, NumberAtIs
<1>4. ASSUME NEW n \in DOMAIN s.inputs, place = PeriodAt(n) PROVE NumberAt(w, place) = f[place]
  <2>1. w.inputs = AllSized(s.inputs, f)
    BY <1>1, NumberedHas
  <2>2. n \in DOMAIN w.inputs /\ w.inputs[n].period = f[PeriodAt(n)]
    BY <2>1 DEF AllSized, Sized
  <2>3. QED
    BY <1>4, <2>2, NumberAtIs
<1>5. QED
  BY <1>1, <1>2, <1>3, <1>4 DEF PlacesIn

LEMMA StoredIsNumbered ==
  ASSUME NEW s, IsStored(s), NEW f, f = [place \in PlacesIn(s) |-> NumberAt(s, place)]
  PROVE  Numbered(s, f) = s
<1>1. f[SizeAt] = s.sizing.value
  BY NumberAtIs DEF PlacesIn
<1>2. ASSUME NEW c \in CostNames PROVE f[CostAt(c)] = s.costs[c]
  <2>1. CostAt(c) \in PlacesIn(s)
    BY DEF PlacesIn
  <2>2. c \in DOMAIN s.costs
    BY DEF IsStored, CostNames
  <2>3. QED
    BY <2>1, <2>2, NumberAtIs
<1>3. ASSUME NEW n \in DOMAIN s.inputs PROVE f[PeriodAt(n)] = s.inputs[n].period
  <2>1. PeriodAt(n) \in PlacesIn(s)
    BY DEF PlacesIn
  <2>2. QED
    BY <2>1, NumberAtIs
<1>4. AllSized(s.inputs, f) = s.inputs
  <2>1. AllSized(s.inputs, f) = [n \in DOMAIN s.inputs |-> Sized(s.inputs[n], s.inputs[n].period)]
    BY <1>3 DEF AllSized
  <2>2. QED
    BY <2>1 DEF IsStored
<1>5. Charged(f) = s.costs
  <2>1. f[CostAt("brokerage")] = s.costs.brokerage /\ f[CostAt("fee")] = s.costs.fee
        /\ f[CostAt("slippage")] = s.costs.slippage
    BY <1>2 DEF CostNames
  <2>2. Charged(f) = [brokerage |-> s.costs.brokerage, fee |-> s.costs.fee, slippage |-> s.costs.slippage]
    BY <2>1 DEF Charged
  <2>3. QED
    BY <2>2 DEF IsStored
<1>6. [type |-> s.sizing.type, value |-> f[SizeAt]] = s.sizing
  BY <1>1 DEF IsStored
<1>7. QED
  BY <1>4, <1>5, <1>6 DEF Numbered, IsStored

-----------------------------------------------------------------------------
(* One number is set, the others stay.                                      *)
LEMMA SizeIsSet ==
  ASSUME NEW inputs, NEW rules, NEW entry, NEW exit, NEW type, NEW old, NEW costs, NEW value
  PROVE  SetAt(Parts(1, inputs, rules, entry, exit, [type |-> type, value |-> old], costs), SizeAt, value)
           = Parts(1, inputs, rules, entry, exit, [type |-> type, value |-> value], costs)
<1>1. PICK place : place = SizeAt
  OBVIOUS
<1>2. ~(place[1] = "costs") /\ ~(place[1] = "inputs")
  BY <1>1 DEF SizeAt
<1>3. PICK d : d = Parts(1, inputs, rules, entry, exit, [type |-> type, value |-> old], costs)
  OBVIOUS
<1>4. SetAt(d, place, value) = [d EXCEPT !.sizing.value = value]
  BY <1>2 DEF SetAt
<1>5. [d EXCEPT !.sizing.value = value] = [d EXCEPT !.sizing = [d.sizing EXCEPT !.value = value]]
  OBVIOUS
<1>6. d.sizing = [type |-> type, value |-> old]
  BY <1>3 DEF Parts
<1>7. [d.sizing EXCEPT !.value = value] = [type |-> type, value |-> value]
  BY <1>6
<1>8. \A z : [d EXCEPT !.sizing = z] = Parts(1, inputs, rules, entry, exit, z, costs)
  BY <1>3 DEF Parts
<1>9. QED
  BY <1>1, <1>3, <1>4, <1>5, <1>7, <1>8

LEMMA CostIsSet ==
  ASSUME NEW inputs, NEW rules, NEW entry, NEW exit, NEW sizing, NEW costs, NEW c, NEW value
  PROVE  SetAt(Parts(1, inputs, rules, entry, exit, sizing, costs), CostAt(c), value)
           = Parts(1, inputs, rules, entry, exit, sizing, [costs EXCEPT ![c] = value])
<1>1. PICK place : place = CostAt(c)
  OBVIOUS
<1>2. place[1] = "costs" /\ place[2] = c /\ ~(place[1] = "inputs")
  BY <1>1 DEF CostAt
<1>3. PICK d : d = Parts(1, inputs, rules, entry, exit, sizing, costs)
  OBVIOUS
<1>4. SetAt(d, place, value) = [d EXCEPT !.costs[c] = value]
  BY <1>2 DEF SetAt
<1>5. [d EXCEPT !.costs[c] = value] = [d EXCEPT !.costs = [d.costs EXCEPT ![c] = value]]
  OBVIOUS
<1>6. d.costs = costs
  BY <1>3 DEF Parts
<1>7. \A z : [d EXCEPT !.costs = z] = Parts(1, inputs, rules, entry, exit, sizing, z)
  BY <1>3 DEF Parts
<1>8. QED
  BY <1>1, <1>3, <1>4, <1>5, <1>6, <1>7

LEMMA PeriodIsSet ==
  ASSUME NEW inputs, NEW rules, NEW entry, NEW exit, NEW sizing, NEW costs, NEW n, NEW value
  PROVE  SetAt(Parts(1, inputs, rules, entry, exit, sizing, costs), PeriodAt(n), value)
           = Parts(1, [inputs EXCEPT ![n] = [inputs[n] EXCEPT !.period = value]], rules, entry, exit, sizing, costs)
<1>1. PICK place : place = PeriodAt(n)
  OBVIOUS
<1>2. place[1] = "inputs" /\ place[2] = n /\ ~(place[1] = "costs")
  BY <1>1 DEF PeriodAt
<1>3. PICK d : d = Parts(1, inputs, rules, entry, exit, sizing, costs)
  OBVIOUS
<1>4. SetAt(d, place, value) = [d EXCEPT !.inputs[n].period = value]
  BY <1>2 DEF SetAt
<1>5. [d EXCEPT !.inputs[n].period = value]
        = [d EXCEPT !.inputs = [d.inputs EXCEPT ![n] = [d.inputs[n] EXCEPT !.period = value]]]
  OBVIOUS
<1>6. d.inputs = inputs
  BY <1>3 DEF Parts
<1>7. \A z : [d EXCEPT !.inputs = z] = Parts(1, z, rules, entry, exit, sizing, costs)
  BY <1>3 DEF Parts
<1>8. QED
  BY <1>1, <1>3, <1>4, <1>5, <1>6, <1>7

With(f, place, value) == [f EXCEPT ![place] = value]

LEMMA NumberIsSet ==
  ASSUME NEW s, NEW f, DOMAIN f = PlacesIn(s), NEW place \in PlacesIn(s), NEW value,
         NEW g, g = With(f, place, value)
  PROVE  SetAt(Numbered(s, f), place, value) = Numbered(s, g)
<1>1. PICK sizing, costs, inputs : /\ sizing = [type |-> s.sizing.type, value |-> f[SizeAt]]
                                   /\ costs = Charged(f) /\ inputs = AllSized(s.inputs, f)
  OBVIOUS
<1>2. PICK w : w = Numbered(s, f) /\ w = Parts(1, inputs, s.rules, s.entry, s.exit, sizing, costs)
  BY <1>1 DEF Numbered
<1>3. g[place] = value /\ \A p \in PlacesIn(s) : p # place => g[p] = f[p]
  BY DEF With
<1>4. /\ SizeAt \in PlacesIn(s) /\ \A c \in CostNames : CostAt(c) \in PlacesIn(s)
      /\ \A n \in DOMAIN s.inputs : PeriodAt(n) \in PlacesIn(s)
  BY DEF PlacesIn
<1>5. place # SizeAt => g[SizeAt] = f[SizeAt]
  BY <1>3, <1>4
<1>6. (\A c \in CostNames : place # CostAt(c)) => Charged(g) = costs
  <2>1. "brokerage" \in CostNames /\ "fee" \in CostNames /\ "slippage" \in CostNames
    BY DEF CostNames
  <2>2. ASSUME \A c \in CostNames : place # CostAt(c) PROVE \A c \in CostNames : g[CostAt(c)] = f[CostAt(c)]
    BY <1>3, <1>4, <2>2
  <2>3. QED
    BY <1>1, <2>1, <2>2 DEF Charged
<1>7. (\A n \in DOMAIN s.inputs : place # PeriodAt(n)) => AllSized(s.inputs, g) = inputs
  <2>1. ASSUME \A n \in DOMAIN s.inputs : place # PeriodAt(n)
        PROVE  \A n \in DOMAIN s.inputs : g[PeriodAt(n)] = f[PeriodAt(n)]
    BY <1>3, <1>4, <2>1
  <2>2. QED
    BY <1>1, <2>1 DEF AllSized
<1>8. CASE place = SizeAt
  <2>1. SetAt(w, place, value) = Parts(1, inputs, s.rules, s.entry, s.exit,
                                      [type |-> s.sizing.type, value |-> value], costs)
    BY <1>1, <1>2, <1>8, SizeIsSet
  <2>2. Charged(g) = costs /\ AllSized(s.inputs, g) = inputs /\ g[SizeAt] = value
    BY <1>3, <1>6, <1>7, <1>8, PlacesDiffer
  <2>3. QED
    BY <1>2, <2>1, <2>2 DEF Numbered
<1>9. ASSUME NEW c \in CostNames, place = CostAt(c) PROVE SetAt(w, place, value) = Numbered(s, g)
  <2>1. SetAt(w, place, value) = Parts(1, inputs, s.rules, s.entry, s.exit, sizing, [costs EXCEPT ![c] = value])
    BY <1>2, <1>9, CostIsSet
  <2>2. AllSized(s.inputs, g) = inputs /\ g[SizeAt] = f[SizeAt]
    BY <1>5, <1>7, <1>9, PlacesDiffer
  <2>3. \A d \in CostNames : g[CostAt(d)] = IF d = c THEN value ELSE f[CostAt(d)]
    BY <1>3, <1>4, <1>9, PlacesDiffer
  <2>4. [costs EXCEPT ![c] = value] = Charged(g)
    <3>1. "brokerage" \in CostNames /\ "fee" \in CostNames /\ "slippage" \in CostNames
      BY DEF CostNames
    <3>2. Charged(g) = [brokerage |-> IF "brokerage" = c THEN value ELSE f[CostAt("brokerage")],
                        fee |-> IF "fee" = c THEN value ELSE f[CostAt("fee")],
                        slippage |-> IF "slippage" = c THEN value ELSE f[CostAt("slippage")]]
      BY <2>3, <3>1 DEF Charged
    <3>3. costs = [brokerage |-> f[CostAt("brokerage")], fee |-> f[CostAt("fee")],
                   slippage |-> f[CostAt("slippage")]]
      BY <1>1 DEF Charged
    <3>4. c = "brokerage" \/ c = "fee" \/ c = "slippage"
      BY DEF CostNames
    <3>5. QED
      BY <3>2, <3>3, <3>4
  <2>5. QED
    BY <1>1, <2>1, <2>2, <2>4 DEF Numbered
<1>10. ASSUME NEW n \in DOMAIN s.inputs, place = PeriodAt(n) PROVE SetAt(w, place, value) = Numbered(s, g)
  <2>1. SetAt(w, place, value)
          = Parts(1, [inputs EXCEPT ![n] = [inputs[n] EXCEPT !.period = value]],
                    s.rules, s.entry, s.exit, sizing, costs)
    BY <1>2, <1>10, PeriodIsSet
  <2>2. Charged(g) = costs /\ g[SizeAt] = f[SizeAt]
    BY <1>5, <1>6, <1>10, PlacesDiffer
  <2>3. \A m \in DOMAIN s.inputs : g[PeriodAt(m)] = IF m = n THEN value ELSE f[PeriodAt(m)]
    BY <1>3, <1>4, <1>10, PlacesDiffer
  <2>4. [inputs[n] EXCEPT !.period = value] = Sized(s.inputs[n], value)
    <3>1. inputs[n] = Sized(s.inputs[n], f[PeriodAt(n)])
      BY <1>1 DEF AllSized
    <3>2. QED
      BY <3>1 DEF Sized
  <2>5. [inputs EXCEPT ![n] = Sized(s.inputs[n], value)] = AllSized(s.inputs, g)
    <3>1. inputs = [m \in DOMAIN s.inputs |-> Sized(s.inputs[m], f[PeriodAt(m)])]
      BY <1>1 DEF AllSized
    <3>2. AllSized(s.inputs, g) =
            [m \in DOMAIN s.inputs |-> Sized(s.inputs[m], IF m = n THEN value ELSE f[PeriodAt(m)])]
      BY <2>3 DEF AllSized
    <3>3. QED
      BY <3>1, <3>2
  <2>6. QED
    BY <1>1, <2>1, <2>2, <2>4, <2>5 DEF Numbered
<1>11. QED
  BY <1>2, <1>8, <1>9, <1>10 DEF PlacesIn

-----------------------------------------------------------------------------
(* All the numbers a request sets.                                          *)

(* A path that leads to a number is one of the places.                      *)
LEMMA PlaceIs ==
  ASSUME NEW path \in Seq(STRING), UsablePath(path), NEW s, DOMAIN s.costs = CostNames, NumberAt(s, path) # Fault
  PROVE  path \in PlacesIn(s)
<1>1. CASE path = <<"sizing", "value">>
  BY <1>1 DEF PlacesIn, SizeAt
<1>2. CASE Len(path) = 4 /\ path[1] = "inputs" /\ path[3] = "params"
  <2>1. path[2] \in DOMAIN s.inputs /\ path[4] = "period"
    BY <1>2 DEF NumberAt
  <2>2. path = <<path[1], path[2], path[3], path[4]>>
    BY <1>2
  <2>3. path = PeriodAt(path[2])
    BY <1>2, <2>1, <2>2 DEF PeriodAt
  <2>4. QED
    BY <2>1, <2>3 DEF PlacesIn
<1>3. CASE Len(path) = 2 /\ path[1] = "costs"
  <2>1. path[2] \in DOMAIN s.costs
    <3>1. ~(path[1] = "inputs")
      BY <1>3
    <3>2. NumberAt(s, path) = IF path[2] \in DOMAIN s.costs THEN s.costs[path[2]] ELSE Fault
      BY <1>3, <3>1 DEF NumberAt
    <3>3. QED
      BY <3>2
  <2>2. path = <<path[1], path[2]>>
    BY <1>3
  <2>3. path = CostAt(path[2])
    BY <1>3, <2>2 DEF CostAt
  <2>4. QED
    BY <2>1, <2>3 DEF PlacesIn
<1>4. QED
  BY <1>1, <1>2, <1>3 DEF UsablePath

(* The places of m axes, no two the same.                                   *)
LeadTo(axes, m, paths, places) ==
  /\ m \in Nat /\ Len(axes) = m /\ \A k \in 1 .. m : axes[k].path = paths[k]
  /\ paths \in [1 .. m -> places]
  /\ \A k, j \in 1 .. m : paths[k] = paths[j] => k = j

(* What the first k of them make of f.                                      *)
Over(f, paths, values, k) ==
  [p \in DOMAIN f |-> IF \E j \in 1 .. k : paths[j] = p
                      THEN values[CHOOSE j \in 1 .. k : paths[j] = p] ELSE f[p]]

LEMMA OverIs ==
  ASSUME NEW axes, NEW m, NEW paths, NEW places, LeadTo(axes, m, paths, places),
         NEW f, DOMAIN f = places, NEW values, NEW k \in 0 .. m, NEW g, g = Over(f, paths, values, k)
  PROVE  /\ DOMAIN g = places
         /\ \A j \in 1 .. k : g[paths[j]] = values[j]
         /\ \A p \in places : (\A j \in 1 .. k : paths[j] # p) => g[p] = f[p]
<1>1. m \in Nat /\ \A j \in 1 .. k : j \in 1 .. m
  BY DEF LeadTo
<1>2. DOMAIN g = places
  BY DEF Over
<1>3. ASSUME NEW j \in 1 .. k PROVE g[paths[j]] = values[j]
  <2>1. paths[j] \in places
    BY <1>1 DEF LeadTo
  <2>2. PICK i : i = CHOOSE q \in 1 .. k : paths[q] = paths[j]
    OBVIOUS
  <2>3. i \in 1 .. k /\ paths[i] = paths[j]
    BY <2>2
  <2>4. i = j
    BY <1>1, <2>3 DEF LeadTo
  <2>5. g[paths[j]] = values[i]
    BY <2>1, <2>2 DEF Over
  <2>6. QED
    BY <2>4, <2>5
<1>4. ASSUME NEW p \in places, \A j \in 1 .. k : paths[j] # p PROVE g[p] = f[p]
  BY <1>4 DEF Over
<1>5. QED
  BY <1>2, <1>3, <1>4

LEMMA OverOneMore ==
  ASSUME NEW axes, NEW m, NEW paths, NEW places, LeadTo(axes, m, paths, places),
         NEW f, DOMAIN f = places, NEW values, NEW k \in 1 .. m
  PROVE  Over(f, paths, values, k) = [Over(f, paths, values, k - 1) EXCEPT ![paths[k]] = values[k]]
<1>1. m \in Nat /\ k - 1 \in 0 .. m /\ k \in 0 .. m
  BY DEF LeadTo
<1>2. PICK g, h : g = Over(f, paths, values, k - 1) /\ h = Over(f, paths, values, k)
  OBVIOUS
<1>3. /\ DOMAIN g = places
      /\ \A j \in 1 .. k - 1 : g[paths[j]] = values[j]
      /\ \A p \in places : (\A j \in 1 .. k - 1 : paths[j] # p) => g[p] = f[p]
  BY <1>1, <1>2, OverIs
<1>4. /\ DOMAIN h = places
      /\ \A j \in 1 .. k : h[paths[j]] = values[j]
      /\ \A p \in places : (\A j \in 1 .. k : paths[j] # p) => h[p] = f[p]
  BY <1>1, <1>2, OverIs
<1>5. g = [p \in places |-> g[p]] /\ h = [p \in places |-> h[p]]
  BY <1>2, <1>3, <1>4 DEF Over
<1>6. ASSUME NEW p \in places PROVE h[p] = IF p = paths[k] THEN values[k] ELSE g[p]
  <2>1. CASE p = paths[k]
    <3>1. k \in 1 .. k
      BY <1>1
    <3>2. QED
      BY <1>4, <2>1, <3>1
  <2>2. CASE p # paths[k] /\ \E j \in 1 .. k - 1 : paths[j] = p
    <3>1. PICK j \in 1 .. k - 1 : paths[j] = p
      BY <2>2
    <3>2. j \in 1 .. k
      BY <1>1
    <3>3. QED
      BY <1>3, <1>4, <2>2, <3>1, <3>2
  <2>3. CASE p # paths[k] /\ \A j \in 1 .. k - 1 : paths[j] # p
    <3>1. \A j \in 1 .. k : j = k \/ j \in 1 .. k - 1
      BY <1>1
    <3>2. \A j \in 1 .. k : paths[j] # p
      BY <2>3, <3>1
    <3>3. QED
      BY <1>3, <1>4, <2>3, <3>2
  <2>4. QED
    BY <2>1, <2>2, <2>3
<1>7. [g EXCEPT ![paths[k]] = values[k]] = [p \in places |-> IF p = paths[k] THEN values[k] ELSE g[p]]
  <2>1. paths[k] \in places
    BY DEF LeadTo
  <2>2. QED
    BY <1>3, <1>5, <2>1
<1>8. h = [g EXCEPT ![paths[k]] = values[k]]
  BY <1>5, <1>6, <1>7
<1>9. QED
  BY <1>2, <1>8

LEMMA AllAreSet ==
  ASSUME NEW s, NEW axes, NEW m, NEW paths, LeadTo(axes, m, paths, PlacesIn(s)),
         NEW f, f = [p \in PlacesIn(s) |-> f[p]], NEW values
  PROVE  SetAll(Numbered(s, f), axes, values) = Numbered(s, Over(f, paths, values, m))
<1>1. m \in Nat /\ Len(axes) = m
  BY DEF LeadTo
<1>2. DOMAIN f = PlacesIn(s)
  OBVIOUS
<1>3. PICK stored : stored = Numbered(s, f)
  OBVIOUS
<1> DEFINE Is(g) == g = [k \in 0 .. m |-> IF k = 0 THEN stored ELSE SetAt(g[k - 1], axes[k].path, values[k])]
<1>4. PICK w : w = [k \in 0 .. m |-> Numbered(s, Over(f, paths, values, k))]
  OBVIOUS
<1>5. ASSUME NEW k \in 1 .. m PROVE SetAt(w[k - 1], axes[k].path, values[k]) = w[k]
  <2>1. k - 1 \in 0 .. m /\ k \in 0 .. m
    BY <1>1
  <2>2. PICK g, h : g = Over(f, paths, values, k - 1) /\ h = Over(f, paths, values, k)
    OBVIOUS
  <2>3. w[k - 1] = Numbered(s, g) /\ w[k] = Numbered(s, h)
    BY <1>4, <2>1, <2>2
  <2>4. DOMAIN g = PlacesIn(s)
    BY <1>2, <2>2 DEF Over
  <2>5. h = [g EXCEPT ![paths[k]] = values[k]]
    BY <1>2, <2>2, OverOneMore
  <2>6. paths[k] \in PlacesIn(s) /\ axes[k].path = paths[k]
    BY DEF LeadTo
  <2>7. SetAt(Numbered(s, g), paths[k], values[k]) = Numbered(s, h)
    <3>1. PICK place \in PlacesIn(s) : place = paths[k]
      BY <2>6
    <3>2. PICK value : value = values[k]
      OBVIOUS
    <3>3. h = With(g, place, value)
      BY <2>5, <3>1, <3>2 DEF With
    <3>4. SetAt(Numbered(s, g), place, value) = Numbered(s, h)
      BY <2>4, <3>3, NumberIsSet
    <3>5. QED
      BY <3>1, <3>2, <3>4
  <2>8. QED
    BY <2>3, <2>6, <2>7
<1>6. w[0] = stored
  <2>1. Over(f, paths, values, 0) = [p \in PlacesIn(s) |-> f[p]]
    BY <1>2 DEF Over
  <2>2. 0 \in 0 .. m
    BY <1>1
  <2>3. QED
    BY <1>3, <1>4, <2>1, <2>2
<1>7. Is(w)
  <2>1. ASSUME NEW k \in 0 .. m
        PROVE  w[k] = IF k = 0 THEN stored ELSE SetAt(w[k - 1], axes[k].path, values[k])
    <3>1. k = 0 \/ k \in 1 .. m
      BY <1>1
    <3>2. k \in 1 .. m => k # 0
      OBVIOUS
    <3>3. QED
      BY <1>5, <1>6, <3>1, <3>2
  <2>2. w = [k \in 0 .. m |-> IF k = 0 THEN stored ELSE SetAt(w[k - 1], axes[k].path, values[k])]
    BY <1>4, <2>1
  <2>3. QED
    BY <2>2
<1>8. PICK g : g = CHOOSE h : Is(h)
  OBVIOUS
<1>9. Is(g)
  <2> HIDE DEF Is
  <2>1. QED
    BY <1>7, <1>8
<1>10. SetAll(stored, axes, values) = g[m]
  BY <1>1, <1>8 DEF SetAll
<1> DEFINE P == {k \in 0 .. m : g[k] = w[k]}
<1>11. 0 \in P
  BY <1>1, <1>6, <1>9
<1>12. ASSUME NEW k \in 0 .. m - 1, k \in P PROVE k + 1 \in P
  <2>1. PICK j \in 1 .. m : j = k + 1 /\ j - 1 = k /\ j \in 0 .. m /\ j # 0
    BY <1>1
  <2>2. g[j] = SetAt(g[k], axes[j].path, values[j])
    BY <1>9, <2>1
  <2>3. w[j] = SetAt(w[k], axes[j].path, values[j])
    BY <1>5, <2>1
  <2>4. QED
    BY <1>12, <2>1, <2>2, <2>3
<1>13. g[m] = w[m]
  <2>1. 0 \in 0 .. m /\ m \in 0 .. m
    BY <1>1
  <2> HIDE DEF P
  <2>2. m \in P
    BY <1>1, <1>11, <1>12, <2>1, Climb
  <2>3. QED
    BY <2>2 DEF P
<1>14. w[m] = Numbered(s, Over(f, paths, values, m))
  BY <1>1, <1>4
<1>15. QED
  BY <1>3, <1>10, <1>13, <1>14

(* What was set is found again, and set back it is what it was.             *)
HasNumbers(base, s, paths, m) == \A k \in 1 .. m : base[k] = NumberAt(s, paths[k])
IsRenumbered(w, s, values, m) ==
  \E f : /\ w = Numbered(s, f) /\ DOMAIN f = PlacesIn(s)
         /\ \A p \in PlacesIn(s) : f[p] = NumberAt(s, p) \/ \E k \in 1 .. m : f[p] = values[k]

LEMMA SetAndSetBack ==
  ASSUME NEW s, IsStored(s), NEW axes, NEW m, NEW paths, LeadTo(axes, m, paths, PlacesIn(s)),
         NEW values, NEW w, w = SetAll(s, axes, values),
         NEW base, HasNumbers(base, s, paths, m)
  PROVE  HasNumbers(values, w, paths, m) /\ SetAll(w, axes, base) = s /\ IsRenumbered(w, s, values, m)
<1>1. PICK f : f = [p \in PlacesIn(s) |-> NumberAt(s, p)]
  OBVIOUS
<1>2. Numbered(s, f) = s
  BY <1>1, StoredIsNumbered
<1>3. PICK g : g = Over(f, paths, values, m)
  OBVIOUS
<1>4. m \in Nat /\ m \in 0 .. m /\ \A k \in 1 .. m : paths[k] \in PlacesIn(s)
  BY DEF LeadTo
<1>5. DOMAIN f = PlacesIn(s) /\ f = [p \in PlacesIn(s) |-> f[p]]
  BY <1>1
<1>6. w = Numbered(s, g)
  BY <1>2, <1>3, <1>5, AllAreSet
<1>7. /\ DOMAIN g = PlacesIn(s)
      /\ \A k \in 1 .. m : g[paths[k]] = values[k]
      /\ \A p \in PlacesIn(s) : (\A k \in 1 .. m : paths[k] # p) => g[p] = f[p]
  BY <1>3, <1>4, <1>5, OverIs
<1>8. \A k \in 1 .. m : NumberAt(w, paths[k]) = values[k]
  BY <1>4, <1>6, <1>7, NumberOf
<1>9. SetAll(w, axes, base) = s
  <2>1. g = [p \in PlacesIn(s) |-> g[p]]
    BY <1>3, <1>5, <1>7 DEF Over
  <2>2. PICK h : h = Over(g, paths, base, m)
    OBVIOUS
  <2>3. SetAll(w, axes, base) = Numbered(s, h)
    BY <1>6, <2>1, <2>2, AllAreSet
  <2>4. /\ DOMAIN h = PlacesIn(s)
        /\ \A k \in 1 .. m : h[paths[k]] = base[k]
        /\ \A p \in PlacesIn(s) : (\A k \in 1 .. m : paths[k] # p) => h[p] = g[p]
    BY <1>4, <1>7, <2>2, OverIs
  <2>5. ASSUME NEW p \in PlacesIn(s) PROVE h[p] = f[p]
    <3>1. CASE \E k \in 1 .. m : paths[k] = p
      <4>1. PICK k \in 1 .. m : paths[k] = p
        BY <3>1
      <4>2. h[p] = base[k] /\ base[k] = NumberAt(s, p)
        BY <2>4, <4>1 DEF HasNumbers
      <4>3. QED
        BY <1>1, <4>2
    <3>2. CASE \A k \in 1 .. m : paths[k] # p
      BY <1>7, <2>4, <3>2
    <3>3. QED
      BY <3>1, <3>2
  <2>6. h = [p \in PlacesIn(s) |-> h[p]]
    BY <1>7, <2>2 DEF Over
  <2>7. h = f
    BY <1>5, <2>5, <2>6
  <2>8. QED
    BY <1>2, <2>3, <2>7
<1>10. ASSUME NEW p \in PlacesIn(s)
       PROVE  g[p] = NumberAt(s, p) \/ \E k \in 1 .. m : g[p] = values[k]
  <2>1. CASE \E k \in 1 .. m : paths[k] = p
    BY <1>7, <2>1
  <2>2. CASE \A k \in 1 .. m : paths[k] # p
    BY <1>1, <1>7, <2>2
  <2>3. QED
    BY <2>1, <2>2
<1>11. QED
  BY <1>6, <1>7, <1>8, <1>9, <1>10 DEF HasNumbers, IsRenumbered

-----------------------------------------------------------------------------
(* A stored spec with other numbers, read and written again.                *)

LEMMA LinesAreNamed ==
  ASSUME NEW i \in DOMAIN Registry
  PROVE  /\ Registry[i].lines[1] # None /\ Registry[i].least \in Nat
         /\ Registry[i].sourced \in BOOLEAN /\ Len(Registry[i].lines) \in 1 .. 2
<1>1. DOMAIN Registry = {"sma", "bbands", "atr"}
  BY DEF Registry
<1>2. /\ Registry["sma"].lines = <<"sma">> /\ Registry["sma"].least = 1
      /\ Registry["bbands"].lines = <<"middle", "upper">> /\ Registry["bbands"].least = 2
      /\ Registry["atr"].lines = <<"atr">> /\ Registry["atr"].least = 1
  BY DEF Registry
<1>3. Registry[i].least \in Nat /\ 1 \in DOMAIN Registry[i].lines
  BY <1>1, <1>2
<1>4. Registry[i].lines[1] # None
  <2>1. None \notin ToSet(Registry[i].lines)
    BY LanguageAssumption
  <2>2. QED
    BY <1>3, <2>1 DEF ToSet
<1>5. QED
  BY <1>3, <1>4, RegistryIs

IsOr(v, given, default) == v = IF given = None THEN default ELSE given

LEMMA BuildIs ==
  ASSUME NEW raw, Build(raw) # Fault, NEW i, i = raw.indicator,
         NEW period, IsOr(period, raw.period, DefaultPeriod),
         NEW output, IsOr(output, raw.output, Registry[i].lines[1]),
         NEW source, IsOr(source, raw.source, "close")
  PROVE  /\ i \in DOMAIN Registry /\ period \in Registry[i].least .. MaxPeriod
         /\ Build(raw) = [indicator |-> i, period |-> period, output |-> output,
                          source |-> IF Registry[i].sourced THEN source ELSE None]
  BY DEF Build, IsOr

LEMMA InputIsWritten ==
  ASSUME NEW raw, Build(raw) # Fault, NEW written, written = EncodeInput(Build(raw))
  PROVE  /\ written = Sized(written, written.period) /\ written.period # None
         /\ \A v : (v # None /\ Build(Sized(written, v)) # Fault)
              => /\ EncodeInput(Build(Sized(written, v))) = Sized(written, v)
                 /\ Build(Sized(written, v)).indicator = Build(raw).indicator
<1>1. PICK ind : ind = raw.indicator
  OBVIOUS
<1>2. PICK lines, sourced, least :
        lines = Registry[ind].lines /\ sourced = Registry[ind].sourced /\ least = Registry[ind].least
  OBVIOUS
<1>3. PICK period : period = IF raw.period = None THEN DefaultPeriod ELSE raw.period
  OBVIOUS
<1>4. PICK output : output = IF raw.output = None THEN lines[1] ELSE raw.output
  OBVIOUS
<1>5. PICK source : source = IF raw.source = None THEN "close" ELSE raw.source
  OBVIOUS
<1>6. /\ ind \in DOMAIN Registry
      /\ period \in least .. MaxPeriod
      /\ Build(raw) = [indicator |-> ind, period |-> period, output |-> output,
                       source |-> IF sourced THEN source ELSE None]
  <2>1. /\ IsOr(period, raw.period, DefaultPeriod) /\ IsOr(output, raw.output, Registry[ind].lines[1])
        /\ IsOr(source, raw.source, "close")
    BY <1>2, <1>3, <1>4, <1>5 DEF IsOr
  <2>2. QED
    BY <1>1, <1>2, <2>1, BuildIs
<1>7. sourced \in BOOLEAN /\ Len(lines) \in 1 .. 2 /\ lines[1] # None /\ least \in Nat
  BY <1>2, <1>6, LinesAreNamed
<1>8. "close" # None /\ period # None
  <2>1. MaxPeriod \in Int /\ least \in Int
    BY <1>7, LanguageAssumption
  <2>2. period \in Int
    BY <1>6, <2>1
  <2>3. None \notin Int /\ None \notin Sources
    BY LanguageAssumption
  <2>4. QED
    BY <2>2, <2>3 DEF Sources
<1>9. output # None /\ source # None
  BY <1>4, <1>5, <1>7, <1>8
<1>10. written = [indicator |-> ind, period |-> period,
                  source |-> IF sourced THEN source ELSE None,
                  output |-> IF Len(lines) > 1 THEN output ELSE None]
  BY <1>2, <1>6 DEF EncodeInput
<1>11. written = Sized(written, written.period) /\ written.period # None
  BY <1>8, <1>10 DEF Sized
<1>12. ASSUME NEW v, v # None, Build(Sized(written, v)) # Fault
       PROVE  /\ EncodeInput(Build(Sized(written, v))) = Sized(written, v)
              /\ Build(Sized(written, v)).indicator = Build(raw).indicator
  <2>1. PICK x : x = Sized(written, v)
    OBVIOUS
  <2>2. x = [indicator |-> ind, period |-> v,
             source |-> IF sourced THEN source ELSE None,
             output |-> IF Len(lines) > 1 THEN output ELSE None]
    BY <1>10, <2>1 DEF Sized
  <2>3. PICK again : again = IF x.output = None THEN lines[1] ELSE x.output
    OBVIOUS
  <2>4. PICK from : from = IF x.source = None THEN "close" ELSE x.source
    OBVIOUS
  <2>5. Build(x) = [indicator |-> ind, period |-> v, output |-> again,
                    source |-> IF sourced THEN from ELSE None]
    <3>1. x.indicator = ind /\ x.period = v
      BY <2>2
    <3>2. /\ IsOr(v, x.period, DefaultPeriod) /\ IsOr(again, x.output, Registry[ind].lines[1])
          /\ IsOr(from, x.source, "close")
      BY <1>2, <1>12, <2>3, <2>4, <3>1 DEF IsOr
    <3>3. Build(x) # Fault
      BY <1>12, <2>1
    <3>4. QED
      BY <1>2, <3>1, <3>2, <3>3, BuildIs
  <2>6. EncodeInput(Build(x)) = [indicator |-> ind, period |-> v,
                                 source |-> IF sourced THEN from ELSE None,
                                 output |-> IF Len(lines) > 1 THEN again ELSE None]
    BY <1>2, <2>5 DEF EncodeInput
  <2>7. sourced => from = source
    BY <1>9, <2>2, <2>4
  <2>8. Len(lines) > 1 => again = output
    BY <1>9, <2>2, <2>3
  <2>9. (IF sourced THEN from ELSE None) = IF sourced THEN source ELSE None
    BY <2>7
  <2>10. (IF Len(lines) > 1 THEN again ELSE None) = IF Len(lines) > 1 THEN output ELSE None
    BY <2>8
  <2>11. EncodeInput(Build(x)) = x
    BY <2>2, <2>6, <2>9, <2>10
  <2>12. Build(x).indicator = Build(raw).indicator
    BY <1>6, <2>5
  <2>13. QED
    BY <2>1, <2>11, <2>12
<1>13. QED
  BY <1>11, <1>12

(* Rules are read by the indicators of the inputs alone.                    *)
SameKinds(a, b) == DOMAIN a = DOMAIN b /\ \A n \in DOMAIN a : a[n].indicator = b[n].indicator

LEMMA RulesReadByKind ==
  ASSUME NEW a, NEW b, SameKinds(a, b), NEW rules
  PROVE  ReadRules(a, rules) = ReadRules(b, rules)
<1>1. DOMAIN a = DOMAIN b /\ \A n \in DOMAIN a : a[n].indicator = b[n].indicator
  BY DEF SameKinds
<1>2. ASSUME NEW o PROVE DottedLine(a, o) = DottedLine(b, o)
  BY <1>1 DEF DottedLine
<1>3. ASSUME NEW o PROVE Named(a, o) = Named(b, o)
  BY <1>1, <1>2 DEF Named
<1>4. ASSUME NEW o PROVE ReadOperand(a, o) = ReadOperand(b, o)
  BY <1>3 DEF ReadOperand
<1>5. ASSUME NEW node PROVE ReadCompare(a, node) = ReadCompare(b, node)
  <2>1. [k \in DOMAIN node.of |-> ReadOperand(a, node.of[k])]
        = [k \in DOMAIN node.of |-> ReadOperand(b, node.of[k])]
    BY <1>4
  <2>2. QED
    BY <2>1, Zenon DEF ReadCompare
<1>6. ASSUME NEW node PROVE ReadNode(a, node) = ReadNode(b, node)
  BY <1>5, Zenon DEF ReadNode
<1>7. QED
  BY <1>6 DEF ReadRules

(* The stored form of what was read.                                        *)
LEMMA EncodedIs ==
  ASSUME NEW s, NEW d, NEW inputs, NEW rules, NEW costs, IsParsed(s, d, inputs, rules, costs)
  PROVE  Encode(s) = Parts(1, [n \in DOMAIN inputs |-> EncodeInput(inputs[n])], WrittenRules(rules),
                           d.entry, d.exit, d.sizing, costs)
<1>1. s = Parts(1, inputs, rules, d.entry, d.exit, d.sizing, costs)
  BY DEF IsParsed
<1>2. s.inputs = inputs /\ s.rules = rules
  BY <1>1 DEF Parts
<1>3. Encode(s) = Written(s, [n \in DOMAIN inputs |-> EncodeInput(inputs[n])], WrittenRules(rules))
  BY <1>2 DEF Encode, Written, WrittenRules
<1>4. QED
  BY <1>1, <1>3, TwoPartsReplaced

-----------------------------------------------------------------------------
(* What was written has the form of a draft.                                *)
LEMMA OperandHasValue ==
  ASSUME NEW inputs, NEW o, o.value \in Int, ReadOperand(inputs, o) # Fault
  PROVE  ReadOperand(inputs, o).value \in Int
<1>1. PICK r : r = ReadOperand(inputs, o) /\ r # Fault
  OBVIOUS
<1>2. CASE o.name = None
  BY <1>1, <1>2 DEF ReadOperand, Literal
<1>3. CASE o.name # None
  <2>1. r = Named(inputs, o)
    BY <1>1, <1>3 DEF ReadOperand
  <2>2. r.value = 0
    BY <1>1, <2>1 DEF Named, DottedLine
  <2>3. QED
    BY <1>1, <2>2
<1>4. QED
  BY <1>2, <1>3

LEMMA CompareHasValues ==
  ASSUME NEW inputs, NEW node, IsSequence(node.of),
         \A k \in DOMAIN node.of : node.of[k].value \in Int,
         ReadCompare(inputs, node) # Fault
  PROVE  \A k \in DOMAIN ReadCompare(inputs, node).of : ReadCompare(inputs, node).of[k].value \in Int
<1>1. PICK n \in Nat : n = Len(node.of)
  BY DEF IsSequence
<1>2. PICK key, of, bars, all :
        /\ key = node.key
        /\ of = [k \in 1 .. n |-> ReadOperand(inputs, node.of[k])]
        /\ bars = IF key \in Trends /\ n = 1 THEN <<Literal(1)>> ELSE <<>>
        /\ all = of \o bars
  OBVIOUS
<1>3. DOMAIN node.of = 1 .. n
  BY <1>1 DEF IsSequence
<1>4. Comparable(key, all) /\ ReadCompare(inputs, node) = [key |-> key, of |-> all]
  BY <1>1, <1>2, <1>3 DEF ReadCompare
<1>5. \A k \in DOMAIN all : all[k] # Fault
  BY <1>4 DEF Comparable
<1>6. ASSUME NEW k \in 1 .. n, of[k] # Fault PROVE of[k].value \in Int
  BY <1>2, <1>3, <1>6, OperandHasValue
<1>7. CASE key \in Trends /\ n = 1
  <2>1. PICK x, y : x = of[1] /\ y = Literal(1)
    OBVIOUS
  <2>2. of = <<x>>
    <3>1. of = [k \in 1 .. 1 |-> x]
      <4>1. of = [k \in 1 .. 1 |-> of[k]]
        BY <1>2, <1>7
      <4>2. \A k \in 1 .. 1 : of[k] = x
        BY <2>1
      <4>3. [k \in 1 .. 1 |-> of[k]] = [k \in 1 .. 1 |-> x]
        BY <4>2
      <4>4. QED
        BY <4>1, <4>3
    <3>2. [k \in 1 .. 1 |-> x] = <<x>>
      OBVIOUS
    <3>3. QED
      BY <3>1, <3>2
  <2>3. all = <<x, y>>
    <3>1. bars = <<y>>
      BY <1>2, <1>7, <2>1
    <3>2. QED
      BY <1>2, <2>2, <3>1, PairJoined
  <2>4. DOMAIN all = 1 .. 2 /\ all[1] = x /\ all[2] = y
    BY <2>3
  <2>5. y.value \in Int
    BY <2>1 DEF Literal
  <2>6. x.value \in Int
    <3>1. 1 \in 1 .. n /\ x # Fault
      BY <1>5, <1>7, <2>4
    <3>2. QED
      BY <1>6, <2>1, <3>1
  <2>7. \A k \in 1 .. 2 : all[k].value \in Int
    BY <2>4, <2>5, <2>6
  <2>8. QED
    BY <1>4, <2>4, <2>7
<1>8. CASE ~(key \in Trends /\ n = 1)
  <2>1. of = [k \in 1 .. n |-> of[k]] /\ bars = <<>>
    BY <1>2, <1>8
  <2>2. all = of /\ DOMAIN all = 1 .. n
    BY <1>2, <2>1
  <2>3. QED
    BY <1>4, <1>5, <1>6, <2>2
<1>9. QED
  BY <1>7, <1>8

LEMMA NodeIsWritten ==
  ASSUME NEW inputs, NEW i, NEW node, IsNode(node, i), ReadNode(inputs, node) # Fault
  PROVE  IsNode(EncodeNode(ReadNode(inputs, node)), i)
<1>1. PICK r, w : r = ReadNode(inputs, node) /\ w = EncodeNode(r)
  OBVIOUS
<1>2. CASE node.key \in Comparators
  <2>1. node.key \notin Combinators /\ node.key # "not"
    BY <1>2 DEF Comparators, Plain, Crossings, Trends, Combinators
  <2>2. r = ReadCompare(inputs, node)
    BY <1>1, <1>2 DEF ReadNode, Comparators, Plain, Crossings, Trends, Brackets, Combinators
  <2>3. IsSequence(node.of) /\ \A k \in DOMAIN node.of : node.of[k].value \in Int
    BY <1>2 DEF IsNode, IsSequence
  <2>4. IsCompare(inputs, r) /\ r.key = node.key
    <3>1. ReadCompare(inputs, node) # Fault
      BY <1>1, <2>2
    <3>2. IsCompare(inputs, r)
      BY <1>2, <2>2, <2>3, <3>1, CompareIsRead
    <3>3. QED
      BY <1>1, <3>2, NodeIsReadAgain
  <2>5. \A k \in DOMAIN r.of : r.of[k].value \in Int
    BY <1>1, <2>2, <2>3, CompareHasValues
  <2>6. PICK n \in Nat : n = Len(r.of)
    BY <2>4 DEF IsCompare, IsSequence
  <2>7. PICK of : of = [k \in 1 .. n |-> EncodeOperand(r.of[k])]
    OBVIOUS
  <2>8. DOMAIN r.of = 1 .. n /\ r = [key |-> node.key, of |-> r.of]
    BY <2>4, <2>6 DEF IsCompare, IsSequence
  <2>9. w = [key |-> node.key, of |-> of]
    <3>1. w = [r EXCEPT !.of = of]
      BY <1>1, <1>2, <2>4, <2>7, <2>8 DEF EncodeNode
    <3>2. \A key, x, y : [[key |-> key, of |-> x] EXCEPT !.of = y] = [key |-> key, of |-> y]
      OBVIOUS
    <3>3. PICK key, x : r = [key |-> key, of |-> x] /\ key = node.key
      BY <2>8
    <3>4. QED
      BY <3>1, <3>2, <3>3
  <2>10. w.key = node.key /\ w.of = of
    BY <2>9
  <2>11. Len(of) = n /\ DOMAIN of = 1 .. n /\ of = [k \in 1 .. n |-> of[k]]
    BY <2>7
  <2>12. \A k \in 1 .. n : of[k].value = r.of[k].value
    BY <2>7 DEF EncodeOperand
  <2>13. \A k \in DOMAIN w.of : w.of[k].value \in Int
    BY <2>5, <2>8, <2>10, <2>11, <2>12
  <2>14. QED
    BY <1>1, <2>1, <2>9, <2>10, <2>11, <2>13 DEF IsNode
<1>3. CASE node.key \notin Comparators
  <2>1. w = node
    BY <1>1, <1>3, NodeIsReadAgain
  <2>2. QED
    BY <1>1, <2>1
<1>4. QED
  BY <1>2, <1>3

-----------------------------------------------------------------------------
(* A sweep's specs.                                                         *)

(* The numbers were given, but for the size, which may be any.              *)
GivenNumbers(s, f) ==
  /\ \A n \in DOMAIN s.inputs : f[PeriodAt(n)] # None
  /\ \A c \in CostNames : f[CostAt(c)] # None

LEMMA CostsAreWritten ==
  ASSUME NEW costs, ReadCosts(costs) # Fault, NEW read, read = ReadCosts(costs)
  PROVE  /\ read = [brokerage |-> read.brokerage, fee |-> read.fee, slippage |-> read.slippage]
         /\ read.brokerage # None /\ read.fee # None /\ read.slippage # None
<1>1. PICK b, f, s : /\ b = Given(costs.brokerage, 0)
                     /\ f = Given(costs.fee, 3)
                     /\ s = Given(costs.slippage, 5)
  OBVIOUS
<1>2. read = CostsOf(b, f, s)
  BY <1>1 DEF ReadCosts, CostsOf, Given
<1>3. read = [brokerage |-> b, fee |-> f, slippage |-> s]
  BY <1>2 DEF CostsOf
<1>4. None \notin Int
  BY LanguageAssumption
<1>5. b # None /\ f # None /\ s # None
  BY <1>1, <1>4 DEF Given
<1>6. QED
  BY <1>3, <1>5

LEMMA CostsStay ==
  ASSUME NEW b, NEW f, NEW s, b # None, f # None, s # None,
         NEW costs, costs = [brokerage |-> b, fee |-> f, slippage |-> s], ReadCosts(costs) # Fault
  PROVE  ReadCosts(costs) = costs
<1>1. ReadCosts(costs) = CostsOf(Given(costs.brokerage, 0), Given(costs.fee, 3), Given(costs.slippage, 5))
  BY DEF ReadCosts, CostsOf, Given
<1>2. Given(costs.brokerage, 0) = b /\ Given(costs.fee, 3) = f /\ Given(costs.slippage, 5) = s
  BY DEF Given
<1>3. QED
  BY <1>1, <1>2 DEF CostsOf

(* What a draft is stored as.                                               *)
LEMMA StoredIs ==
  ASSUME NEW d, IsDraft(d), Parse(d) # Fault, NEW e, e = Encode(Parse(d))
  PROVE  /\ IsStored(e) /\ DOMAIN e.costs = CostNames
         /\ GivenNumbers(e, [p \in PlacesIn(e) |-> NumberAt(e, p)])
         /\ \A f, w : (w = Numbered(e, f) /\ GivenNumbers(e, f) /\ Parse(w) # Fault)
              => IsDraft(w) /\ Encode(Parse(w)) = w
<1>1. PICK inputs, rules, costs : IsParsed(Parse(d), d, inputs, rules, costs)
  BY ParsedIs
<1>2. PICK wi, wr : wi = [n \in DOMAIN inputs |-> EncodeInput(inputs[n])] /\ wr = WrittenRules(rules)
  OBVIOUS
<1>3. e = Parts(1, wi, wr, d.entry, d.exit, d.sizing, costs)
  BY <1>1, <1>2, EncodedIs
<1>4. /\ inputs = ReadInputs(d.inputs) /\ inputs # Fault
      /\ rules = ReadRules(inputs, d.rules) /\ Clean(rules)
      /\ costs = ReadCosts(d.costs) /\ costs # Fault
  BY <1>1 DEF IsParsed, Accepted, Clean
<1>5. /\ DOMAIN inputs = DOMAIN d.inputs /\ DOMAIN wi = DOMAIN inputs
      /\ \A n \in DOMAIN inputs : /\ inputs[n] = Build(d.inputs[n]) /\ Build(d.inputs[n]) # Fault
                                  /\ wi[n] = EncodeInput(Build(d.inputs[n]))
  BY <1>2, <1>4 DEF ReadInputs
<1>6. /\ e.inputs = wi /\ e.rules = wr /\ e.entry = d.entry /\ e.exit = d.exit
      /\ e.sizing = d.sizing /\ e.costs = costs
  BY <1>3 DEF Parts
<1>7. \A n \in DOMAIN inputs : wi[n] = Sized(wi[n], wi[n].period) /\ wi[n].period # None
  BY <1>5, InputIsWritten
<1>8. /\ costs = [brokerage |-> costs.brokerage, fee |-> costs.fee, slippage |-> costs.slippage]
      /\ costs.brokerage # None /\ costs.fee # None /\ costs.slippage # None
  BY <1>4, CostsAreWritten
<1>9. d.sizing = [type |-> d.sizing.type, value |-> d.sizing.value]
  BY DEF IsDraft
<1>10. IsStored(e)
  <2>1. wi = [n \in DOMAIN wi |-> Sized(wi[n], wi[n].period)]
    <3>1. wi = [n \in DOMAIN inputs |-> wi[n]]
      BY <1>2
    <3>2. [n \in DOMAIN inputs |-> wi[n]] = [n \in DOMAIN inputs |-> Sized(wi[n], wi[n].period)]
      BY <1>7
    <3>3. QED
      BY <1>5, <3>1, <3>2
  <2>2. QED
    BY <1>3, <1>6, <1>8, <1>9, <2>1 DEF IsStored
<1>11. DOMAIN e.costs = CostNames
  BY <1>6, <1>8 DEF CostNames
<1>12. PICK kept : kept = [p \in PlacesIn(e) |-> NumberAt(e, p)]
  OBVIOUS
<1>13. GivenNumbers(e, kept)
  <2>1. ASSUME NEW n \in DOMAIN e.inputs PROVE kept[PeriodAt(n)] # None
    <3>1. PeriodAt(n) \in PlacesIn(e)
      BY DEF PlacesIn
    <3>2. kept[PeriodAt(n)] = wi[n].period
      BY <1>6, <1>12, <3>1, NumberAtIs
    <3>3. QED
      BY <1>5, <1>6, <1>7, <3>2
  <2>2. ASSUME NEW c \in CostNames PROVE kept[CostAt(c)] # None
    <3>1. CostAt(c) \in PlacesIn(e)
      BY DEF PlacesIn
    <3>2. kept[CostAt(c)] = costs[c]
      BY <1>6, <1>11, <1>12, <3>1, NumberAtIs
    <3>3. QED
      BY <1>8, <3>2 DEF CostNames
  <2>3. QED
    BY <2>1, <2>2 DEF GivenNumbers
<1>14. ASSUME NEW f, NEW w, w = Numbered(e, f), GivenNumbers(e, f), Parse(w) # Fault
       PROVE  IsDraft(w) /\ Encode(Parse(w)) = w
  <2>1. /\ w = Parts(1, w.inputs, w.rules, w.entry, w.exit, w.sizing, w.costs)
        /\ w.inputs = AllSized(wi, f) /\ DOMAIN w.inputs = DOMAIN inputs
        /\ w.rules = wr /\ w.entry = d.entry /\ w.exit = d.exit /\ w.version = 1
        /\ w.sizing = [type |-> d.sizing.type, value |-> f[SizeAt]] /\ w.costs = Charged(f)
    BY <1>5, <1>6, <1>14, NumberedHas
  <2>2. PICK n \in Nat : n = Len(d.rules) /\ DOMAIN d.rules = 1 .. n
    BY DEF IsDraft
  <2>3. /\ wr = [i \in 1 .. n |-> wr[i]] /\ Len(wr) = n
        /\ \A i \in 1 .. n : /\ wr[i] = EncodeNode(ReadNode(inputs, d.rules[i]))
                               /\ ReadNode(inputs, d.rules[i]) # Fault
    <3>1. rules = [i \in 1 .. n |-> ReadNode(inputs, d.rules[i])]
      BY <1>4, <2>2 DEF ReadRules
    <3>2. wr = [i \in 1 .. n |-> EncodeNode(ReadNode(inputs, d.rules[i]))]
      BY <1>2, <3>1 DEF WrittenRules
    <3>3. \A i \in 1 .. n : ReadNode(inputs, d.rules[i]) # Fault
      BY <1>4, <3>1 DEF Clean
    <3>4. QED
      BY <3>2, <3>3
  <2>4. \A i \in 1 .. n : IsNode(wr[i], i)
    <3>1. ASSUME NEW i \in 1 .. n PROVE IsNode(wr[i], i)
      <4>1. IsNode(d.rules[i], i)
        BY <2>2 DEF IsDraft
      <4>2. QED
        BY <2>3, <4>1, NodeIsWritten
    <3>2. QED
      BY <3>1
  <2>5. IsDraft(w)
    <3>1. w = [version |-> w.version, inputs |-> w.inputs, rules |-> w.rules, entry |-> w.entry,
               exit |-> w.exit, sizing |-> w.sizing, costs |-> w.costs]
      BY <2>1 DEF Parts
    <3>2. w.sizing = [type |-> w.sizing.type, value |-> w.sizing.value]
      BY <2>1
    <3>3. {w.entry, w.exit} \subseteq [long : 0 .. n, short : 0 .. n]
      BY <2>1, <2>2 DEF IsDraft
    <3>4. Len(w.rules) = n /\ w.rules = [i \in 1 .. n |-> w.rules[i]] /\ \A i \in 1 .. n : IsNode(w.rules[i], i)
      BY <2>1, <2>3, <2>4
    <3>5. QED
      BY <2>2, <3>1, <3>2, <3>3, <3>4 DEF IsDraft
  <2>6. PICK again, r, c : IsParsed(Parse(w), w, again, r, c)
    BY <1>14, <2>5, ParsedIs
  <2>7. /\ again = ReadInputs(w.inputs) /\ again # Fault
        /\ r = ReadRules(again, wr) /\ c = ReadCosts(w.costs) /\ c # Fault
    BY <2>1, <2>6 DEF IsParsed, Accepted
  <2>8. /\ DOMAIN again = DOMAIN inputs
        /\ \A m \in DOMAIN inputs : again[m] = Build(w.inputs[m]) /\ Build(w.inputs[m]) # Fault
    BY <2>1, <2>7 DEF ReadInputs
  <2>9. ASSUME NEW m \in DOMAIN inputs
        PROVE  EncodeInput(again[m]) = w.inputs[m] /\ again[m].indicator = inputs[m].indicator
    <3>1. PICK raw, v : raw = d.inputs[m] /\ v = f[PeriodAt(m)]
      OBVIOUS
    <3>2. Build(raw) # Fault /\ wi[m] = EncodeInput(Build(raw)) /\ inputs[m] = Build(raw)
      BY <1>5, <3>1
    <3>3. v # None
      BY <1>5, <1>6, <1>14, <3>1 DEF GivenNumbers
    <3>4. w.inputs[m] = Sized(wi[m], v)
      BY <1>5, <2>1, <3>1 DEF AllSized
    <3>5. again[m] = Build(Sized(wi[m], v)) /\ Build(Sized(wi[m], v)) # Fault
      BY <2>8, <3>4
    <3>6. QED
      BY <3>2, <3>3, <3>4, <3>5, InputIsWritten
  <2>10. [m \in DOMAIN again |-> EncodeInput(again[m])] = w.inputs
    <3>1. w.inputs = [m \in DOMAIN inputs |-> w.inputs[m]]
      BY <1>5, <2>1 DEF AllSized
    <3>2. QED
      BY <2>8, <2>9, <3>1
  <2>11. r = rules
    <3>1. SameKinds(again, inputs)
      BY <2>8, <2>9 DEF SameKinds
    <3>2. ReadRules(again, wr) = ReadRules(inputs, wr)
      BY <3>1, RulesReadByKind
    <3>3. ReadRules(inputs, wr) = rules
      BY <1>2, <1>4, ReadRulesAre
    <3>4. QED
      BY <2>7, <3>2, <3>3
  <2>12. c = w.costs
    <3>1. "brokerage" \in CostNames /\ "fee" \in CostNames /\ "slippage" \in CostNames
      BY DEF CostNames
    <3>2. PICK x, y, z : x = f[CostAt("brokerage")] /\ y = f[CostAt("fee")] /\ z = f[CostAt("slippage")]
      OBVIOUS
    <3>3. x # None /\ y # None /\ z # None
      BY <1>14, <3>1, <3>2 DEF GivenNumbers
    <3>4. w.costs = [brokerage |-> x, fee |-> y, slippage |-> z]
      BY <2>1, <3>2 DEF Charged
    <3>5. QED
      BY <2>7, <3>3, <3>4, CostsStay
  <2>13. Encode(Parse(w)) = Parts(1, w.inputs, wr, w.entry, w.exit, w.sizing, w.costs)
    BY <1>2, <2>6, <2>10, <2>11, <2>12, EncodedIs
  <2>14. Encode(Parse(w)) = w
    BY <2>1, <2>13
  <2>15. QED
    BY <2>5, <2>14
<1>15. QED
  BY <1>10, <1>11, <1>12, <1>13, <1>14

-----------------------------------------------------------------------------
(* The points of a grid.                                                    *)

(* Axes that were read: values in order and none twice, at different paths. *)
AreListed(axes, n) ==
  /\ n \in Nat /\ Len(axes) = n /\ DOMAIN axes = 1 .. n
  /\ \A k \in 1 .. n : /\ axes[k].path \in Seq(STRING) /\ UsablePath(axes[k].path)
                       /\ \E S \in SUBSET Int, l \in Nat : Lists(axes[k].values, l, S)
  /\ \A k, j \in 1 .. n : axes[k].path = axes[j].path => k = j

LEMMA AxesAreListed ==
  ASSUME NEW request, IsRequest(request), NEW axes, axes = ReadAxes(request.axes), axes # Fault
  PROVE  \E n \in Nat : AreListed(axes, n)
<1>0. PICK raws : raws = request.axes
  OBVIOUS
<1>1. PICK n \in Nat : n = Len(raws) /\ raws = [k \in 1 .. n |-> raws[k]] /\ \A k \in 1 .. n : IsAxis(raws[k])
  <2>1. PICK n \in Nat : n = Len(raws)
    BY <1>0 DEF IsRequest
  <2>2. QED
    BY <1>0, <2>1 DEF IsRequest
<1>2. DOMAIN raws = 1 .. n
  BY <1>1
<1>3. PICK read : read = [k \in 1 .. n |-> [path |-> raws[k].path, values |-> ReadValues(raws[k])]]
  OBVIOUS
<1>4. /\ axes = read
      /\ \A k \in 1 .. n : UsablePath(raws[k].path) /\ read[k].values # Fault
      /\ \A k, j \in 1 .. n : k # j => raws[k].path # raws[j].path
  <2>1. read = [k \in DOMAIN raws |-> [path |-> raws[k].path, values |-> ReadValues(raws[k])]]
    BY <1>2, <1>3
  <2>2. ReadAxes(raws) = IF \/ Len(raws) \notin 1 .. MaxAxes
                            \/ \E k \in DOMAIN raws : ~UsablePath(raws[k].path) \/ read[k].values = Fault
                            \/ \E k, j \in DOMAIN raws : k # j /\ raws[k].path = raws[j].path
                         THEN Fault ELSE read
    BY <2>1, Zenon DEF ReadAxes
  <2>3. axes = ReadAxes(raws) /\ axes # Fault
    BY <1>0
  <2>4. QED
    BY <1>2, <2>2, <2>3, Zenon
<1>5. Len(axes) = n /\ DOMAIN axes = 1 .. n
  BY <1>3, <1>4
<1>6. ASSUME NEW k \in 1 .. n
      PROVE  /\ axes[k].path = raws[k].path /\ axes[k].path \in Seq(STRING) /\ UsablePath(axes[k].path)
             /\ \E S \in SUBSET Int, l \in Nat : Lists(axes[k].values, l, S)
  <2>1. axes[k].path = raws[k].path /\ axes[k].values = ReadValues(raws[k])
    BY <1>3, <1>4
  <2>2. IsAxis(raws[k]) /\ ReadValues(raws[k]) # Fault
    BY <1>1, <1>4, <2>1
  <2>3. raws[k].path \in Seq(STRING)
    BY <2>2 DEF IsAxis
  <2>4. \E S \in SUBSET Int, l \in Nat : Lists(ReadValues(raws[k]), l, S)
    BY <2>2, ValuesAreListed
  <2>5. QED
    BY <1>4, <2>1, <2>3, <2>4
<1>7. \A k, j \in 1 .. n : axes[k].path = axes[j].path => k = j
  BY <1>4, <1>6
<1>8. AreListed(axes, n)
  BY <1>5, <1>6, <1>7 DEF AreListed
<1>9. QED
  BY <1>8

LEMMA ListedAreAxes ==
  ASSUME NEW axes, NEW n, AreListed(axes, n)
  PROVE  \E sizes : /\ AreAxes(axes, n, sizes)
                    /\ \A k \in 1 .. n : \E S \in SUBSET Int : Lists(axes[k].values, sizes[k], S)
<1>1. PICK sizes : sizes = [k \in 1 .. n |-> Len(axes[k].values)]
  OBVIOUS
<1>2. ASSUME NEW k \in 1 .. n
      PROVE  sizes[k] \in Nat /\ \E S \in SUBSET Int : Lists(axes[k].values, sizes[k], S)
  <2>1. PICK S \in SUBSET Int, l \in Nat : Lists(axes[k].values, l, S)
    BY DEF AreListed
  <2>2. Len(axes[k].values) = l
    <3>1. axes[k].values \in [1 .. l -> S]
      BY <2>1 DEF Lists
    <3>2. QED
      BY <3>1
  <2>3. sizes[k] = l
    BY <1>1, <2>2
  <2>4. QED
    BY <2>1, <2>3
<1>3. AreAxes(axes, n, sizes)
  BY <1>1, <1>2 DEF AreListed, AreAxes
<1>4. QED
  BY <1>2, <1>3

(* The values a cursor stands at.                                           *)
ValuesAt(axes, cursor) == [k \in DOMAIN axes |-> axes[k].values[cursor[k]]]
NumbersOf(axes, stored) == [k \in DOMAIN axes |-> NumberAt(stored, axes[k].path)]

AreNumbers(v, n) == DOMAIN v = 1 .. n /\ v = [k \in 1 .. n |-> v[k]] /\ \A k \in 1 .. n : v[k] \in Int

(* A spec with the numbers of a point, and back.                            *)
LEMMA AppliedIs ==
  ASSUME NEW d, IsDraft(d), Parse(d) # Fault, NEW e, e = Encode(Parse(d)),
         NEW axes, NEW n, AreListed(axes, n),
         NEW values, AreNumbers(values, n),
         NEW w, w = Apply(e, axes, values), w # Fault
  PROVE  /\ NumbersOf(axes, w) = values
         /\ SetAll(w, axes, NumbersOf(axes, e)) = e
         /\ Compiles(Parse(w))
<1>1. n \in Nat /\ Len(axes) = n /\ DOMAIN axes = 1 .. n
  BY DEF AreListed
<1>0. DOMAIN values = 1 .. n /\ values = [k \in 1 .. n |-> values[k]] /\ \A k \in 1 .. n : values[k] \in Int
  BY DEF AreNumbers
<1>2. PICK set : set = SetAll(e, axes, values)
  OBVIOUS
<1>3. /\ \A k \in 1 .. n : NumberAt(e, axes[k].path) # Fault
      /\ Parse(set) # Fault /\ w = Encode(Parse(set))
  BY <1>1, <1>2 DEF Apply
<1>4. IsStored(e) /\ DOMAIN e.costs = CostNames
  BY StoredIs
<1>5. PICK paths : paths = [k \in 1 .. n |-> axes[k].path]
  OBVIOUS
<1>6. LeadTo(axes, n, paths, PlacesIn(e))
  <2>1. ASSUME NEW k \in 1 .. n PROVE paths[k] \in PlacesIn(e) /\ axes[k].path = paths[k]
    <3>1. PICK path \in Seq(STRING) : path = axes[k].path /\ UsablePath(path)
      BY DEF AreListed
    <3>2. NumberAt(e, path) # Fault
      BY <1>3, <3>1
    <3>3. path \in PlacesIn(e)
      BY <1>4, <3>1, <3>2, PlaceIs
    <3>4. QED
      BY <1>5, <3>1, <3>3
  <2>2. paths \in [1 .. n -> PlacesIn(e)]
    BY <1>5, <2>1
  <2>3. \A k, j \in 1 .. n : paths[k] = paths[j] => k = j
    BY <1>5 DEF AreListed
  <2>4. QED
    BY <1>1, <2>1, <2>2, <2>3 DEF LeadTo
<1>7. PICK base : base = NumbersOf(axes, e)
  OBVIOUS
<1>8. HasNumbers(base, e, paths, n)
  BY <1>1, <1>5, <1>7 DEF NumbersOf, HasNumbers
<1>9. HasNumbers(values, set, paths, n) /\ SetAll(set, axes, base) = e /\ IsRenumbered(set, e, values, n)
  BY <1>0, <1>2, <1>4, <1>6, <1>8, SetAndSetBack
<1>10. PICK f : /\ set = Numbered(e, f)
                /\ \A p \in PlacesIn(e) : f[p] = NumberAt(e, p) \/ \E k \in 1 .. n : f[p] = values[k]
  BY <1>9 DEF IsRenumbered
<1>11. PICK kept : kept = [p \in PlacesIn(e) |-> NumberAt(e, p)] /\ GivenNumbers(e, kept)
  BY StoredIs
<1>12. GivenNumbers(e, f)
  <2>1. \A k \in 1 .. n : values[k] # None
    BY <1>0, LanguageAssumption
  <2>2. ASSUME NEW p \in PlacesIn(e), kept[p] # None PROVE f[p] # None
    BY <1>10, <1>11, <2>1, <2>2
  <2>3. ASSUME NEW m \in DOMAIN e.inputs PROVE f[PeriodAt(m)] # None
    BY <1>11, <2>2 DEF GivenNumbers, PlacesIn
  <2>4. ASSUME NEW c \in CostNames PROVE f[CostAt(c)] # None
    BY <1>11, <2>2 DEF GivenNumbers, PlacesIn
  <2>5. QED
    BY <2>3, <2>4 DEF GivenNumbers
<1>13. IsDraft(set) /\ Encode(Parse(set)) = set
  BY <1>3, <1>10, <1>12, StoredIs
<1>14. w = set
  BY <1>3, <1>13
<1>15. Compiles(Parse(set))
  BY <1>3, <1>13, SpecCompiles
<1>16. NumbersOf(axes, set) = values
  <2>1. \A k \in 1 .. n : NumberAt(set, axes[k].path) = values[k]
    BY <1>5, <1>9 DEF HasNumbers
  <2>2. QED
    BY <1>0, <1>1, <2>1 DEF NumbersOf
<1>17. QED
  BY <1>7, <1>9, <1>14, <1>15, <1>16

-----------------------------------------------------------------------------
(* Every combination of values is a point of the grid, once.                *)
GridOf(axes) ==
  {v \in [DOMAIN axes -> UNION {ToSet(axes[k].values) : k \in DOMAIN axes}] :
     \A k \in DOMAIN axes : v[k] \in ToSet(axes[k].values)}

LEMMA ListedOnce ==
  ASSUME NEW s, NEW n, NEW S, Lists(s, n, S)
  PROVE  IsFiniteSet(S) /\ Cardinality(S) = n
<1>1. n \in Nat /\ s \in Surjection(1 .. n, S) /\ s \in Injection(1 .. n, S)
  BY DEF Lists, Surjection, Injection, IsInjective
<1>2. IsFiniteSet(1 .. n) /\ Cardinality(1 .. n) = n
  <2>1. 1 \in Int /\ n \in Int
    BY <1>1
  <2>2. Cardinality(1 .. n) = IF 1 > n THEN 0 ELSE n - 1 + 1
    BY <2>1, FS_Interval
  <2>3. QED
    BY <1>1, <2>1, <2>2, FS_Interval
<1>3. QED
  BY <1>1, <1>2, FS_Surjection

OfValues(v, axes, n) ==
  /\ v = [k \in 1 .. n |-> v[k]]
  /\ \A k \in 1 .. n : \E l \in DOMAIN axes[k].values : v[k] = axes[k].values[l]

LEMMA InGrid ==
  ASSUME NEW axes, NEW n, AreListed(axes, n), NEW v
  PROVE  v \in GridOf(axes) <=> OfValues(v, axes, n)
<1>1. DOMAIN axes = 1 .. n
  BY DEF AreListed
<1>2. \A k \in 1 .. n : ToSet(axes[k].values) = {axes[k].values[l] : l \in DOMAIN axes[k].values}
  BY DEF ToSet
<1>3. PICK all : all = UNION {ToSet(axes[k].values) : k \in 1 .. n}
  OBVIOUS
<1>4. v \in GridOf(axes) <=> v \in [1 .. n -> all] /\ \A k \in 1 .. n : v[k] \in ToSet(axes[k].values)
  BY <1>1, <1>3 DEF GridOf
<1>5. \A k \in 1 .. n : ToSet(axes[k].values) \subseteq all
  BY <1>3
<1>6. QED
  BY <1>2, <1>4, <1>5 DEF OfValues

LEMMA GridIsListed ==
  ASSUME NEW axes, NEW n, AreListed(axes, n), NEW at,
         at = [i \in 1 .. GridSize(axes) |-> ValuesAt(axes, Cursors(axes)[i])]
  PROVE  /\ Lists(at, GridSize(axes), GridOf(axes))
         /\ \A v \in GridOf(axes) : AreNumbers(v, n)
<1>1. PICK sizes : /\ AreAxes(axes, n, sizes)
                   /\ \A k \in 1 .. n : \E S \in SUBSET Int : Lists(axes[k].values, sizes[k], S)
  BY ListedAreAxes
<1>2. n \in Nat /\ sizes \in [1 .. n -> Nat] /\ DOMAIN axes = 1 .. n
  BY <1>1 DEF AreAxes
<1>3. PICK total \in Nat : total = GridSize(axes)
  <2>1. PICK p \in [0 .. n -> Nat] : GridSize(axes) = p[n]
    BY <1>1, GridSizeIs
  <2>2. n \in 0 .. n
    BY <1>2
  <2>3. QED
    BY <2>1, <2>2
<1>4. PICK cur : cur = Cursors(axes)
  OBVIOUS
<1>5. /\ \A i \in 1 .. total : cur[i] \in Digits(n, sizes)
      /\ \A c \in Digits(n, sizes) : \E i \in 1 .. total : \A j \in 1 .. total : cur[j] = c <=> j = i
  <2>1. ReadOnce(cur, total, n, sizes)
    BY <1>1, <1>3, <1>4, EverySetting
  <2>2. QED
    BY <2>1 DEF ReadOnce
<1>6. ASSUME NEW k \in 1 .. n
      PROVE  /\ DOMAIN axes[k].values = 1 .. sizes[k]
             /\ \A l \in 1 .. sizes[k] : axes[k].values[l] \in Int
             /\ \A l, m \in 1 .. sizes[k] : axes[k].values[l] = axes[k].values[m] => l = m
  <2>1. PICK S \in SUBSET Int : Lists(axes[k].values, sizes[k], S)
    BY <1>1
  <2>2. QED
    BY <2>1 DEF Lists
<1>7. ASSUME NEW c \in Digits(n, sizes)
      PROVE  /\ DOMAIN c = 1 .. n /\ c = [k \in 1 .. n |-> c[k]]
             /\ \A k \in 1 .. n : c[k] \in 1 .. sizes[k]
  BY DEF Digits
<1>8. ASSUME NEW c \in Digits(n, sizes) PROVE ValuesAt(axes, c) \in GridOf(axes)
  <2>1. PICK v : v = ValuesAt(axes, c)
    OBVIOUS
  <2>2. v = [k \in 1 .. n |-> axes[k].values[c[k]]]
    BY <1>2, <2>1 DEF ValuesAt
  <2>3. v = [k \in 1 .. n |-> v[k]]
    BY <2>2
  <2>4. ASSUME NEW k \in 1 .. n PROVE \E l \in DOMAIN axes[k].values : v[k] = axes[k].values[l]
    <3>1. PICK l : l = c[k]
      OBVIOUS
    <3>2. l \in 1 .. sizes[k]
      BY <1>7, <3>1
    <3>3. l \in DOMAIN axes[k].values
      BY <1>6, <3>2
    <3>4. v[k] = axes[k].values[l]
      BY <2>2, <3>1
    <3>5. QED
      BY <3>3, <3>4
  <2>5. OfValues(v, axes, n)
    BY <2>3, <2>4 DEF OfValues
  <2>6. QED
    BY <2>1, <2>5, InGrid
<1>9. ASSUME NEW v \in GridOf(axes)
       PROVE  v = [k \in 1 .. n |-> v[k]] /\ \A k \in 1 .. n : \E l \in 1 .. sizes[k] : v[k] = axes[k].values[l]
  <2>1. OfValues(v, axes, n)
    BY InGrid
  <2>2. v = [k \in 1 .. n |-> v[k]]
    BY <2>1 DEF OfValues
  <2>3. ASSUME NEW k \in 1 .. n PROVE \E l \in 1 .. sizes[k] : v[k] = axes[k].values[l]
    <3>1. \E l \in DOMAIN axes[k].values : v[k] = axes[k].values[l]
      BY <2>1 DEF OfValues
    <3>2. QED
      BY <1>6, <3>1
  <2>4. QED
    BY <2>2, <2>3
<1>10. ASSUME NEW v \in GridOf(axes) PROVE \E c \in Digits(n, sizes) : ValuesAt(axes, c) = v
  <2>1. v = [k \in 1 .. n |-> v[k]] /\ \A k \in 1 .. n : \E l \in 1 .. sizes[k] : v[k] = axes[k].values[l]
    BY <1>9
  <2>2. PICK c : c = [k \in 1 .. n |-> CHOOSE l \in 1 .. sizes[k] : v[k] = axes[k].values[l]]
    OBVIOUS
  <2>3. \A k \in 1 .. n : c[k] \in 1 .. sizes[k] /\ v[k] = axes[k].values[c[k]]
    BY <2>1, <2>2
  <2>4. \A k \in 1 .. n : c[k] \in Nat
    BY <1>2, <2>3
  <2>5. c \in Digits(n, sizes)
    BY <2>2, <2>3, <2>4 DEF Digits
  <2>6. ValuesAt(axes, c) = [k \in 1 .. n |-> v[k]]
    BY <1>2, <2>3 DEF ValuesAt
  <2>7. QED
    BY <2>1, <2>5, <2>6
<1>11. ASSUME NEW c \in Digits(n, sizes), NEW d \in Digits(n, sizes), ValuesAt(axes, c) = ValuesAt(axes, d)
       PROVE  c = d
  <2>1. ASSUME NEW k \in 1 .. n PROVE c[k] = d[k]
    <3>1. ValuesAt(axes, c)[k] = axes[k].values[c[k]] /\ ValuesAt(axes, d)[k] = axes[k].values[d[k]]
      BY <1>2 DEF ValuesAt
    <3>2. c[k] \in 1 .. sizes[k] /\ d[k] \in 1 .. sizes[k]
      BY <1>7
    <3>3. QED
      BY <1>6, <1>11, <3>1, <3>2
  <2>2. QED
    BY <1>7, <2>1
<1>12. \A i \in 1 .. total : at[i] = ValuesAt(axes, cur[i])
  BY <1>3, <1>4
<1>13. at \in [1 .. total -> GridOf(axes)]
  BY <1>3, <1>5, <1>8, <1>12
<1>14. ASSUME NEW v \in GridOf(axes) PROVE \E i \in 1 .. total : at[i] = v
  <2>1. PICK c \in Digits(n, sizes) : ValuesAt(axes, c) = v
    BY <1>10
  <2>2. PICK i \in 1 .. total : cur[i] = c
    BY <1>5
  <2>3. QED
    BY <1>12, <2>1, <2>2
<1>15. ASSUME NEW i \in 1 .. total, NEW j \in 1 .. total, at[i] = at[j] PROVE i = j
  <2>1. PICK c \in Digits(n, sizes) : c = cur[i]
    BY <1>5
  <2>2. PICK d \in Digits(n, sizes) : d = cur[j]
    BY <1>5
  <2>3. ValuesAt(axes, c) = ValuesAt(axes, d)
    BY <1>12, <1>15, <2>1, <2>2
  <2>4. c = d
    BY <1>11, <2>3
  <2>5. QED
    BY <1>5, <2>1, <2>2, <2>4
<1>16. Lists(at, total, GridOf(axes))
  BY <1>13, <1>14, <1>15 DEF Lists
<1>17. ASSUME NEW v \in GridOf(axes)
       PROVE  AreNumbers(v, n)
  <2>1. v = [k \in 1 .. n |-> v[k]] /\ \A k \in 1 .. n : \E l \in 1 .. sizes[k] : v[k] = axes[k].values[l]
    BY <1>9
  <2>2. DOMAIN v = 1 .. n
    BY <2>1
  <2>3. \A k \in 1 .. n : v[k] \in Int
    BY <1>6, <2>1
  <2>4. QED
    BY <2>1, <2>2, <2>3 DEF AreNumbers
<1>18. QED
  BY <1>3, <1>16, <1>17

-----------------------------------------------------------------------------
(* One run for each window and point.                                       *)

LEMMA RunIs ==
  ASSUME NEW size \in Nat, NEW m \in Nat, NEW i \in 1 .. m * size
  PROVE  /\ ((i - 1) \div size) + 1 \in 1 .. m /\ ((i - 1) % size) + 1 \in 1 .. size
         /\ i - 1 = ((i - 1) \div size) * size + ((i - 1) % size)
<1>1. size # 0
  <2>1. SUFFICES ASSUME size = 0 PROVE FALSE
    OBVIOUS
  <2>2. m * size = 0
    BY <2>1
  <2>3. QED
    BY <2>2
<1>2. PICK j \in Nat : j = i - 1 /\ j < m * size
  <2>1. PICK l \in Nat : l = m * size
    OBVIOUS
  <2>2. i \in 1 .. l
    BY <2>1
  <2>3. QED
    BY <2>1, <2>2
<1>3. PICK q \in Nat, r \in 0 .. size - 1 : q = j \div size /\ r = j % size /\ j = q * size + r
  <2>1. PICK q \in Nat : q = j \div size
    BY <1>1
  <2>2. PICK r \in 0 .. size - 1 : r = j % size
    BY <1>1
  <2>3. PICK n \in Nat : n = q * size
    OBVIOUS
  <2>4. j = n + r
    BY <1>1, <2>1, <2>2, <2>3
  <2>5. QED
    BY <2>1, <2>2, <2>3, <2>4
<1>4. q < m
  <2>1. SUFFICES ASSUME m <= q PROVE FALSE
    OBVIOUS
  <2>2. m * size <= q * size
    <3>1. CASE m = q
      BY <3>1
    <3>2. CASE m < q
      <4>1. m * size + size <= q * size
        BY <3>2, LaterMultiple
      <4>2. PICK x \in Nat, y \in Nat : x = m * size /\ y = q * size
        OBVIOUS
      <4>3. QED
        BY <4>1, <4>2
    <3>3. QED
      BY <2>1, <3>1, <3>2
  <2>3. PICK x \in Nat, y \in Nat : x = m * size /\ y = q * size
    OBVIOUS
  <2>4. QED
    BY <1>2, <1>3, <2>2, <2>3
<1>5. QED
  BY <1>2, <1>3, <1>4

(* The run of window w at point p is the i-th.                              *)
OnlyRun(i, total, size, w, p) ==
  /\ i \in 1 .. total
  /\ \A j \in 1 .. total : (((j - 1) \div size) + 1 = w /\ ((j - 1) % size) + 1 = p) <=> j = i

LEMMA RunsAreProducts ==
  ASSUME NEW size \in Nat, NEW m \in Nat, NEW w \in 1 .. m, NEW p \in 1 .. size
  PROVE  \E i : OnlyRun(i, m * size, size, w, p)
<1>1. PICK x \in Nat : x = (w - 1) * size /\ x + size <= m * size
  <2>1. w - 1 \in Nat /\ w - 1 < m
    OBVIOUS
  <2>2. (w - 1) * size + size <= m * size
    BY <2>1, LaterMultiple
  <2>3. (w - 1) * size \in Nat
    BY <2>1
  <2>4. QED
    BY <2>2, <2>3
<1>2. PICK l \in Nat : l = m * size
  OBVIOUS
<1>3. PICK i \in 1 .. l : i = x + p
  <2>1. x + p \in 1 .. l
    BY <1>1, <1>2
  <2>2. QED
    BY <2>1
<1>4. ASSUME NEW j \in 1 .. l
      PROVE  (((j - 1) \div size) + 1 = w /\ ((j - 1) % size) + 1 = p) <=> j = i
  <2>1. PICK q, r : q = (j - 1) \div size /\ r = (j - 1) % size
    OBVIOUS
  <2>2. q + 1 \in 1 .. m /\ r + 1 \in 1 .. size /\ j - 1 = q * size + r
    BY <1>2, <2>1, RunIs
  <2>3. q \in Nat /\ r \in 0 .. size - 1
    <3>1. size > 0 /\ size # 0
      OBVIOUS
    <3>2. PICK k \in Nat : k = j - 1
      OBVIOUS
    <3>3. k \div size \in Nat /\ k % size \in 0 .. size - 1
      BY <3>1
    <3>4. QED
      BY <2>1, <3>2, <3>3
  <2>4. (q + 1 = w /\ r + 1 = p) => j = i
    <3>1. SUFFICES ASSUME q + 1 = w, r + 1 = p PROVE j = i
      OBVIOUS
    <3>2. q = w - 1 /\ r = p - 1
      BY <2>3, <3>1
    <3>3. j - 1 = x + (p - 1)
      BY <1>1, <2>2, <3>2
    <3>4. QED
      BY <1>3, <3>3
  <2>5. j = i => (q + 1 = w /\ r + 1 = p)
    <3>1. SUFFICES ASSUME j = i PROVE q + 1 = w /\ r + 1 = p
      OBVIOUS
    <3>2. q * size + r = (w - 1) * size + (p - 1)
      BY <1>1, <1>3, <2>2, <3>1
    <3>3. w - 1 \in Nat /\ p - 1 \in 0 .. size - 1
      OBVIOUS
    <3>4. q = w - 1 /\ r = p - 1
      <4>1. PICK y \in Nat, c \in 0 .. size - 1 : y = w - 1 /\ c = p - 1
        BY <3>3
      <4>2. Counted(q, size, r) = Counted(y, size, c)
        BY <3>2, <4>1 DEF Counted
      <4>3. q = y /\ r = c
        BY <2>3, <4>2, SameDigits
      <4>4. QED
        BY <4>1, <4>3
    <3>5. QED
      BY <3>4
  <2>6. QED
    BY <2>1, <2>4, <2>5
<1>5. OnlyRun(i, l, size, w, p)
  BY <1>3, <1>4 DEF OnlyRun
<1>6. QED
  BY <1>2, <1>5

(* The windows, by their folds.                                             *)
FoldsOf(folds) == IF folds = <<>> THEN {None} ELSE {f.fold : f \in ToSet(folds)}

AreWindows(w, m, folds) ==
  /\ m \in Nat /\ Len(w) = m /\ DOMAIN w = 1 .. m
  /\ Lists([k \in 1 .. m |-> w[k].fold], m, FoldsOf(folds))

LEMMA WindowsAre ==
  ASSUME NEW r, r.first \in Int, r.last \in Int, r.in \in Int, r.out \in Int,
         NEW size, NEW folds, folds = ReadFolds(r, size), folds # Fault
  PROVE  \E m \in Nat : AreWindows(Windows(r, folds), m, folds)
<1>1. PICK w : w = Windows(r, folds)
  OBVIOUS
<1>2. CASE r.kind # "walk_forward"
  <2>1. PICK one : one = [fold |-> None, phase |-> None, start |-> r.first, end |-> r.last]
    OBVIOUS
  <2>2. folds = <<>> /\ w = <<one>>
    BY <1>1, <1>2, <2>1 DEF ReadFolds, Windows
  <2>3. Len(w) = 1 /\ DOMAIN w = 1 .. 1 /\ w[1].fold = None
    BY <2>1, <2>2
  <2>4. FoldsOf(folds) = {None}
    BY <2>2 DEF FoldsOf
  <2>5. PICK f : f = [k \in 1 .. 1 |-> w[k].fold]
    OBVIOUS
  <2>6. Lists(f, 1, {None})
    <3>1. \A k \in 1 .. 1 : k = 1
      OBVIOUS
    <3>2. \A k \in 1 .. 1 : f[k] = None
      BY <2>3, <2>5, <3>1
    <3>3. 1 \in 1 .. 1
      OBVIOUS
    <3>4. f \in [1 .. 1 -> {None}]
      BY <2>5, <3>2
    <3>5. QED
      BY <3>1, <3>2, <3>3, <3>4 DEF Lists
  <2>7. AreWindows(w, 1, folds)
    BY <2>3, <2>4, <2>5, <2>6 DEF AreWindows
  <2>8. QED
    BY <1>1, <2>7
<1>3. CASE r.kind = "walk_forward"
  <2>1. folds = Folds(r)
    BY <1>3 DEF ReadFolds
  <2>2. PICK first \in Int, last \in Int, in \in Int, out \in Int :
          first = r.first /\ last = r.last /\ in = r.in /\ out = r.out
    OBVIOUS
  <2>3. /\ ~(in < MinFoldDays \/ out < MinFoldDays) /\ Fits(first, last, in, out) # {}
        /\ folds = [k \in 1 .. Cardinality(Fits(first, last, in, out)) |-> Fold(first, k - 1, in, out)]
    BY <2>1, <2>2 DEF Folds, Fits
  <2>4. in \in Nat \ {0} /\ out \in Nat \ {0}
    <3>1. MinFoldDays \in Nat \ {0}
      BY SweepAssumption
    <3>2. QED
      BY <2>3, <3>1
  <2>5. PICK n \in Nat \ {0} : Cardinality(Fits(first, last, in, out)) = n
    <3>1. Fits(first, last, in, out) # {}
      BY <2>3
    <3>2. \E n \in Nat \ {0} :
            /\ Cardinality(Fits(first, last, in, out)) = n
            /\ Fits(first, last, in, out) = 0 .. n - 1
            /\ n <= MaxFolds
            /\ n < MaxFolds => first + n * out + in + out - 1 > last
      BY <2>4, <3>1, FitsAreFirst
    <3>3. QED
      BY <3>2
  <2>6. /\ folds = [k \in 1 .. n |-> Fold(first, k - 1, in, out)]
        /\ Len(folds) = n /\ DOMAIN folds = 1 .. n
    BY <2>3, <2>5
  <2>7. \A k \in 1 .. n : folds[k].fold = k - 1
    BY <2>6 DEF Fold
  <2>8. /\ DOMAIN w = 1 .. n /\ Len(w) = n
        /\ \A k \in 1 .. n : w[k].fold = k - 1
    <3>1. w = [k \in 1 .. n |-> [fold |-> folds[k].fold, phase |-> "in_sample",
                                start |-> folds[k].inStart, end |-> folds[k].inEnd]]
      BY <1>1, <1>3, <2>6 DEF Windows
    <3>2. QED
      BY <2>7, <3>1
  <2>9. PICK f : f = [k \in 1 .. n |-> w[k].fold]
    OBVIOUS
  <2>10. FoldsOf(folds) = {k - 1 : k \in 1 .. n}
    <3>1. 1 \in DOMAIN folds
      BY <2>6
    <3>2. folds # <<>>
      BY <3>1
    <3>3. ToSet(folds) = {folds[k] : k \in 1 .. n}
      BY <2>6 DEF ToSet
    <3>4. {g.fold : g \in {folds[k] : k \in 1 .. n}} = {folds[k].fold : k \in 1 .. n}
      OBVIOUS
    <3>5. {folds[k].fold : k \in 1 .. n} = {k - 1 : k \in 1 .. n}
      BY <2>7
    <3>6. FoldsOf(folds) = {g.fold : g \in ToSet(folds)}
      BY <3>2 DEF FoldsOf
    <3>7. QED
      BY <3>3, <3>4, <3>5, <3>6
  <2>11. Lists(f, n, {k - 1 : k \in 1 .. n})
    <3>1. \A k \in 1 .. n : f[k] = k - 1
      BY <2>8, <2>9
    <3>2. f \in [1 .. n -> {k - 1 : k \in 1 .. n}]
      BY <2>9, <3>1
    <3>3. \A k, j \in 1 .. n : f[k] = f[j] => k = j
      BY <3>1
    <3>4. QED
      BY <3>1, <3>2, <3>3 DEF Lists
  <2>12. AreWindows(w, n, folds)
    BY <2>8, <2>9, <2>10, <2>11 DEF AreWindows
  <2>13. QED
    BY <1>1, <2>12
<1>4. QED
  BY <1>2, <1>3

(* The points, by their numbers.                                            *)
ArePoints(points, size, axes, at) ==
  /\ size \in Nat /\ Len(points) = size /\ DOMAIN points = 1 .. size
  /\ Lists(at, size, GridOf(axes))
  /\ \A i \in 1 .. size : NumbersOf(axes, points[i].spec) = at[i]

(* The runs of one window at one point.                                     *)
RunsAt(runs, axes, fold, v) ==
  {i \in DOMAIN runs : runs[i].fold = fold /\ NumbersOf(axes, runs[i].spec) = v}

AreRuns(runs, m, size, basket, points, folds, axes) ==
  /\ DOMAIN runs = 1 .. m * size /\ Len(runs) = m * size
  /\ \A i \in DOMAIN runs : runs[i].symbols = basket /\ \E p \in 1 .. size : runs[i].spec = points[p].spec
  /\ \A fold \in FoldsOf(folds), v \in GridOf(axes) : \E i : RunsAt(runs, axes, fold, v) = {i}

LEMMA RunsAre ==
  ASSUME NEW r, NEW folds, NEW m, AreWindows(Windows(r, folds), m, folds),
         NEW points, NEW size, NEW axes, NEW at, ArePoints(points, size, axes, at),
         NEW basket, NEW capital, NEW runs, runs = ChildRuns(r, folds, points, basket, capital)
  PROVE  AreRuns(runs, m, size, basket, points, folds, axes)
<1>1. PICK w : w = Windows(r, folds) /\ AreWindows(w, m, folds)
  OBVIOUS
<1>2. PICK total \in Nat : total = m * size
  BY DEF AreWindows, ArePoints
<1>3. m \in Nat /\ size \in Nat /\ Len(w) = m /\ Len(points) = size
  BY <1>1 DEF AreWindows, ArePoints
<1>4. PICK window, point : /\ window = [i \in 1 .. total |-> ((i - 1) \div size) + 1]
                           /\ point = [i \in 1 .. total |-> ((i - 1) % size) + 1]
  OBVIOUS
<1>5. ASSUME NEW i \in 1 .. total PROVE window[i] \in 1 .. m /\ point[i] \in 1 .. size
  BY <1>2, <1>3, <1>4, RunIs
<1>6. runs = [i \in 1 .. total |->
                [fold |-> w[window[i]].fold, phase |-> w[window[i]].phase, start |-> w[window[i]].start,
                 end |-> w[window[i]].end, point |-> points[point[i]].index, spec |-> points[point[i]].spec,
                 symbols |-> basket, capital |-> capital]]
  <2>1. runs = [i \in 1 .. total |->
                [fold |-> w[((i - 1) \div size) + 1].fold, phase |-> w[((i - 1) \div size) + 1].phase,
                 start |-> w[((i - 1) \div size) + 1].start, end |-> w[((i - 1) \div size) + 1].end,
                 point |-> points[((i - 1) % size) + 1].index, spec |-> points[((i - 1) % size) + 1].spec,
                 symbols |-> basket, capital |-> capital]]
    BY <1>1, <1>2, <1>3 DEF ChildRuns
  <2>2. \A i \in 1 .. total : window[i] = ((i - 1) \div size) + 1 /\ point[i] = ((i - 1) % size) + 1
    BY <1>4
  <2>3. QED
    BY <2>1, <2>2
<1>7. DOMAIN runs = 1 .. total /\ Len(runs) = total
  BY <1>6
<1>8. \A i \in 1 .. total : /\ runs[i].fold = w[window[i]].fold /\ runs[i].spec = points[point[i]].spec
                            /\ runs[i].symbols = basket
  BY <1>6
<1>9. ASSUME NEW fold \in FoldsOf(folds), NEW v \in GridOf(axes)
      PROVE  \E i : RunsAt(runs, axes, fold, v) = {i}
  <2>1. PICK a \in 1 .. m : \A k \in 1 .. m : w[k].fold = fold <=> k = a
    <3>1. PICK f : f = [k \in 1 .. m |-> w[k].fold] /\ Lists(f, m, FoldsOf(folds))
      BY <1>1 DEF AreWindows
    <3>2. PICK a \in 1 .. m : f[a] = fold
      BY <3>1 DEF Lists
    <3>3. ASSUME NEW k \in 1 .. m PROVE w[k].fold = fold <=> k = a
      BY <3>1, <3>2 DEF Lists
    <3>4. QED
      BY <3>3
  <2>2. PICK b \in 1 .. size : \A p \in 1 .. size : NumbersOf(axes, points[p].spec) = v <=> p = b
    <3>1. Lists(at, size, GridOf(axes)) /\ \A p \in 1 .. size : NumbersOf(axes, points[p].spec) = at[p]
      BY DEF ArePoints
    <3>2. PICK b \in 1 .. size : at[b] = v
      BY <3>1 DEF Lists
    <3>3. ASSUME NEW p \in 1 .. size PROVE NumbersOf(axes, points[p].spec) = v <=> p = b
      BY <3>1, <3>2 DEF Lists
    <3>4. QED
      BY <3>3
  <2>3. PICK i \in 1 .. total : \A j \in 1 .. total : (window[j] = a /\ point[j] = b) <=> j = i
    <3>1. PICK i : OnlyRun(i, total, size, a, b)
      <4>1. \E i : OnlyRun(i, m * size, size, a, b)
        BY <1>3, RunsAreProducts
      <4>2. QED
        BY <1>2, <4>1
    <3>2. \A j \in 1 .. total : window[j] = ((j - 1) \div size) + 1 /\ point[j] = ((j - 1) % size) + 1
      BY <1>4
    <3>3. QED
      BY <3>1, <3>2 DEF OnlyRun
  <2>4. ASSUME NEW j \in 1 .. total
        PROVE  (runs[j].fold = fold /\ NumbersOf(axes, runs[j].spec) = v) <=> j = i
    <3>1. runs[j].fold = fold <=> window[j] = a
      BY <1>5, <1>8, <2>1
    <3>2. NumbersOf(axes, runs[j].spec) = v <=> point[j] = b
      BY <1>5, <1>8, <2>2
    <3>3. QED
      BY <2>3, <3>1, <3>2
  <2>5. RunsAt(runs, axes, fold, v) = {i}
    BY <1>7, <2>4 DEF RunsAt
  <2>6. QED
    BY <2>5
<1>10. \A i \in 1 .. total : \E p \in 1 .. size : runs[i].spec = points[p].spec
  BY <1>5, <1>8
<1>11. QED
  BY <1>2, <1>7, <1>8, <1>9, <1>10 DEF AreRuns

-----------------------------------------------------------------------------
(* The basket: every ticker once.                                           *)

(* What is in the basket after k tickers.                                   *)
OnceOf(T, s, tickers, k) ==
  /\ s \in Seq(T)
  /\ \A i, j \in DOMAIN s : s[i] = s[j] => i = j
  /\ \A l \in 1 .. k : \E i \in DOMAIN s : s[i] = tickers[l]

LEMMA OneMore ==
  ASSUME NEW T, NEW tickers \in Seq(T), NEW k \in 1 .. Len(tickers), NEW s, OnceOf(T, s, tickers, k - 1),
         NEW t, t = IF Contains(s, tickers[k]) THEN s ELSE Append(s, tickers[k])
  PROVE  OnceOf(T, t, tickers, k)
<1>1. PICK m \in T : m = tickers[k]
  OBVIOUS
<1>2. s \in Seq(T) /\ \A i, j \in DOMAIN s : s[i] = s[j] => i = j
  BY DEF OnceOf
<1>3. ASSUME NEW l \in 1 .. k, l # k PROVE l \in 1 .. k - 1
  BY <1>3
<1>4. CASE Contains(s, m)
  <2>1. t = s
    BY <1>1, <1>4
  <2>2. \E i \in DOMAIN s : s[i] = m
    BY <1>2, <1>4 DEF Contains
  <2>3. \A l \in 1 .. k : \E i \in DOMAIN s : s[i] = tickers[l]
    BY <1>1, <1>3, <2>2 DEF OnceOf
  <2>4. QED
    BY <1>2, <2>1, <2>3 DEF OnceOf
<1>5. CASE ~Contains(s, m)
  <2>1. t = Append(s, m)
    BY <1>1, <1>5
  <2>2. PICK n \in Nat : n = Len(s) /\ DOMAIN s = 1 .. n
    BY <1>2
  <2>3. /\ t \in Seq(T) /\ Len(t) = n + 1 /\ DOMAIN t = 1 .. n + 1 /\ t[n + 1] = m
        /\ \A i \in 1 .. n : t[i] = s[i]
    BY <1>1, <1>2, <2>1, <2>2
  <2>4. \A i \in 1 .. n : s[i] # m
    BY <1>5, <2>2 DEF Contains
  <2>5. ASSUME NEW i \in DOMAIN t, NEW j \in DOMAIN t, t[i] = t[j] PROVE i = j
    <3>1. /\ i \in 1 .. n \/ i = n + 1
          /\ j \in 1 .. n \/ j = n + 1
      BY <2>3
    <3>2. QED
      BY <1>2, <2>2, <2>3, <2>4, <2>5, <3>1
  <2>6. ASSUME NEW l \in 1 .. k PROVE \E i \in DOMAIN t : t[i] = tickers[l]
    <3>1. CASE l = k
      <4>1. n + 1 \in DOMAIN t
        BY <2>3
      <4>2. QED
        BY <1>1, <2>3, <3>1, <4>1
    <3>2. CASE l # k
      <4>1. PICK i \in DOMAIN s : s[i] = tickers[l]
        BY <1>3, <3>2 DEF OnceOf
      <4>2. i \in 1 .. n /\ i \in 1 .. n + 1
        BY <2>2, <4>1
      <4>3. QED
        BY <2>3, <4>1, <4>2
    <3>3. QED
      BY <3>1, <3>2
  <2>7. QED
    BY <2>3, <2>5, <2>6 DEF OnceOf
<1>6. QED
  BY <1>4, <1>5

LEMMA EachOnceIs ==
  ASSUME NEW T, NEW tickers \in Seq(T)
  PROVE  OnceOf(T, EachOnce(tickers), tickers, Len(tickers))
<1>1. PICK n \in Nat : n = Len(tickers)
  OBVIOUS
<1>2. PICK V : V = Seq(T)
  OBVIOUS
<1>3. PICK step : step = [k \in 1 .. n |-> [v \in V |-> IF Contains(v, tickers[k]) THEN v
                                                        ELSE Append(v, tickers[k])]]
  OBVIOUS
<1>4. StepsIn(n, V, step)
  <2>1. ASSUME NEW k \in 1 .. n, NEW v \in V PROVE step[k][v] \in V
    <3>1. tickers[k] \in T
      BY <1>1
    <3>2. Append(v, tickers[k]) \in V
      BY <1>2, <3>1
    <3>3. QED
      BY <1>3, <3>2
  <2>2. QED
    BY <2>1 DEF StepsIn
<1>5. <<>> \in V
  BY <1>2
<1>6. PICK f \in [0 .. n -> V] : IsFold(f, n, <<>>, step)
  BY <1>4, <1>5, Folding
<1> DEFINE Is(g) == g = [k \in 0 .. n |-> IF k = 0 THEN <<>>
                            ELSE IF Contains(g[k - 1], tickers[k]) THEN g[k - 1]
                            ELSE Append(g[k - 1], tickers[k])]
<1>7. Is(f)
  <2>1. ASSUME NEW k \in 0 .. n
        PROVE  f[k] = IF k = 0 THEN <<>> ELSE IF Contains(f[k - 1], tickers[k]) THEN f[k - 1]
                                         ELSE Append(f[k - 1], tickers[k])
    <3>1. CASE k = 0
      BY <1>6, <3>1 DEF IsFold
    <3>2. CASE k # 0
      <4>1. k \in 1 .. n /\ k - 1 \in 0 .. n
        BY <3>2
      <4>2. f[k] = step[k][f[k - 1]] /\ f[k - 1] \in V
        BY <1>6, <4>1 DEF IsFold
      <4>3. step[k][f[k - 1]] = IF Contains(f[k - 1], tickers[k]) THEN f[k - 1]
                                ELSE Append(f[k - 1], tickers[k])
        BY <1>3, <4>1, <4>2
      <4>4. QED
        BY <3>2, <4>2, <4>3
    <3>3. QED
      BY <3>1, <3>2
  <2>2. QED
    BY <2>1
<1>8. PICK g : g = CHOOSE h : Is(h)
  OBVIOUS
<1>9. Is(g)
  <2> HIDE DEF Is
  <2>1. QED
    BY <1>7, <1>8
<1>10. EachOnce(tickers) = g[n]
  BY <1>1, <1>8 DEF EachOnce
<1> DEFINE P == {k \in 0 .. n : OnceOf(T, g[k], tickers, k)}
<1>11. 0 \in P
  <2>1. g[0] = <<>>
    BY <1>9
  <2>2. OnceOf(T, <<>>, tickers, 0)
    BY DEF OnceOf
  <2>3. QED
    BY <2>1, <2>2
<1>12. ASSUME NEW k \in 0 .. n - 1, k \in P PROVE k + 1 \in P
  <2>1. PICK j \in 1 .. n : j = k + 1 /\ j - 1 = k
    OBVIOUS
  <2>2. j \in 0 .. n /\ j # 0
    OBVIOUS
  <2>3. g[j] = IF Contains(g[k], tickers[j]) THEN g[k] ELSE Append(g[k], tickers[j])
    BY <1>9, <2>1, <2>2
  <2>4. OnceOf(T, g[j - 1], tickers, j - 1)
    BY <1>12, <2>1
  <2>5. OnceOf(T, g[j], tickers, j)
    BY <1>1, <2>1, <2>3, <2>4, OneMore
  <2>6. QED
    BY <2>1, <2>2, <2>5
<1>13. QED
  <2>1. 0 \in 0 .. n /\ n \in 0 .. n
    OBVIOUS
  <2> HIDE DEF P
  <2>2. \A k \in 0 .. n : k \in P
    BY <1>11, <1>12, <2>1, Climb
  <2>3. n \in P
    BY <2>1, <2>2
  <2>4. QED
    BY <1>1, <1>10, <2>3 DEF P

LEMMA BasketIs ==
  ASSUME NEW T, NEW tickers \in Seq(T), NEW basket, basket = ReadBasket(tickers), basket # Fault,
         NEW t \in ToSet(tickers)
  PROVE  Cardinality({i \in DOMAIN basket : basket[i] = t}) = 1
<1>1. OnceOf(T, basket, tickers, Len(tickers))
  BY EachOnceIs DEF ReadBasket
<1>2. PICK l \in 1 .. Len(tickers) : tickers[l] = t
  BY DEF ToSet
<1>3. PICK k \in DOMAIN basket : basket[k] = t
  BY <1>1, <1>2 DEF OnceOf
<1>4. {i \in DOMAIN basket : basket[i] = t} = {k}
  BY <1>1, <1>3 DEF OnceOf
<1>5. QED
  BY <1>4, FS_Singleton

-----------------------------------------------------------------------------
(* The whole sweep.                                                         *)

(* A spec swept: with its numbers put back it is the saved one.             *)
IsSwept(swept, axes, base) == SetAll(swept, axes, NumbersOf(axes, base)) = base /\ Compiles(Parse(swept))

LEMMA GridIs ==
  ASSUME NEW d, IsDraft(d), Parse(d) # Fault, NEW e, e = Encode(Parse(d)),
         NEW axes, NEW n, AreListed(axes, n),
         NEW points, points = Grid(e, axes), points # Fault
  PROVE  /\ \E at : ArePoints(points, Len(points), axes, at)
         /\ \A i \in 1 .. Len(points) : IsSwept(points[i].spec, axes, e)
<1>1. PICK at, total : /\ total = GridSize(axes)
                       /\ at = [i \in 1 .. total |-> ValuesAt(axes, Cursors(axes)[i])]
  OBVIOUS
<1>2. /\ Lists(at, total, GridOf(axes))
      /\ \A v \in GridOf(axes) : AreNumbers(v, n)
  BY <1>1, GridIsListed
<1>3. PICK all : all = [i \in 1 .. total |-> [index |-> i, values |-> at[i], spec |-> Apply(e, axes, at[i])]]
  OBVIOUS
<1>4. points = all /\ \A i \in DOMAIN all : all[i].spec # Fault
  <2>1. all = [i \in 1 .. total |->
                 [index |-> i, values |-> [k \in DOMAIN axes |-> axes[k].values[Cursors(axes)[i][k]]],
                  spec |-> Apply(e, axes, [k \in DOMAIN axes |-> axes[k].values[Cursors(axes)[i][k]]])]]
    BY <1>1, <1>3 DEF ValuesAt
  <2>2. Grid(e, axes) = IF total > MaxPoints THEN Fault
                        ELSE IF \E i \in DOMAIN all : all[i].spec = Fault THEN Fault ELSE all
    BY <1>1, <2>1, Zenon DEF Grid
  <2>3. QED
    BY <2>2, Zenon
<1>5. total \in Nat /\ Len(points) = total /\ DOMAIN points = 1 .. total
  BY <1>2, <1>3, <1>4 DEF Lists
<1>6. ASSUME NEW i \in 1 .. total
      PROVE  NumbersOf(axes, points[i].spec) = at[i] /\ IsSwept(points[i].spec, axes, e)
  <2>1. PICK v \in GridOf(axes) : v = at[i]
    BY <1>2 DEF Lists
  <2>2. PICK w : w = Apply(e, axes, v)
    OBVIOUS
  <2>3. points[i].spec = w /\ w # Fault
    BY <1>3, <1>4, <2>1, <2>2
  <2>4. AreNumbers(v, n)
    BY <1>2
  <2>5. /\ NumbersOf(axes, w) = v /\ SetAll(w, axes, NumbersOf(axes, e)) = e
        /\ Compiles(Parse(w))
    BY <2>2, <2>3, <2>4, AppliedIs
  <2>6. QED
    BY <2>1, <2>3, <2>5 DEF IsSwept
<1>7. ArePoints(points, Len(points), axes, at)
  BY <1>2, <1>5, <1>6 DEF ArePoints
<1>8. QED
  BY <1>5, <1>6, <1>7

(* What SweepsRunTheWholeGrid says of a sweep.                              *)
CoversGrid(s) ==
  /\ \A fold \in FoldsOf(s.folds), v \in GridOf(s.axes) : Cardinality(RunsAt(s.runs, s.axes, fold, v)) = 1
  /\ Len(s.runs) = Cardinality(GridOf(s.axes)) * Cardinality(FoldsOf(s.folds))

RunsTheSpec(s, request, base) ==
  \A run \in ToSet(s.runs) :
    /\ IsSwept(run.spec, s.axes, base)
    /\ \A t \in ToSet(request.tickers) : Cardinality({i \in DOMAIN run.symbols : run.symbols[i] = t}) = 1

LEMMA SweptIs ==
  ASSUME NEW d, IsDraft(d), Parse(d) # Fault, NEW e, e = Encode(Parse(d)),
         NEW request \in Requests, NEW planned, planned = CreateSweep(e, request), planned # Fault
  PROVE  CoversGrid(planned) /\ RunsTheSpec(planned, request, e)
<1>1. PICK r : r = [request EXCEPT !.kind = ReadKind(request.kind)]
  OBVIOUS
<1>2. /\ r.first = request.first /\ r.last = request.last /\ r.in = request.in /\ r.out = request.out
      /\ {r.first, r.last, r.in, r.out} \subseteq Int
      /\ IsRequest(request) /\ request.tickers \in Seq(STRING)
  <2>1. IsRequest(request)
    BY SweepAssumption
  <2>2. QED
    BY <1>1, <2>1 DEF IsRequest
<1>3. PICK axes, basket, capital : /\ axes = ReadAxes(request.axes) /\ basket = ReadBasket(request.tickers)
                                   /\ capital = ReadCapital(request.capital)
  OBVIOUS
<1>4. planned = PlanSweep(e, r, axes, basket, capital)
  BY <1>1, <1>3 DEF CreateSweep
<1>5. PICK points : points = Grid(e, axes)
  OBVIOUS
<1>6. PICK folds : folds = IF points = Fault THEN Fault ELSE ReadFolds(r, Len(points))
  OBVIOUS
<1>7. /\ axes # Fault /\ basket # Fault
      /\ planned = QueueSweep(r, axes, folds, points, basket, capital)
  BY <1>4, <1>5, <1>6 DEF PlanSweep
<1>8. PICK runs : runs = ChildRuns(r, folds, points, basket, capital)
  OBVIOUS
<1>9. /\ points # Fault /\ folds # Fault /\ folds = ReadFolds(r, Len(points))
      /\ planned.axes = axes /\ planned.folds = folds /\ planned.runs = runs
  BY <1>6, <1>7, <1>8 DEF QueueSweep
<1>10. PICK n \in Nat : AreListed(axes, n)
  BY <1>2, <1>3, <1>7, AxesAreListed
<1>11. PICK at : ArePoints(points, Len(points), axes, at)
  BY <1>5, <1>9, <1>10, GridIs
<1>12. \A i \in 1 .. Len(points) : IsSwept(points[i].spec, axes, e)
  BY <1>5, <1>9, <1>10, GridIs
<1>13. PICK m \in Nat : AreWindows(Windows(r, folds), m, folds)
  BY <1>2, <1>9, WindowsAre
<1>14. PICK size \in Nat : size = Len(points)
  BY <1>11 DEF ArePoints
<1>15. AreRuns(runs, m, size, basket, points, folds, axes)
  BY <1>8, <1>11, <1>13, <1>14, RunsAre
<1>16. CoversGrid(planned)
  <2>1. \A fold \in FoldsOf(folds), v \in GridOf(axes) : Cardinality(RunsAt(runs, axes, fold, v)) = 1
    <3>1. ASSUME NEW fold \in FoldsOf(folds), NEW v \in GridOf(axes)
          PROVE  Cardinality(RunsAt(runs, axes, fold, v)) = 1
      <4>1. PICK i : RunsAt(runs, axes, fold, v) = {i}
        BY <1>15 DEF AreRuns
      <4>2. QED
        BY <4>1, FS_Singleton
    <3>2. QED
      BY <3>1
  <2>2. Cardinality(GridOf(axes)) = size
    <3>1. Lists(at, size, GridOf(axes))
      BY <1>11, <1>14 DEF ArePoints
    <3>2. QED
      BY <3>1, ListedOnce
  <2>3. Cardinality(FoldsOf(folds)) = m
    <3>1. Lists([k \in 1 .. m |-> Windows(r, folds)[k].fold], m, FoldsOf(folds))
      BY <1>13 DEF AreWindows
    <3>2. QED
      BY <3>1, ListedOnce
  <2>4. Len(runs) = size * m
    BY <1>15 DEF AreRuns
  <2>5. QED
    BY <1>9, <2>1, <2>2, <2>3, <2>4 DEF CoversGrid
<1>17. RunsTheSpec(planned, request, e)
  <2>1. ASSUME NEW run \in ToSet(runs) PROVE IsSwept(run.spec, axes, e) /\ run.symbols = basket
    <3>1. PICK i \in DOMAIN runs : run = runs[i]
      BY DEF ToSet
    <3>2. PICK p \in 1 .. size : runs[i].spec = points[p].spec
      BY <1>15, <3>1 DEF AreRuns
    <3>3. runs[i].symbols = basket
      BY <1>15, <3>1 DEF AreRuns
    <3>4. QED
      BY <1>12, <1>14, <3>1, <3>2, <3>3
  <2>2. ASSUME NEW t \in ToSet(request.tickers)
        PROVE  Cardinality({i \in DOMAIN basket : basket[i] = t}) = 1
    BY <1>2, <1>3, <1>7, BasketIs
  <2>3. QED
    BY <1>9, <2>1, <2>2 DEF RunsTheSpec
<1>18. QED
  BY <1>16, <1>17

(* What was queued was planned for the saved spec as it is stored.          *)
SweptFromStored ==
  \/ sweep = None
  \/ asked \in Requests /\ spec \notin {None, Fault} /\ sweep = CreateSweep(Encode(spec), asked)

(* SweepsRunTheWholeGrid: whatever the axes, the kind and the basket, a     *)
(* sweep that is queued runs each combination of values once in every       *)
(* window, over the whole basket, with the saved spec and no number of it   *)
(* changed but those of the axes (readValues, Apply and Grid in axis.go,    *)
(* childRuns in sweeps.go).                                                 *)
THEOREM SweepsCoverTheGrid == Spec => []SweepsRunTheWholeGrid
<1>1. Init => StoredWasParsed /\ SweptFromStored
  BY DEF Init, StrategyInit, SweepInit, StoredWasParsed, SweptFromStored
<1>2. StoredWasParsed /\ SweptFromStored /\ [Next]_<<strategyVars, sweepVars>>
        => StoredWasParsed' /\ SweptFromStored'
  <2> SUFFICES ASSUME StoredWasParsed, SweptFromStored, [Next]_<<strategyVars, sweepVars>>
               PROVE  StoredWasParsed' /\ SweptFromStored'
    OBVIOUS
  <2>1. CASE UNCHANGED <<strategyVars, sweepVars>>
    BY <2>1 DEF strategyVars, sweepVars, StoredWasParsed, SweptFromStored
  <2>2. ASSUME sweep = None, StrategyNext, UNCHANGED sweepVars PROVE StoredWasParsed' /\ SweptFromStored'
    <3>1. SweptFromStored'
      BY <2>2 DEF sweepVars, SweptFromStored
    <3>2. CASE UNCHANGED spec
      BY <3>1, <3>2 DEF StoredWasParsed
    <3>3. ASSUME NEW d \in Drafts, SaveDraft(d) PROVE StoredWasParsed'
      BY <3>3 DEF SaveDraft, StoredWasParsed
    <3>4. UNCHANGED spec \/ \E d \in Drafts : SaveDraft(d)
      BY <2>2 DEF StrategyNext, CompileSpec, Push
    <3>5. QED
      BY <3>1, <3>2, <3>3, <3>4
  <2>3. ASSUME NEW request \in Requests, RequestSweep(request), UNCHANGED strategyVars
        PROVE  StoredWasParsed' /\ SweptFromStored'
    BY <2>3 DEF RequestSweep, strategyVars, StoredWasParsed, SweptFromStored
  <2>4. QED
    BY <2>1, <2>2, <2>3 DEF Next
<1>3. StoredWasParsed /\ SweptFromStored => SweepsRunTheWholeGrid
  <2> SUFFICES ASSUME StoredWasParsed, SweptFromStored PROVE SweepsRunTheWholeGrid
    OBVIOUS
  <2>1. CASE ~Queued
    BY <2>1 DEF SweepsRunTheWholeGrid
  <2>2. CASE Queued
    <3>1. PICK s, base, request : s = sweep /\ base = Encode(spec) /\ request = asked
      OBVIOUS
    <3>2. /\ asked \in Requests /\ spec \notin {None, Fault} /\ s = CreateSweep(base, request) /\ s # Fault
      BY <2>2, <3>1 DEF SweptFromStored, Queued
    <3>3. PICK d \in Drafts : spec = Parse(d)
      BY <3>2 DEF StoredWasParsed
    <3>4. IsDraft(d) /\ Parse(d) # Fault /\ base = Encode(Parse(d)) /\ request \in Requests
      BY <3>1, <3>2, <3>3, StrategyAssumption
    <3>5. CoversGrid(sweep) /\ RunsTheSpec(sweep, asked, Encode(spec))
      <4>1. CoversGrid(s) /\ RunsTheSpec(s, request, base)
        BY <3>2, <3>4, SweptIs
      <4>2. QED
        BY <3>1, <4>1
    <3>6. /\ \A fold \in FoldsOf(sweep.folds) : \A v \in GridOf(sweep.axes) :
               Cardinality({i \in DOMAIN sweep.runs :
                              /\ sweep.runs[i].fold = fold
                              /\ [k \in DOMAIN sweep.axes |->
                                    NumberAt(sweep.runs[i].spec, sweep.axes[k].path)] = v}) = 1
          /\ Len(sweep.runs) = Cardinality(GridOf(sweep.axes)) * Cardinality(FoldsOf(sweep.folds))
      BY <3>5 DEF CoversGrid, RunsAt, NumbersOf
    <3>7. \A run \in ToSet(sweep.runs) :
            /\ /\ SetAll(run.spec, sweep.axes,
                         [k \in DOMAIN sweep.axes |-> NumberAt(Encode(spec), sweep.axes[k].path)]) = Encode(spec)
               /\ Compiles(Parse(run.spec))
            /\ \A t \in ToSet(asked.tickers) : Cardinality({i \in DOMAIN run.symbols : run.symbols[i] = t}) = 1
      BY <3>5 DEF RunsTheSpec, IsSwept, NumbersOf
    <3>8. QED
      BY <3>6, <3>7, Zenon DEF SweepsRunTheWholeGrid, FoldsOf, GridOf
  <2>3. QED
    BY <2>1, <2>2
<1>4. QED
  BY <1>1, <1>2, <1>3, PTL DEF Spec
===============================================================================
