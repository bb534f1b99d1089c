----------------------------- MODULE AdmissionMC -----------------------------
(* Two requests at once, on two strategies at most.                         *)
EXTENDS Admission, TLC

CONSTANTS h1, h2, i1, i2, r1, r2, r3, s1, s2, n1, n2, x, y

(* Nothing orders the ids, the names or the specs.                          *)
Products(F, G) == {f @@ g : f \in F, g \in G}

Symmetric ==
  Products(Products(Permutations(Handlers), Permutations(Runs)),
           Products(Permutations(Ids), Products(Permutations(Names), Permutations(Specs))))
=============================================================================
