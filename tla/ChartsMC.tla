------------------------------ MODULE ChartsMC ------------------------------
(***************************************************************************)
(* Sessions of three slots and buckets of two, so that the last bucket of  *)
(* a session is short; three contracts of a future that expire days apart  *)
(* and settle at levels where a gap of the wrong day is seen.              *)
(***************************************************************************)
EXTENDS Charts

CONSTANTS F, G, H

MCExpiration == (F :> 1) @@ (G :> 2) @@ (H :> 4)
MCSettlement == (F :> [d \in 0..4 |-> 10 + d]) @@ (G :> [d \in 0..4 |-> 25 + 3 * d])
                  @@ (H :> [d \in 0..4 |-> 50 + d * d])

\* Two sessions and the morning of the third, and the settlements of three
\* days, but for one bar or one settlement at most.
MCSlots == 0..6
MCQuotes == {q \in [contract : Contracts, day : 0..2] : q.day <= MCExpiration[q.contract]}
MCWithout(S) == {S} \cup {S \ {x} : x \in S}
MCFirstStored ==
  [stock : MCWithout(MCSlots), quotes : {MCQuotes}]
    \cup [stock : {MCSlots}, quotes : MCWithout(MCQuotes)]
=============================================================================
