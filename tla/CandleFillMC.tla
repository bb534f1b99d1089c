---------------------------- MODULE CandleFillMC ----------------------------
(* A small instance of CandleFill: two symbols, one of which the provider   *)
(* has no bar of on the first day, and commands for the other one.          *)
EXTENDS CandleFill

SomeGaps    == {{<<2, 0>>}}
SomeBatches == {{1}}
=============================================================================
