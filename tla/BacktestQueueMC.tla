--------------------------- MODULE BacktestQueueMC ---------------------------
(* Small instances of BacktestQueue: two workers, apart or in one process.  *)
EXTENDS BacktestQueue, TLC

CONSTANTS w1, w2, p1, p2, a1, c1, c2

(* One worker per container is what cpus: "2.0" yields in production.       *)
MCHome == w1 :> p1 @@ w2 :> p2

=============================================================================
