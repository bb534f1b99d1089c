---------------------------- MODULE WalkForwardMC ----------------------------
(* Small sweeps for TLC.                                                    *)
EXTENDS WalkForward

CONSTANTS w1, w2, j1, f1, f2

=============================================================================
