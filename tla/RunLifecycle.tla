---------------------------- MODULE RunLifecycle -----------------------------
(***************************************************************************)
(* What the table of backtest runs promises to everything that reads it:   *)
(* a run is submitted once, is worked on by whoever took it, may be handed *)
(* back, and ends with one verdict that only deletion removes.             *)
(* BacktestQueue implements this; WalkForward relies on nothing more.      *)
(***************************************************************************)
CONSTANT Runs

VARIABLE status    \* the status column; "new" until inserted, "gone" once deleted

Terminal == {"done", "error"}
Active   == {"queued", "running"}
Statuses == {"new", "gone"} \cup Active \cup Terminal

Set(S, s) == status' = [r \in Runs |-> IF r \in S THEN s ELSE status[r]]

(* One transaction inserts the rows it is about.                            *)
Submit(S) == S # {} /\ (\A r \in S : status[r] = "new") /\ Set(S, "queued")

Take(r) == status[r] = "queued" /\ Set({r}, "running")

(* By the worker that holds them or by the janitor.                         *)
HandBack(S) == S # {} /\ (\A r \in S : status[r] = "running") /\ Set(S, "queued")

Settle(r, verdict) == verdict \in Terminal /\ status[r] = "running" /\ Set({r}, verdict)

Delete(S) == Set(S, "gone")

Init == status = [r \in Runs |-> "new"]

Next ==
  \/ \E S \in SUBSET Runs : Submit(S) \/ HandBack(S) \/ Delete(S)
  \/ \E r \in Runs : Take(r) \/ (\E v \in Terminal : Settle(r, v))

Spec == Init /\ [][Next]_status
=============================================================================
