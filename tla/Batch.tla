-------------------------------- MODULE Batch -------------------------------
(***************************************************************************)
(* What cclive promises about a batch of input URLs: each is settled once, *)
(* in the order given, whatever became of the ones before it; the process  *)
(* exits when all are settled, with the status of the last one, unless an  *)
(* error that concerns the whole batch or a signal ends it early.          *)
(***************************************************************************)
EXTENDS Naturals

CONSTANT N   \* the number of input URLs
VARIABLES
  outcome,   \* [1 .. N -> ...]: "pending", then "ok" or "error"
  exit       \* "running", then the exit status, or "killed"

Pending(k) == outcome[k] = "pending"

Init == outcome = [k \in 1 .. N |-> "pending"] /\ exit = "running"

Settle(k) ==
  /\ exit = "running"
  /\ Pending(k) /\ \A j \in 1 .. (k - 1) : ~Pending(j)
  /\ \E r \in {"ok", "error"} : outcome' = [outcome EXCEPT ![k] = r]
  /\ UNCHANGED exit

Finish ==
  /\ exit = "running"
  /\ \A k \in 1 .. N : ~Pending(k)
  /\ exit' = outcome[N]
  /\ UNCHANGED outcome

\* Nothing settled after an error of the batch; and a signal may come anytime.
Abort ==
  /\ exit = "running"
  /\ exit' \in {"error", "killed"}
  /\ exit' = "error" => \E k \in 1 .. N : Pending(k)
  /\ UNCHANGED outcome

Next == Finish \/ Abort \/ \E k \in 1 .. N : Settle(k)

vars == <<outcome, exit>>
Spec == Init /\ [][Next]_vars
=============================================================================
