----------------------------- MODULE RunLifecycle -----------------------------
(***************************************************************************)
(* What the three run repositories promise of a persisted run (a sync job, *)
(* a screening run, a backtest run): it is submitted once, started once,   *)
(* ended once, and what it produced appears in the one step that makes it  *)
(* a SUCCESS.                                                              *)
(***************************************************************************)
CONSTANTS
  Ids,        \* primary keys of runs
  Results     \* result rows a run may publish

VARIABLES
  status,     \* status[id]; "none" before the run is submitted
  published   \* published[id]: the result rows that readers see

vars == <<status, published>>

Terminal == {"SUCCESS", "FAILED", "BLOCKED"}
Status == {"none", "PENDING", "RUNNING"} \union Terminal

Init ==
  /\ status = [id \in Ids |-> "none"]
  /\ published = [id \in Ids |-> {}]

Move(id, from, to) ==
  /\ status[id] = from
  /\ status' = [status EXCEPT ![id] = to]

Submit(id) == Move(id, "none", "PENDING") /\ UNCHANGED published
Begin(id)  == Move(id, "PENDING", "RUNNING") /\ UNCHANGED published

End(id, outcome, rows) ==
  /\ Move(id, "RUNNING", outcome)
  /\ outcome # "SUCCESS" => rows = {}
  /\ published' = [published EXCEPT ![id] = rows]

Next ==
  \E id \in Ids :
    \/ Submit(id)
    \/ Begin(id)
    \/ \E outcome \in Terminal, rows \in SUBSET Results : End(id, outcome, rows)

Spec == Init /\ [][Next]_vars
===============================================================================
