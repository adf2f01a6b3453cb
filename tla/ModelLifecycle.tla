--------------------------- MODULE ModelLifecycle ---------------------------
(***************************************************************************)
(* What internal/runtime promises about each model, without threads,       *)
(* processes, sockets or channels: a model is absent, loading, or its last *)
(* load ended in one of the states ready, degraded or failed.              *)
(*                                                                         *)
(* Loading is exclusive across ALL models: while one loads, no model       *)
(* changes.  A ready model is never loaded again without being removed;    *)
(* a degraded or failed one may be.                                        *)
(***************************************************************************)
CONSTANT Names
VARIABLE status

Outcomes == {"ready", "degraded", "failed"}
Statuses == {"absent", "loading"} \cup Outcomes

Quiet == \A n \in Names : status[n] # "loading"

Init == status = [n \in Names |-> "absent"]

BeginLoad(n) ==
  /\ Quiet
  /\ status[n] # "ready"
  /\ status' = [status EXCEPT ![n] = "loading"]

EndLoad(n, outcome) ==
  /\ status[n] = "loading"
  /\ status' = [status EXCEPT ![n] = outcome]

Remove(n) ==
  /\ Quiet
  /\ status[n] # "absent"
  /\ status' = [status EXCEPT ![n] = "absent"]

Next ==
  \E n \in Names : \/ BeginLoad(n)
                   \/ \E outcome \in Outcomes : EndLoad(n, outcome)
                   \/ Remove(n)

Spec == Init /\ [][Next]_status
=============================================================================
