------------------------- MODULE SerialTransactions -------------------------
(***************************************************************************)
(* What the transaction manager promises: requests are collected while     *)
(* others run; whatever is waiting starts together; at any time one such   *)
(* group runs; and every request of a group gets the outcome of the group. *)
(***************************************************************************)
CONSTANTS Requests

VARIABLES
    waiting,    \* requests that have been made and not started
    active,     \* the group that runs
    answer      \* what each request was answered

vars == <<waiting, active, answer>>

Init ==
    /\ waiting = {}
    /\ active = {}
    /\ answer = [r \in Requests |-> "none"]

Submit(r) ==
    /\ r \notin waiting \cup active
    /\ answer[r] = "none"
    /\ waiting' = waiting \cup {r}
    /\ UNCHANGED <<active, answer>>

\* A request that finds nothing running may start at once.
SubmitAndStart(r) ==
    /\ r \notin waiting
    /\ answer[r] = "none"
    /\ active = {}
    /\ active' = waiting \cup {r}
    /\ waiting' = {}
    /\ UNCHANGED answer

Start ==
    /\ active = {}
    /\ active' = waiting
    /\ waiting' = {}
    /\ UNCHANGED answer

Finish(outcome) ==
    /\ active # {}
    /\ answer' = [r \in Requests |-> IF r \in active THEN outcome ELSE answer[r]]
    /\ active' = {}
    /\ UNCHANGED waiting

Next ==
    \/ \E r \in Requests : Submit(r) \/ SubmitAndStart(r)
    \/ Start
    \/ \E outcome \in {"success", "failure"} : Finish(outcome)

Spec == Init /\ [][Next]_vars
=============================================================================
