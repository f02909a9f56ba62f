--------------------------- MODULE OperationStream ---------------------------
(***************************************************************************)
(* What the user of the transaction manager sees of transactions: one runs *)
(* at a time; its operations turn up, and each of them is finished or      *)
(* fails, once; and the transaction succeeds only when every operation     *)
(* that turned up was finished.                                            *)
(***************************************************************************)
CONSTANTS Runs, Ops

VARIABLES
    task,       \* what is shown of each operation
    outcome     \* of each transaction

vars == <<task, outcome>>

Init ==
    /\ task = [r \in Runs |-> [o \in Ops |-> "none"]]
    /\ outcome = [r \in Runs |-> "none"]

Begin(r) ==
    /\ outcome[r] = "none"
    /\ \A s \in Runs : outcome[s] # "running"
    /\ outcome' = [outcome EXCEPT ![r] = "running"]
    /\ UNCHANGED task

Show(r, o) ==
    /\ outcome[r] = "running"
    /\ task[r][o] = "none"
    /\ task' = [task EXCEPT ![r][o] = "current"]
    /\ UNCHANGED outcome

Settle(r, o, result) ==
    /\ outcome[r] = "running"
    /\ task[r][o] = "current"
    /\ task' = [task EXCEPT ![r][o] = result]
    /\ UNCHANGED outcome

Succeed(r) ==
    /\ outcome[r] = "running"
    /\ \A o \in Ops : task[r][o] \in {"none", "finished"}
    /\ outcome' = [outcome EXCEPT ![r] = "success"]
    /\ UNCHANGED task

\* What was not settled when the transaction fails, fails with it.
Fail(r) ==
    /\ outcome[r] = "running"
    /\ outcome' = [outcome EXCEPT ![r] = "failure"]
    /\ task' = [task EXCEPT ![r] =
                  [o \in Ops |-> IF @[o] = "current" THEN "failed" ELSE @[o]]]

Next ==
    \E r \in Runs :
        \/ Begin(r)
        \/ \E o \in Ops : Show(r, o)
        \/ \E o \in Ops, result \in {"finished", "failed"} : Settle(r, o, result)
        \/ Succeed(r)
        \/ Fail(r)

Spec == Init /\ [][Next]_vars
=============================================================================
