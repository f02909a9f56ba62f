--------------------------- MODULE TransactionRun ---------------------------
(***************************************************************************)
(* The flatpak backend with the fiber of the transaction manager that      *)
(* starts a run and reads its channel: transaction_fiber and               *)
(* transaction_finally of src/src/bz-transaction-manager.c, and the tasks  *)
(* that src/src/bz-transaction.c lists.  The manager runs one transaction  *)
(* at a time (TransactionManager proves it).                               *)
(***************************************************************************)
EXTENDS FlatpakRun

VARIABLES
    task,       \* the tasks of the transaction: current, finished or failed
    outcome     \* of the transaction

allVars == <<vars, task, outcome>>

TaskStates == {"none", "current", "finished", "failed"}
Outcomes == {"none", "running", "success", "failure"}

TypeOKRun ==
    /\ TypeOK
    /\ task \in [Runs -> [Ops -> TaskStates]]
    /\ outcome \in [Runs -> Outcomes]

InitRun ==
    /\ Init
    /\ task = [r \in Runs |-> [o \in Ops |-> "none"]]
    /\ outcome = [r \in Runs |-> "none"]

-----------------------------------------------------------------------------
\* The beginning of transaction_fiber; the manager dispatches when nothing
\* runs.
Begin(r, p) ==
    /\ outcome[r] = "none"
    /\ \A s \in Runs : outcome[s] # "running"
    /\ outcome' = [outcome EXCEPT ![r] = "running"]
    /\ Schedule(r, p)
    /\ UNCHANGED task

\* A payload of the channel is a new task when it comes first, and the end
\* of the task when it comes again.
Receive(r) ==
    /\ outcome[r] = "running"
    /\ sent[r] # <<>>
    /\ LET o == Head(sent[r]).op
       IN task' = [task EXCEPT ![r][o] =
                     IF @ # "current" THEN "current"
                     ELSE IF Head(sent[r]).error THEN "failed" ELSE "finished"]
    /\ sent' = [sent EXCEPT ![r] = Tail(@)]
    /\ UNCHANGED <<plan, bundles, phase, job, op, fiber, flush, errored, closed, ongoing,
                   cancelled, monitorVars, outcome>>

\* Mutant: the manager does not read the table of errors.
ConcludeBlindly(r) ==
    /\ outcome[r] = "running"
    /\ closed[r] /\ sent[r] = <<>>
    /\ task' = [task EXCEPT ![r] =
                  [o \in Ops |-> IF @[o] = "current" THEN "failed" ELSE @[o]]]
    /\ outcome' = [outcome EXCEPT ![r] =
                     IF phase[r] = "ended" THEN "success" ELSE "failure"]
    /\ UNCHANGED vars

\* The channel is at its end.  Tasks that got no last word fail; the outcome
\* is that of the backend's future.
Conclude(r) ==
    /\ outcome[r] = "running"
    /\ closed[r] /\ sent[r] = <<>>
    /\ task' = [task EXCEPT ![r] =
                  [o \in Ops |-> IF @[o] = "current" THEN "failed" ELSE @[o]]]
    /\ outcome' = [outcome EXCEPT ![r] =
                     IF phase[r] = "ended" /\ ~ errored[r] THEN "success" ELSE "failure"]
    /\ UNCHANGED vars

Backend == BackendStep /\ UNCHANGED <<task, outcome>>

NextRun ==
    \/ Backend
    \/ \E r \in Runs, p \in Plans : Begin(r, p)
    \/ \E r \in Runs : Receive(r) \/ Conclude(r)

SpecRun == InitRun /\ [][NextRun]_allVars

-----------------------------------------------------------------------------
(* Safety *)

\* All that flatpak found for a transaction is done, shown and announced.
Accounted(r) ==
    /\ \A j \in JobsOf(plan[r]) : job[r][j] = "ok"
    /\ \A o \in Ops :
          /\ op[r][o] \in {"none", "changed", "unchanged"}
          /\ task[r][o] = IF op[r][o] = "none" THEN "none" ELSE "finished"
          /\ op[r][o] = "changed" => fiber[r][o] = "over"

\* A transaction is reported as successful only when flatpak has done every
\* operation it found for every entry of the transaction, the task of each
\* of them has ended well, and each operation that changed something has
\* been announced to the application: the table of errors catches jobs that
\* are still running, and the fiber waits for the notifications.
\* transaction_fiber, bz-flatpak-instance.c:2645-2728, and its reader,
\* bz-transaction-manager.c:763-775.
TruthfulSuccess == \A r \in Runs : outcome[r] = "success" => Accounted(r)

\* A transaction that is reported as failed did fail: it could not be made,
\* or one of its jobs failed.
TruthfulFailure ==
    \A r \in Runs : outcome[r] = "failure" =>
        \/ phase[r] = "rejected"
        \/ \E j \in JobsOf(plan[r]) : job[r][j] = "failed"

\* The table of cancellables names a run exactly while its fiber waits for
\* its jobs: a cancellation never reaches a transaction that is over, and
\* it reaches every entry of one whose outcome is open.
CancellableWhileRaced ==
    \A e \in Entries, r \in Runs :
        r \in ongoing[e] <=> phase[r] = "racing" /\ plan[r][e] # "none"

\* The application hears of external changes no more often than there were
\* changes that nobody muted, though the monitor cannot tell who made one:
\* whatever an operation of a transaction changes was muted before.  Those of
\* others are not, and neither is the remote that is added for a bundle, which
\* the application hears of as if it were another's.
\* bz-flatpak-instance.c:2246, 2776-2782, 3161-3197.
NoEcho == \A i \in Installations : unheard[i] >= 0

\* Where the payloads of an operation can be: in the channel or, by the state
\* of its task, received.
Nowhere(s, o) == \A i \in 1..Len(s) : s[i].op # o

Once(s, o, error) ==
    \E i \in 1..Len(s) :
        /\ s[i] = [op |-> o, error |-> error]
        /\ \A k \in 1..Len(s) \ {i} : s[k].op # o

Twice(s, o, error) ==
    \E i, j \in 1..Len(s) :
        /\ i < j
        /\ s[i] = [op |-> o, error |-> FALSE]
        /\ s[j] = [op |-> o, error |-> error]
        /\ \A k \in 1..Len(s) \ {i, j} : s[k].op # o

Announced(r, o) ==
    \/ task[r][o] = "none" /\ Once(sent[r], o, FALSE)
    \/ task[r][o] = "current" /\ Nowhere(sent[r], o)

Settled(r, o, error) ==
    \/ task[r][o] = "none" /\ Twice(sent[r], o, error)
    \/ task[r][o] = "current" /\ Once(sent[r], o, error)
    \/ /\ task[r][o] = IF error THEN "failed" ELSE "finished"
       /\ Nowhere(sent[r], o)

Untold(r, o) == task[r][o] = "none" /\ Nowhere(sent[r], o)

\* While the channel is open, it and the tasks tell the state of every
\* operation; what happens after it was closed is not told.
Told(r, o) ==
    \/ op[r][o] \in {"none", "listed"} /\ Untold(r, o)
    \/ op[r][o] = "announced" /\ Announced(r, o)
    \/ op[r][o] \in {"changed", "unchanged"} /\ Settled(r, o, FALSE)
    \/ op[r][o] = "error" /\ Settled(r, o, TRUE)

SomeFailed(r) == \E j \in JobsOf(plan[r]) : job[r][j] = "failed"
AllOk(r) == \A j \in JobsOf(plan[r]) : job[r][j] = "ok"

Partly(r, o) ==
    \/ Untold(r, o)
    \/ Announced(r, o)
    \/ \E error \in BOOLEAN : Settled(r, o, error)

ChannelAt(r, o) ==
    /\ outcome[r] = "none" => Untold(r, o)
    /\ outcome[r] = "running" =>
          Told(r, o) \/ (closed[r] /\ SomeFailed(r) /\ Partly(r, o))

Channel == \A r \in Runs, o \in Ops : ChannelAt(r, o)

\* The jobs are those of the plan.
JobsPlanned ==
    \A r \in Runs, j \in Jobs :
        job[r][j] # "none" <=>
            phase[r] \in {"racing", "flushing", "ended"} /\ j \in JobsOf(plan[r])

\* Operations belong to jobs.
OpsOwned ==
    \A r \in Runs, o \in Ops :
        op[r][o] # "none" =>
            \E j \in JobsOf(plan[r]) :
                o[1] \in j /\ job[r][j] \in {"running", "ok", "failed"}

\* A job that is good has done its own.
GoodJobs ==
    \A r \in Runs, j \in Jobs, o \in Ops :
        job[r][j] = "ok" /\ o[1] \in j =>
            op[r][o] \in {"none", "changed", "unchanged"}

\* Changes have a fiber that announces them.
FibersOfChanges ==
    \A r \in Runs, o \in Ops : op[r][o] = "changed" <=> fiber[r][o] # "none"

JobsOwn == JobsPlanned /\ OpsOwned /\ GoodJobs /\ FibersOfChanges

\* What the fiber of a run knows when the race is over, and at its end.
EndAt(r) ==
    /\ phase[r] \in {"flushing", "ended"} =>
          \/ SomeFailed(r)
          \/ AllOk(r) /\ Pending(r) \subseteq flush[r]
    /\ phase[r] = "ended" => (errored[r] <=> SomeFailed(r))
    /\ phase[r] = "ended" /\ ~ errored[r] => Pending(r) = {}
    /\ closed[r] <=> phase[r] \in {"rejected", "ended"}
    /\ outcome[r] = "none" <=> phase[r] = "none"
    /\ outcome[r] = "success" => phase[r] = "ended" /\ ~ errored[r]
    /\ outcome[r] = "failure" =>
          \/ phase[r] = "rejected"
          \/ phase[r] = "ended" /\ errored[r]

EndOfRun == \A r \in Runs : EndAt(r)

\* The operations that may still change an installation.
Working(i) ==
    {w \in Runs \X Ops : op[w[1]][w[2]] = "announced" /\ InstallationOf(w[2][1]) = i}

\* Every change that the main loop has not seen is muted or loud.
Muted ==
    \A i \in Installations :
        /\ mute[i] >= 0
        /\ events[i] + Cardinality(Working(i)) <= unheard[i] + mute[i]

\* The inductive invariant.
IInv ==
    /\ TypeOKRun
    /\ CancellableWhileRaced
    /\ Channel
    /\ JobsOwn
    /\ EndOfRun
    /\ Muted
    /\ TruthfulSuccess
    /\ NoEcho

\* The tasks and the outcome are as OperationStream promises.
Stream == INSTANCE OperationStream
StreamSpec == Stream!Spec

-----------------------------------------------------------------------------
(* Liveness *)

\* Whatever a transaction is waiting for.
Progress(r) ==
    \/ Receive(r) \/ Conclude(r)
    \/ /\ \/ RunStep(r)
          \/ \E j \in Jobs : JobStep(r, j)
          \/ \E o \in Ops : DoneFiber(r, o)
       /\ UNCHANGED <<task, outcome>>

\* flatpak ends what it was asked to do, and fibers are scheduled: as long as
\* something can be done for a transaction, something will be done.
FairRun == \A r \in Runs : WF_allVars(Progress(r))

FairSpecRun == SpecRun /\ FairRun

\* A transaction that was started is over at some time, and what is shown
\* of its operations is final.
RunEnds ==
    \A r \in Runs :
        outcome[r] = "running" ~>
            /\ outcome[r] \in {"success", "failure"}
            /\ \A o \in Ops : task[r][o] # "current"
=============================================================================
