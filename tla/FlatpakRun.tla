----------------------------- MODULE FlatpakRun -----------------------------
(***************************************************************************)
(* How the flatpak backend, src/src/bz-flatpak-instance.c, runs a          *)
(* transaction: one fiber per transaction on a pool of threads, which      *)
(* turns it into jobs (FlatpakTransactions) that run side by side, and the *)
(* callbacks that flatpak makes from the thread of each job.  The library, *)
(* the file monitors of the two installations and other programs that      *)
(* change these installations are external.                                *)
(*                                                                         *)
(* A job is named by the entries it is for: installations and removals     *)
(* have a job each, the updates of one installation share a job.  An       *)
(* operation is a part of what is done for an entry: the application       *)
(* itself, a runtime it needs.  An entry occurs once in a transaction.     *)
(*                                                                         *)
(* Left out: progress reports and the numbers in them, and the entry that  *)
(* an operation is shown with.                                             *)
(***************************************************************************)
EXTENDS Integers, Sequences, FiniteSets

CONSTANTS
    Runs,           \* the calls of bz_flatpak_instance_schedule_transaction
    Entries,
    UserEntries,    \* those of the user's installation
    Bundles,        \* those that are installed from a bundle
    Parts,          \* the operations there may be for one entry
    Wanted,         \* what transactions ask for: installs, updates, removals
    Monitored,      \* the installations whose monitor could be made
    MaxForeign      \* how many changes of others may be unheard of at a time

ASSUME UserEntriesAssumption == UserEntries \subseteq Entries
ASSUME BundlesAssumption == Bundles \subseteq Entries
ASSUME WantedAssumption == Wanted \subseteq {"install", "update", "remove"}
ASSUME MonitoredAssumption == Monitored \subseteq {"user", "system"}
ASSUME MaxForeignAssumption == MaxForeign \in Nat
Installations == {"user", "system"}
InstallationOf(e) == IF e \in UserEntries THEN "user" ELSE "system"
Ops == Entries \X Parts
ASSUME FiniteAssumption == IsFiniteSet(Runs \X Ops)

Jobs == (SUBSET Entries) \ {{}}
Kinds == {"none", "install", "update", "remove"}

Plans == [Entries -> Wanted \cup {"none"}]

VARIABLES
    plan,       \* what each transaction is to do with every entry
    bundles,    \* the entries whose remote its fiber has yet to ensure
    phase,      \* where its fiber is
    job,        \* the state of each of its jobs
    op,         \* the state of each operation
    fiber,      \* the fiber spawned by transaction_operation_done
    flush,      \* the fibers among send_futures that transaction_fiber awaits
    errored,    \* whether the table transaction_fiber returns has a member
    sent,       \* the channel of the transaction
    closed,
    ongoing,    \* self->ongoing_cancellables, by entry
    cancelled,  \* whether the cancellable of the transaction is
    mute,       \* user_mute and system_mute
    events,     \* events of the monitors that wait for the main loop
    unheard     \* changes that nobody mutes, less those the application
                \* was notified of

runVars == <<plan, bundles, phase, job, op, fiber, flush, errored, sent,
             closed, ongoing, cancelled>>
monitorVars == <<mute, events, unheard>>
vars == <<plan, bundles, phase, job, op, fiber, flush, errored, sent, closed,
          ongoing, cancelled, mute, events, unheard>>

Phases == {"none", "building", "rejected", "racing", "flushing", "ended"}
JobStates == {"none", "waiting", "running", "ok", "failed"}
OpStates == {"none", "listed", "announced", "changed", "unchanged", "error"}
FiberStates == {"none", "spawned", "syncing", "over"}
Message == [op : Ops, error : BOOLEAN]

TypeOK ==
    /\ plan \in [Runs -> [Entries -> Kinds]]
    /\ bundles \in [Runs -> SUBSET Bundles]
    /\ phase \in [Runs -> Phases]
    /\ job \in [Runs -> [Jobs -> JobStates]]
    /\ op \in [Runs -> [Ops -> OpStates]]
    /\ fiber \in [Runs -> [Ops -> FiberStates]]
    /\ flush \in [Runs -> SUBSET Ops]
    /\ errored \in [Runs -> BOOLEAN]
    /\ sent \in [Runs -> Seq(Message)]
    /\ closed \in [Runs -> BOOLEAN]
    /\ ongoing \in [Entries -> SUBSET Runs]
    /\ cancelled \in [Runs -> BOOLEAN]
    /\ mute \in [Installations -> Int]
    /\ events \in [Installations -> Nat]
    /\ unheard \in [Installations -> Int]

Init ==
    /\ plan = [r \in Runs |-> [e \in Entries |-> "none"]]
    /\ bundles = [r \in Runs |-> {}]
    /\ phase = [r \in Runs |-> "none"]
    /\ job = [r \in Runs |-> [j \in Jobs |-> "none"]]
    /\ op = [r \in Runs |-> [o \in Ops |-> "none"]]
    /\ fiber = [r \in Runs |-> [o \in Ops |-> "none"]]
    /\ flush = [r \in Runs |-> {}]
    /\ errored = [r \in Runs |-> FALSE]
    /\ sent = [r \in Runs |-> <<>>]
    /\ closed = [r \in Runs |-> FALSE]
    /\ ongoing = [e \in Entries |-> {}]
    /\ cancelled = [r \in Runs |-> FALSE]
    /\ mute = [i \in Installations |-> 0]
    /\ events = [i \in Installations |-> 0]
    /\ unheard = [i \in Installations |-> 0]

-----------------------------------------------------------------------------
Planned(r) == {e \in Entries : plan[r][e] # "none"}

\* The transactions that are made for a plan: updates share one for each
\* installation.
JobsOf(p) ==
    {{e} : e \in {f \in Entries : p[f] \in {"install", "remove"}}}
    \cup ({{e \in Entries : p[e] = "update" /\ InstallationOf(e) = i} :
              i \in Installations} \ {{}})

Has(r, j, states) == \E o \in Ops : o[1] \in j /\ op[r][o] \in states

Pending(r) == {o \in Ops : fiber[r][o] \in {"spawned", "syncing"}}

Over(r, j) == job[r][j] \in {"ok", "failed"}

\* The monitor of an installation sees that it changed.
Notice(i) ==
    events' = IF i \in Monitored THEN [events EXCEPT ![i] = @ + 1] ELSE events

\* A change that nobody mutes.
Loud(i) ==
    /\ Notice(i)
    /\ unheard' = [unheard EXCEPT ![i] = @ + 1]

\* dex_channel_send on a channel without limit: rejected once it is closed.
Send(r, m) ==
    sent' = IF closed[r] THEN sent ELSE [sent EXCEPT ![r] = Append(@, m)]

-----------------------------------------------------------------------------
\* bz_flatpak_instance_schedule_transaction.
Schedule(r, p) ==
    /\ phase[r] = "none"
    /\ \E e \in Entries : p[e] # "none"
    /\ plan' = [plan EXCEPT ![r] = p]
    /\ bundles' = [bundles EXCEPT ![r] = {e \in Bundles : p[e] = "install"}]
    /\ phase' = [phase EXCEPT ![r] = "building"]
    /\ UNCHANGED <<job, op, fiber, flush, errored, sent, closed, ongoing,
                   cancelled, monitorVars>>

\* ensure_runtime_remote_fiber, which transaction_fiber awaits for each entry
\* that is installed from a bundle: the installation gets the remote that its
\* runtime comes from, unless it has one of that name or the remote cannot be
\* fetched or added, which is ignored.  The monitor is not muted.
EnsureRemote(r, e, adds) ==
    /\ phase[r] = "building" /\ e \in bundles[r]
    /\ bundles' = [bundles EXCEPT ![r] = @ \ {e}]
    /\ IF adds THEN Loud(InstallationOf(e)) ELSE UNCHANGED <<events, unheard>>
    /\ UNCHANGED <<plan, phase, job, op, fiber, flush, errored, sent, closed,
                   ongoing, cancelled, mute>>

\* transaction_fiber cannot make one of the FlatpakTransactions.
BuildFails(r) ==
    /\ phase[r] = "building" /\ bundles[r] = {}
    /\ phase' = [phase EXCEPT ![r] = "rejected"]
    /\ closed' = [closed EXCEPT ![r] = TRUE]
    /\ UNCHANGED <<plan, bundles, job, op, fiber, flush, errored, sent, ongoing,
                   cancelled, monitorVars>>

\* transaction_fiber registers the cancellable for the entries and spawns
\* the jobs.
Launch(r) ==
    /\ phase[r] = "building" /\ bundles[r] = {}
    /\ phase' = [phase EXCEPT ![r] = "racing"]
    /\ ongoing' = [e \in Entries |->
                     IF e \in Planned(r) THEN ongoing[e] \cup {r} ELSE ongoing[e]]
    /\ job' = [job EXCEPT ![r] =
                 [j \in Jobs |-> IF j \in JobsOf(plan[r]) THEN "waiting" ELSE "none"]]
    /\ UNCHANGED <<plan, bundles, op, fiber, flush, errored, sent, closed, cancelled,
                   monitorVars>>

\* flatpak_transaction_run has found the operations of the job, none of
\* which has begun: the signal "ready".
Ready(r, j, found) ==
    /\ job[r][j] = "waiting"
    /\ found # {}
    /\ job' = [job EXCEPT ![r][j] = "running"]
    /\ op' = [op EXCEPT ![r] = [o \in Ops |-> IF o \in found THEN "listed" ELSE @[o]]]
    /\ UNCHANGED <<plan, bundles, phase, fiber, flush, errored, sent, closed, ongoing,
                   cancelled, monitorVars>>

\* Mutant: the monitor is not muted.
NewOperationAloud(r, j, o) ==
    /\ job[r][j] = "running"
    /\ o[1] \in j /\ op[r][o] = "listed"
    /\ ~ Has(r, j, {"announced", "error"})
    /\ op' = [op EXCEPT ![r][o] = "announced"]
    /\ Send(r, [op |-> o, error |-> FALSE])
    /\ UNCHANGED <<plan, bundles, phase, job, fiber, flush, errored, closed, ongoing,
                   cancelled, monitorVars>>

\* transaction_new_operation.  The operations of a job follow one another.
NewOperation(r, j, o) ==
    /\ job[r][j] = "running"
    /\ o[1] \in j /\ op[r][o] = "listed"
    /\ ~ Has(r, j, {"announced", "error"})
    /\ op' = [op EXCEPT ![r][o] = "announced"]
    /\ mute' = [mute EXCEPT ![InstallationOf(o[1])] = @ + 1]
    /\ Send(r, [op |-> o, error |-> FALSE])
    /\ UNCHANGED <<plan, bundles, phase, job, fiber, flush, errored, closed, ongoing,
                   cancelled, events, unheard>>

\* flatpak has done an operation; what changed the installation is seen by
\* the monitor.  transaction_operation_done.
OperationDone(r, j, o, result) ==
    /\ job[r][j] = "running"
    /\ o[1] \in j /\ op[r][o] = "announced"
    /\ op' = [op EXCEPT ![r][o] = result]
    /\ Send(r, [op |-> o, error |-> FALSE])
    /\ IF result = "changed"
       THEN /\ fiber' = [fiber EXCEPT ![r][o] = "spawned"]
            /\ Notice(InstallationOf(o[1]))
       ELSE UNCHANGED <<fiber, events>>
    /\ UNCHANGED <<plan, bundles, phase, job, flush, errored, closed, ongoing,
                   cancelled, mute, unheard>>

\* transaction_operation_error: the payload goes out again, with the error.
OperationError(r, j, o) ==
    /\ job[r][j] = "running"
    /\ o[1] \in j /\ op[r][o] = "announced"
    /\ op' = [op EXCEPT ![r][o] = "error"]
    /\ Send(r, [op |-> o, error |-> TRUE])
    /\ UNCHANGED <<plan, bundles, phase, job, fiber, flush, errored, closed, ongoing,
                   cancelled, monitorVars>>

\* flatpak_transaction_run returns, and with it transaction_job_fiber.
JobSucceeds(r, j) ==
    /\ job[r][j] = "running"
    /\ ~ Has(r, j, {"listed", "announced", "error"})
    /\ job' = [job EXCEPT ![r][j] = "ok"]
    /\ UNCHANGED <<plan, bundles, phase, op, fiber, flush, errored, sent, closed,
                   ongoing, cancelled, monitorVars>>

\* It fails before it is ready, after the error of an operation, or, when
\* it is cancelled, in the middle of one.
JobFails(r, j) ==
    /\ job[r][j] \in {"waiting", "running"}
    /\ Has(r, j, {"announced"}) => cancelled[r]
    /\ job' = [job EXCEPT ![r][j] = "failed"]
    /\ UNCHANGED <<plan, bundles, phase, op, fiber, flush, errored, sent, closed,
                   ongoing, cancelled, monitorVars>>

\* Mutant: the cancellables stay registered.
RaceOverRegistered(r) ==
    /\ phase[r] = "racing"
    /\ \/ \A j \in JobsOf(plan[r]) : Over(r, j)
       \/ \E j \in JobsOf(plan[r]) : job[r][j] = "failed"
    /\ phase' = [phase EXCEPT ![r] = "flushing"]
    /\ flush' = [flush EXCEPT ![r] = Pending(r)]
    /\ UNCHANGED <<plan, bundles, job, op, fiber, errored, sent, closed, ongoing,
                   cancelled, monitorVars>>

\* Mutant: the first job to be over ends the race.
RaceOverFirst(r) ==
    /\ phase[r] = "racing"
    /\ \E j \in JobsOf(plan[r]) : Over(r, j)
    /\ phase' = [phase EXCEPT ![r] = "flushing"]
    /\ ongoing' = [e \in Entries |-> ongoing[e] \ {r}]
    /\ flush' = [flush EXCEPT ![r] = Pending(r)]
    /\ UNCHANGED <<plan, bundles, job, op, fiber, errored, sent, closed, cancelled,
                   monitorVars>>

\* Mutant: the fiber does not wait for the futures.
RaceOverAtOnce(r) ==
    /\ phase[r] = "racing"
    /\ \/ \A j \in JobsOf(plan[r]) : Over(r, j)
       \/ \E j \in JobsOf(plan[r]) : job[r][j] = "failed"
    /\ phase' = [phase EXCEPT ![r] = "flushing"]
    /\ ongoing' = [e \in Entries |-> ongoing[e] \ {r}]
    /\ UNCHANGED <<plan, bundles, job, op, fiber, flush, errored, sent, closed,
                   cancelled, monitorVars>>

\* dex_future_all_racev: every job is over, or one has failed, in which case
\* the others go on.  The fiber takes the cancellable out of the table and
\* begins to wait for the futures that are there.
RaceOver(r) ==
    /\ phase[r] = "racing"
    /\ \/ \A j \in JobsOf(plan[r]) : Over(r, j)
       \/ \E j \in JobsOf(plan[r]) : job[r][j] = "failed"
    /\ phase' = [phase EXCEPT ![r] = "flushing"]
    /\ ongoing' = [e \in Entries |-> IF e \in Planned(r) THEN ongoing[e] \ {r} ELSE ongoing[e]]
    /\ flush' = [flush EXCEPT ![r] = Pending(r)]
    /\ UNCHANGED <<plan, bundles, job, op, fiber, errored, sent, closed, cancelled,
                   monitorVars>>

\* Mutant: the channel is left open.
FlushOverOpen(r) ==
    /\ phase[r] = "flushing"
    /\ flush[r] \cap Pending(r) = {}
    /\ errored' = [errored EXCEPT ![r] =
                     \E j \in JobsOf(plan[r]) : job[r][j] # "ok"]
    /\ phase' = [phase EXCEPT ![r] = "ended"]
    /\ UNCHANGED <<plan, bundles, job, op, fiber, flush, sent, closed, ongoing, cancelled,
                   monitorVars>>

\* The end of transaction_fiber.  dex_future_get_value gives an error for a
\* job that failed and for one that is pending.
FlushOver(r) ==
    /\ phase[r] = "flushing"
    /\ flush[r] \cap Pending(r) = {}
    /\ errored' = [errored EXCEPT ![r] =
                     \E j \in JobsOf(plan[r]) : job[r][j] # "ok"]
    /\ closed' = [closed EXCEPT ![r] = TRUE]
    /\ phase' = [phase EXCEPT ![r] = "ended"]
    /\ UNCHANGED <<plan, bundles, job, op, fiber, flush, sent, ongoing, cancelled,
                   monitorVars>>

\* bz_flatpak_instance_cancel_task_for_entry, where it answers TRUE.
CancelTask(e) ==
    /\ ongoing[e] # {}
    /\ cancelled' = [r \in Runs |-> cancelled[r] \/ r \in ongoing[e]]
    /\ UNCHANGED <<plan, bundles, phase, job, op, fiber, flush, errored, sent, closed,
                   ongoing, monitorVars>>

\* transaction_operation_done_fiber: a bundle brings a remote, whose
\* references are retrieved before the notification is sent.
DoneFiber(r, o) ==
    /\ fiber[r][o] \in {"spawned", "syncing"}
    /\ fiber' = [fiber EXCEPT ![r][o] =
                   IF @ = "spawned" /\ o[1] \in Bundles /\ plan[r][o[1]] = "install"
                   THEN "syncing" ELSE "over"]
    /\ UNCHANGED <<plan, bundles, phase, job, op, flush, errored, sent, closed, ongoing,
                   cancelled, monitorVars>>

\* Another program changes an installation, or a part of this one that makes
\* no transaction: the synchronization of remotes.
ForeignChange(i) ==
    /\ i \in Monitored /\ unheard[i] < MaxForeign
    /\ Loud(i)
    /\ UNCHANGED <<runVars, mute>>

\* installation_event, on the main thread.
InstallationEvent(i) ==
    /\ events[i] > 0
    /\ events' = [events EXCEPT ![i] = @ - 1]
    /\ IF mute[i] > 0
       THEN mute' = [mute EXCEPT ![i] = @ - 1] /\ UNCHANGED unheard
       ELSE unheard' = [unheard EXCEPT ![i] = @ - 1] /\ UNCHANGED mute
    /\ UNCHANGED runVars

-----------------------------------------------------------------------------
\* The thread or fiber of one job.
JobStep(r, j) ==
    \/ \E found \in SUBSET (j \X Parts) : Ready(r, j, found)
    \/ \E o \in Ops : NewOperation(r, j, o) \/ OperationError(r, j, o)
    \/ \E o \in Ops, result \in {"changed", "unchanged"} :
          OperationDone(r, j, o, result)
    \/ JobSucceeds(r, j)
    \/ JobFails(r, j)

\* transaction_fiber.
RunStep(r) ==
    \/ \E e \in Bundles, adds \in BOOLEAN : EnsureRemote(r, e, adds)
    \/ BuildFails(r) \/ Launch(r) \/ RaceOver(r) \/ FlushOver(r)

BackendStep ==
    \/ \E r \in Runs : RunStep(r)
    \/ \E r \in Runs, j \in Jobs : JobStep(r, j)
    \/ \E r \in Runs, o \in Ops : DoneFiber(r, o)
    \/ \E e \in Entries : CancelTask(e)
    \/ \E i \in Installations : ForeignChange(i) \/ InstallationEvent(i)

Next == BackendStep \/ \E r \in Runs, p \in Plans : Schedule(r, p)

Spec == Init /\ [][Next]_vars
=============================================================================
