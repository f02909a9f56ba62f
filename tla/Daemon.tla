------------------------------- MODULE Daemon -------------------------------
(***************************************************************************)
(* The process that stays in the background, src/src/bazaar-daemon.c: it   *)
(* answers searches, starts the application, has updates checked, and      *)
(* exits when it was idle for a while.  One sd-event loop; an action is    *)
(* the callback of one event.                                              *)
(*                                                                         *)
(* Names that CatalogSync has too carry the daemon's, because              *)
(* BackgroundProofs looks at both.                                         *)
(*                                                                         *)
(* Left out: the search index and the answers made from it, and the        *)
(* forwarding of the command line by a second daemon, which is a call of   *)
(* Relaunch.                                                               *)
(***************************************************************************)
EXTENDS Integers

CONSTANTS
    Apps,           \* the processes that launch_app can start
    NoApp,
    MaxSearches,    \* bounds the calls that only restart the idle timer
    MaxWorkers      \* bounds the update workers that run at one time

ASSUME NoAppAssumption == NoApp \notin Apps
ASSUME DaemonBounds == MaxSearches \in Nat /\ MaxWorkers \in Nat

VARIABLES
    daemon,     \* starting, in its event loop, or why it left it
    childPid,   \* child_pid
    idleTimer,  \* whether idle_timer_source is armed
    app,        \* the processes: a zombie has ended and was not waited for
    auto,       \* the setting "auto-update"
    workers,    \* how many update workers run
    searches,   \* how many searches were made
    overlap,    \* history: an application was started before on_child_exit
                \* had been called for the one before
    stayed      \* history: the last idle timeout found auto-update on

daemonVars == <<daemon, childPid, idleTimer, app, auto, workers, searches, overlap,
          stayed>>

DaemonTypeOK ==
    /\ daemon \in {"starting", "running", "idle", "quit"}
    /\ childPid \in Apps \cup {NoApp}
    /\ idleTimer \in BOOLEAN
    /\ app \in [Apps -> {"none", "running", "zombie", "reaped"}]
    /\ auto \in BOOLEAN
    /\ workers \in 0..MaxWorkers
    /\ searches \in 0..MaxSearches
    /\ overlap \in BOOLEAN
    /\ stayed \in BOOLEAN

DaemonInit ==
    /\ daemon = "starting"
    /\ childPid = NoApp
    /\ idleTimer = FALSE
    /\ app = [a \in Apps |-> "none"]
    /\ auto \in BOOLEAN
    /\ workers = 0
    /\ searches = 0
    /\ overlap = FALSE
    /\ stayed = FALSE

-----------------------------------------------------------------------------
Unreaped == {a \in Apps : app[a] \in {"running", "zombie"}}

\* arm_idle_timer, when child_pid has become child.
Arm(child) ==
    /\ idleTimer' = (child = NoApp)
    /\ stayed' = (stayed /\ child # NoApp)

\* Mutant: child_pid is not set.
LaunchAppUnrecorded(a) ==
    /\ app[a] = "none"
    /\ app' = [app EXCEPT ![a] = "running"]
    /\ idleTimer' = FALSE
    /\ overlap' = (overlap \/ Unreaped # {})
    /\ stayed' = FALSE
    /\ UNCHANGED childPid

\* launch_app: the first child is the one that is remembered.
LaunchApp(a) ==
    /\ app[a] = "none"
    /\ app' = [app EXCEPT ![a] = "running"]
    /\ childPid' = IF childPid = NoApp THEN a ELSE childPid
    /\ idleTimer' = FALSE
    /\ overlap' = (overlap \/ Unreaped # {})
    /\ stayed' = FALSE

\* launch_app where fork fails.
LaunchFails ==
    /\ Arm(childPid)
    /\ UNCHANGED <<childPid, app, overlap>>

Launch == LaunchFails \/ \E a \in Apps : LaunchApp(a)

\* Mutant: the timer is armed only by launch_app.
StartSilently ==
    /\ daemon = "starting"
    /\ daemon' = "running"
    /\ Launch \/ UNCHANGED <<childPid, idleTimer, app, overlap, stayed>>
    /\ UNCHANGED <<auto, workers, searches>>

\* main, up to the event loop.  Without --no-window the application is
\* started; the timer is armed after it.
Start ==
    /\ daemon = "starting"
    /\ daemon' = "running"
    /\ \/ Launch
       \/ Arm(childPid) /\ UNCHANGED <<childPid, app, overlap>>
    /\ UNCHANGED <<auto, workers, searches>>

\* method_get_result_set, method_get_result_metas, and calls whose arguments
\* cannot be read.
Search ==
    /\ daemon = "running"
    /\ searches < MaxSearches
    /\ searches' = searches + 1
    /\ Arm(childPid)
    /\ UNCHANGED <<daemon, childPid, app, auto, workers, overlap>>

\* method_relaunch, method_activate_result, method_launch_search: the timer
\* they arm is canceled, or armed again, by launch_app.
Relaunch ==
    /\ daemon = "running"
    /\ searches < MaxSearches
    /\ searches' = searches + 1
    /\ Launch
    /\ UNCHANGED <<daemon, auto, workers>>

\* An application ends: the user closes it, or it handed its arguments to
\* one that runs already.
AppEnds(a) ==
    /\ app[a] = "running"
    /\ app' = [app EXCEPT ![a] = "zombie"]
    /\ UNCHANGED <<daemon, childPid, idleTimer, auto, workers, searches, overlap,
                   stayed>>

\* Mutant: child_pid keeps its value.
ChildExitKeeping(a) ==
    /\ daemon = "running"
    /\ app[a] = "zombie"
    /\ app' = [app EXCEPT ![a] = "reaped"]
    /\ Arm(childPid)
    /\ UNCHANGED <<daemon, childPid, auto, workers, searches, overlap>>

\* on_child_exit: whichever child it was, none is remembered after it.
ChildExit(a) ==
    /\ daemon = "running"
    /\ app[a] = "zombie"
    /\ app' = [app EXCEPT ![a] = "reaped"]
    /\ childPid' = NoApp
    /\ Arm(NoApp)
    /\ UNCHANGED <<daemon, auto, workers, searches, overlap>>

\* on_idle_timeout.  With auto-update on, nothing arms the timer again
\* before the next call or the next exit of a child.
IdleTimeout ==
    /\ daemon = "running"
    /\ idleTimer
    /\ idleTimer' = FALSE
    /\ daemon' = IF childPid # NoApp \/ auto THEN "running" ELSE "idle"
    /\ stayed' = (auto /\ childPid = NoApp)
    /\ UNCHANGED <<childPid, app, auto, workers, searches, overlap>>

\* on_update_timer, once an hour: nothing keeps a worker from being started
\* while an earlier one runs.  fork may fail, which changes nothing.
UpdateTimer ==
    /\ daemon = "running"
    /\ workers < MaxWorkers
    /\ workers' = workers + 1
    /\ UNCHANGED <<daemon, childPid, idleTimer, app, auto, searches, overlap, stayed>>

\* on_update_worker_exit, or the end of a worker whose daemon is gone.
WorkerEnds ==
    /\ workers > 0
    /\ workers' = workers - 1
    /\ UNCHANGED <<daemon, childPid, idleTimer, app, auto, searches, overlap, stayed>>

\* method_quit and on_signal: SIGTERM for the child, which may have ended.
Quit ==
    /\ daemon = "running"
    /\ daemon' = "quit"
    /\ app' = [a \in Apps |-> IF a = childPid /\ app[a] = "running" THEN "zombie"
                              ELSE app[a]]
    /\ UNCHANGED <<childPid, idleTimer, auto, workers, searches, overlap, stayed>>

\* The user changes the setting.
SetAuto ==
    /\ auto' = ~ auto
    /\ UNCHANGED <<daemon, childPid, idleTimer, app, workers, searches, overlap,
                   stayed>>

DaemonNext ==
    \/ Start \/ Search \/ Relaunch \/ IdleTimeout \/ UpdateTimer \/ WorkerEnds
    \/ Quit \/ SetAuto
    \/ \E a \in Apps : AppEnds(a) \/ ChildExit(a)

DaemonSpec == DaemonInit /\ [][DaemonNext]_daemonVars

\* The event loop dispatches what is pending, and an armed timer expires.
\* Applications end when their user wants them to.
FairDaemonSpec ==
    /\ DaemonSpec
    /\ WF_daemonVars(Start) /\ WF_daemonVars(IdleTimeout)
    /\ \A a \in Apps : WF_daemonVars(ChildExit(a))

-----------------------------------------------------------------------------
(* Safety *)

\* When the daemon leaves because it is idle, no application it started is
\* running, unless two of them overlapped: child_pid stands for one child,
\* and the exit of any child clears it, bazaar-daemon.c:457.
IdleMeansIdle ==
    daemon = "idle" /\ ~ overlap => \A a \in Apps : app[a] # "running"

\* A daemon that waits without a timer has a reason: a child whose exit will
\* arm the timer, or auto-update was on when it was last idle.  Every
\* callback that could leave it without one arms the timer,
\* bazaar-daemon.c:222-276, 449-508.
NeverStranded ==
    daemon = "running" /\ ~ idleTimer =>
        \/ childPid # NoApp /\ childPid \in Unreaped
        \/ stayed

\* The process that Quit kills is a child that was not waited for, so its
\* number cannot have become that of another process, bazaar-daemon.c:318-332.
KillsOwnChild == childPid # NoApp => childPid \in Unreaped

\* The inductive invariant.  A timer that is armed means that no child is
\* remembered, so the check of child_pid in on_idle_timeout never fails.
DaemonIInv ==
    /\ DaemonTypeOK
    /\ KillsOwnChild
    /\ idleTimer => childPid = NoApp
    /\ daemon = "starting" => Unreaped = {}
    /\ ~ overlap /\ daemon # "quit" => \A a \in Unreaped : a = childPid
    /\ NeverStranded
    /\ IdleMeansIdle

-----------------------------------------------------------------------------
(* Liveness *)

\* As long as auto-update stays off, a daemon that is no longer asked for
\* anything exits, unless an application goes on for ever.
Exits ==
    [](~ auto) =>
        \/ <>(daemon \in {"idle", "quit"})
        \/ \E a \in Apps : <>[](app[a] = "running")
=============================================================================
