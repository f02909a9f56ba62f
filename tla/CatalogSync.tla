----------------------------- MODULE CatalogSync -----------------------------
(***************************************************************************)
(* How the application keeps its catalog up to date: the initialization,   *)
(* the synchronization with its refresh worker, and who may begin one: the *)
(* initialization, the user, a daily timer and changes of the network.     *)
(* src/src/bz-application.c, src/src/refresh-worker.c.                     *)
(*                                                                         *)
(* A synchronization is two futures, one for the refresh worker and what   *)
(* is read back from its files, one for the state of Flathub, and the      *)
(* callbacks that hang on them.  It is live until it has ended or its last *)
(* reference is dropped: then no callback of it is called any more, while  *)
(* the worker, a process, goes on.  The application may crash or be closed *)
(* at any time and be started again, by a later version too.               *)
(*                                                                         *)
(* Left out: what is shown besides busy and syncing, and the check for     *)
(* updates.  The catalog is a single thing here, it is there or not.       *)
(***************************************************************************)
EXTENDS Integers, FiniteSets

CONSTANTS
    MaxSyncs,       \* bounds the synchronizations
    MaxFlips,       \* bounds the changes of the network
    MaxLaunches     \* bounds the starts of the application

ASSUME BoundsAssumption == MaxSyncs \in Nat /\ MaxFlips \in Nat /\ MaxLaunches \in Nat

Syncs == 1..MaxSyncs
NoSync == 0

VARIABLES
    phase,      \* of the application
    state,      \* self->state: what is shown, and the network
    opened,     \* ready_to_open_files is resolved
    timers,     \* how many scheduled_timeout_cb are to come
    sync,       \* self->sync
    live,       \* the synchronizations whose callbacks will be called
    worker,     \* the refresh worker of each
    back, flat, \* how far the two futures of each are
    tmp, shown, \* self->tmp_flathub, self->flathub
    loaded,     \* there are groups in memory
    disk,       \* the cache directory
    fresh,      \* "last-refresh-time" is less than three hours ago
    dropped,    \* history: the last synchronization was dropped, and none begun
    masked,     \* history: the groups were not saved, or without being read
    used, flips, launches

memory == <<phase, state, opened, timers, sync, live, back, flat, tmp, shown,
            loaded, dropped>>
vars == <<memory, worker, disk, fresh, masked, used, flips, launches>>

Phases == {"off", "checking", "wiping", "versioning", "loading", "loaded",
           "failed", "ready"}

TypeOK ==
    /\ phase \in Phases
    /\ state \in [busy : BOOLEAN, syncing : BOOLEAN, manual : BOOLEAN,
                  connected : BOOLEAN, metered : BOOLEAN]
    /\ opened \in BOOLEAN
    /\ timers \in 0..flips
    /\ sync \in Syncs \cup {NoSync}
    /\ live \subseteq Syncs
    /\ worker \in [Syncs -> {"none", "running", "torn", "good", "bad"}]
    /\ back \in [Syncs -> {"none", "worker", "entries", "groups", "good", "bad"}]
    /\ flat \in [Syncs -> {"none", "fetching", "caching", "good", "bad"}]
    /\ tmp \in Syncs \cup {NoSync} /\ shown \in Syncs \cup {NoSync}
    /\ loaded \in BOOLEAN
    /\ disk \in [outdated : BOOLEAN, filled : BOOLEAN, groups : BOOLEAN]
    /\ fresh \in BOOLEAN /\ dropped \in BOOLEAN /\ masked \in BOOLEAN
    /\ used \in 0..MaxSyncs /\ flips \in 0..MaxFlips /\ launches \in 0..MaxLaunches

Blank == [k \in Syncs |-> "none"]
Dark == [busy |-> TRUE, syncing |-> FALSE, manual |-> FALSE,
         connected |-> FALSE, metered |-> FALSE]

Init ==
    /\ phase = "off" /\ state = Dark /\ opened = FALSE /\ timers = 0
    /\ sync = NoSync /\ live = {} /\ worker = Blank /\ back = Blank /\ flat = Blank
    /\ tmp = NoSync /\ shown = NoSync /\ loaded = FALSE
    /\ disk = [outdated |-> FALSE, filled |-> FALSE, groups |-> FALSE]
    /\ fresh = FALSE /\ dropped = FALSE /\ masked = FALSE
    /\ used = 0 /\ flips = 0 /\ launches = 0

-----------------------------------------------------------------------------
(* Starts and ends of the application *)

\* bz_application_constructed, init_fiber up to the look at the cache.  A
\* version with another CACHE_VERSION finds that of the cache outdated.
StartUp(newVersion, connected, metered) ==
    /\ phase = "off"
    /\ launches < MaxLaunches /\ launches' = launches + 1
    /\ phase' = "checking"
    /\ state' = [Dark EXCEPT !.connected = connected, !.metered = metered]
    /\ disk' = [disk EXCEPT !.outdated = @ \/ newVersion]
    /\ UNCHANGED <<opened, timers, sync, live, worker, back, flat, tmp, shown, loaded,
                   fresh, dropped, masked, used, flips>>

\* The process ends.  A worker is not ended with it.
ProcessEnds ==
    /\ phase # "off"
    /\ phase' = "off" /\ state' = Dark /\ opened' = FALSE /\ timers' = 0
    /\ sync' = NoSync /\ live' = {} /\ back' = Blank /\ flat' = Blank
    /\ tmp' = NoSync /\ shown' = NoSync /\ loaded' = FALSE /\ dropped' = FALSE
    /\ UNCHANGED <<worker, disk, fresh, masked, used, flips, launches>>

\* Three hours pass.
Age ==
    /\ fresh
    /\ fresh' = FALSE
    /\ UNCHANGED <<memory, worker, disk, masked, used, flips, launches>>

-----------------------------------------------------------------------------
(* init_fiber *)

InitStep(from, to) ==
    /\ phase = from
    /\ phase' = to
    /\ UNCHANGED <<state, timers, sync, live, back, flat, tmp, shown, dropped,
                   used, flips, launches>>

\* Mutant: the time of the last refresh outlives the catalog.
CheckVersionKept(wipe) ==
    /\ disk.outdated => wipe
    /\ InitStep("checking", IF wipe THEN "wiping" ELSE "versioning")
    /\ UNCHANGED <<opened, worker, loaded, disk, fresh, masked>>

\* The file "cache-version" is compared.  If it cannot be read the cache is
\* taken to be outdated.
CheckVersion(wipe) ==
    /\ disk.outdated => wipe
    /\ InitStep("checking", IF wipe THEN "wiping" ELSE "versioning")
    /\ fresh' = (fresh /\ ~ wipe)
    /\ UNCHANGED <<opened, worker, loaded, disk, masked>>

\* bz_reap_file_dex: what a running worker wrote goes too.
Wipe ==
    /\ InitStep("wiping", "versioning")
    /\ disk' = [disk EXCEPT !.filled = FALSE, !.groups = FALSE]
    /\ worker' = [k \in Syncs |-> IF worker[k] = "running" THEN "torn" ELSE worker[k]]
    /\ UNCHANGED <<opened, loaded, fresh, masked>>

\* The file "cache-version" is written, if that works.
WriteVersion(works) ==
    /\ InitStep("versioning", "loading")
    /\ disk' = [disk EXCEPT !.outdated = @ /\ ~ works]
    /\ UNCHANGED <<opened, worker, loaded, fresh, masked>>

\* enumerate_disk_groups_fiber, and the cached state of Flathub: if both can
\* be read, files may be opened at once.
LoadGroups(groupsRead, flathubRead) ==
    /\ InitStep("loading", "loaded")
    /\ loaded' = (disk.groups /\ groupsRead)
    /\ opened' = (loaded' /\ flathubRead)
    /\ UNCHANGED <<worker, disk, fresh, masked>>

\* There is no backend: init_fiber_finally shows the error.
InitFails ==
    /\ phase = "loading"
    /\ phase' = "failed"
    /\ state' = [state EXCEPT !.busy = FALSE]
    /\ UNCHANGED <<opened, timers, sync, live, worker, back, flat, tmp, shown, loaded,
                   disk, fresh, dropped, masked, used, flips, launches>>

-----------------------------------------------------------------------------
(* Beginning a synchronization *)

Pending == sync \in live

\* dex_clear of self->sync: nobody else refers to its future.
Dropped(S) == S \ {sync}

\* make_sync_future, when those of S are still referred to, with its worker
\* and a new tmp_flathub in the place of the one before.
MakeSync(S) ==
    /\ used < MaxSyncs
    /\ used' = used + 1
    /\ sync' = used'
    /\ live' = S \cup {used'}
    /\ state' = [state EXCEPT !.manual = FALSE, !.syncing = TRUE]
    /\ worker' = [worker EXCEPT ![used'] = "running"]
    /\ back' = [k \in Syncs |-> IF k = used' THEN "worker"
                                ELSE IF k \in S THEN back[k] ELSE "none"]
    /\ flat' = [k \in Syncs |-> IF k = used' THEN "fetching"
                                ELSE IF k \in S THEN flat[k] ELSE "none"]
    /\ tmp' = used'
    /\ dropped' = FALSE

\* Nobody refers to the synchronization any more, and none is begun.
DropSync ==
    /\ sync' = NoSync
    /\ live' = Dropped(live)
    /\ back' = [k \in Syncs |-> IF k = sync THEN "none" ELSE back[k]]
    /\ flat' = [k \in Syncs |-> IF k = sync THEN "none" ELSE flat[k]]
    /\ UNCHANGED <<worker, tmp, used>>

\* init_fiber_finally: self->sync is set without dropping what was there.
InitSync ==
    /\ phase = "loaded"
    /\ ~ state.metered \/ ~ loaded
    /\ ~ fresh
    /\ MakeSync(live)
    /\ phase' = "ready"
    /\ UNCHANGED <<opened, timers, shown, loaded, disk, fresh, masked, flips, launches>>

InitSkip ==
    /\ phase = "loaded"
    /\ (state.metered /\ loaded) \/ fresh
    /\ state' = [state EXCEPT !.manual = TRUE, !.busy = FALSE, !.syncing = FALSE]
    /\ opened' = TRUE
    /\ phase' = "ready"
    /\ UNCHANGED <<timers, sync, live, worker, back, flat, tmp, shown, loaded, disk,
                   fresh, dropped, masked, used, flips, launches>>

\* bz_application_sync_remotes_action, which "allow-manual-sync" enables.
Manual ==
    /\ state.manual
    /\ ~ Pending
    /\ MakeSync(Dropped(live))
    /\ UNCHANGED <<phase, opened, timers, shown, loaded, disk, fresh, masked, flips,
                   launches>>

\* Mutant: a synchronization that is still going on is dropped.
PeriodicAlways ==
    /\ phase = "ready"
    /\ IF state.connected /\ ~ state.metered
       THEN MakeSync(Dropped(live))
       ELSE DropSync /\ UNCHANGED <<state, dropped>>
    /\ UNCHANGED <<phase, opened, timers, shown, loaded, disk, fresh, masked, flips,
                   launches>>

\* periodic_timeout_cb
Periodic ==
    /\ phase = "ready"
    /\ ~ Pending
    /\ IF state.connected /\ ~ state.metered
       THEN MakeSync(Dropped(live))
       ELSE DropSync /\ UNCHANGED <<state, dropped>>
    /\ UNCHANGED <<phase, opened, timers, shown, loaded, disk, fresh, masked, flips,
                   launches>>

\* scheduled_timeout_cb, which does not look whether one is going on.
Scheduled ==
    /\ timers > 0
    /\ timers' = timers - 1
    /\ IF state.connected
       THEN MakeSync(Dropped(live))
       ELSE DropSync /\ dropped' = (dropped \/ Pending) /\ UNCHANGED state
    /\ UNCHANGED <<phase, opened, shown, loaded, disk, fresh, masked, flips, launches>>

Better(connected, metered) ==
    \/ ~ state.connected /\ connected /\ ~ metered
    \/ state.metered /\ ~ metered

\* Mutant: changes count while the application is busy, too.
NetworkChangesBusy(connected, metered) ==
    /\ phase # "off"
    /\ flips < MaxFlips /\ flips' = flips + 1
    /\ timers' = IF Better(connected, metered) THEN timers + 1 ELSE timers
    /\ state' = [state EXCEPT !.connected = connected, !.metered = metered]
    /\ UNCHANGED <<phase, opened, sync, live, worker, back, flat, tmp, shown, loaded,
                   disk, fresh, dropped, masked, used, launches>>

\* network_status_changed
NetworkChanges(connected, metered) ==
    /\ phase # "off"
    /\ flips < MaxFlips /\ flips' = flips + 1
    /\ timers' = IF ~ state.busy /\ Better(connected, metered) THEN timers + 1 ELSE timers
    /\ state' = [state EXCEPT !.connected = connected, !.metered = metered]
    /\ UNCHANGED <<phase, opened, sync, live, worker, back, flat, tmp, shown, loaded,
                   disk, fresh, dropped, masked, used, launches>>

-----------------------------------------------------------------------------
(* What a synchronization does *)

\* The refresh worker writes the entries it retrieved and exits.
WorkerExits(k, result) ==
    /\ worker[k] \in {"running", "torn"}
    /\ worker' = [worker EXCEPT ![k] = result]
    /\ disk' = [disk EXCEPT !.filled = @ \/ (result = "good" /\ worker[k] = "running")]
    /\ UNCHANGED <<memory, fresh, masked, used, flips, launches>>

BackStep(k, from, to) ==
    /\ k \in live /\ back[k] = from
    /\ back' = [back EXCEPT ![k] = to]
    /\ UNCHANGED <<phase, state, opened, timers, sync, live, worker, flat, tmp, shown,
                   fresh, dropped, used, flips, launches>>

\* backend_sync_finally
BackendSync(k) ==
    /\ worker[k] \in {"good", "bad"}
    /\ BackStep(k, "worker", IF worker[k] = "good" THEN "entries" ELSE "bad")
    /\ UNCHANGED <<loaded, disk, masked>>

\* enumerate_disk_entries_fiber; backend_sync_save_groups_finally comes
\* whether or not it works.
EnumerateEntries(k, works) ==
    /\ BackStep(k, "entries", "groups")
    /\ loaded' = (loaded \/ works)
    /\ masked' = (masked \/ ~ works)
    /\ UNCHANGED disk

\* cache_groups_fiber, which resolves whether or not it works.
SaveGroups(k, works) ==
    /\ BackStep(k, "groups", "good")
    /\ disk' = IF works THEN [disk EXCEPT !.groups = loaded] ELSE disk
    /\ masked' = ((works /\ masked /\ ~ loaded) \/ ~ works)
    /\ UNCHANGED loaded

\* initialize_fiber of the Flathub state, and flathub_update_finally: the new
\* state takes the place of the old.
FlathubUpdated(k) ==
    /\ k \in live /\ flat[k] = "fetching"
    /\ flat' = [flat EXCEPT ![k] = "caching"]
    /\ shown' = tmp
    /\ tmp' = NoSync
    /\ UNCHANGED <<phase, state, opened, timers, sync, live, back, loaded, dropped,
                   worker, disk, fresh, masked, used, flips, launches>>

FlathubFails(k) ==
    /\ k \in live /\ flat[k] = "fetching"
    /\ flat' = [flat EXCEPT ![k] = "bad"]
    /\ tmp' = NoSync
    /\ UNCHANGED <<phase, state, opened, timers, sync, live, back, shown, loaded,
                   dropped, worker, disk, fresh, masked, used, flips, launches>>

\* cache_flathub_fiber, which resolves whether or not it works.
CacheFlathub(k) ==
    /\ k \in live /\ flat[k] = "caching"
    /\ flat' = [flat EXCEPT ![k] = "good"]
    /\ UNCHANGED <<phase, state, opened, timers, sync, live, back, tmp, shown, loaded,
                   dropped, worker, disk, fresh, masked, used, flips, launches>>

\* dex_future_all: both have settled; it is resolved if both are.
Settled(k) == back[k] \in {"good", "bad"} /\ flat[k] \in {"good", "bad"}
Succeeded(k) == back[k] = "good" /\ flat[k] = "good"

SyncEnd(k) ==
    /\ k \in live /\ Settled(k)
    /\ live' = live \ {k}
    /\ back' = [back EXCEPT ![k] = "none"]
    /\ flat' = [flat EXCEPT ![k] = "none"]
    /\ state' = [state EXCEPT !.manual = TRUE, !.busy = FALSE, !.syncing = FALSE]
    /\ fresh' = (fresh \/ Succeeded(k))
    /\ UNCHANGED <<phase, timers, sync, worker, tmp, shown, loaded, disk, dropped,
                   masked, used, flips, launches>>

\* Mutant: files are opened once there is a new catalog.
SyncFinallyOnSuccess(k) ==
    /\ SyncEnd(k)
    /\ opened' = (opened \/ Succeeded(k))

\* sync_finally
SyncFinally(k) ==
    /\ SyncEnd(k)
    /\ opened' = TRUE

Initialize ==
    \/ \E wipe \in BOOLEAN : CheckVersion(wipe)
    \/ Wipe
    \/ \E works \in BOOLEAN : WriteVersion(works)
    \/ \E groupsRead, flathubRead \in BOOLEAN : LoadGroups(groupsRead, flathubRead)
    \/ InitFails \/ InitSync \/ InitSkip

Callback(k) ==
    \/ BackendSync(k)
    \/ \E works \in BOOLEAN : EnumerateEntries(k, works) \/ SaveGroups(k, works)
    \/ CacheFlathub(k)
    \/ SyncFinally(k)

External ==
    \/ ProcessEnds \/ Age \/ Manual
    \/ \E newVersion, connected, metered \in BOOLEAN : StartUp(newVersion, connected, metered)
    \/ \E connected, metered \in BOOLEAN : NetworkChanges(connected, metered)
    \/ \E k \in Syncs :
        \/ FlathubUpdated(k) \/ FlathubFails(k)
        \/ \E result \in {"good", "bad"} : WorkerExits(k, result)

Next ==
    \/ Initialize
    \/ External
    \/ Periodic \/ Scheduled
    \/ \E k \in Syncs : Callback(k)

Spec == Init /\ [][Next]_vars

\* The main loop calls callbacks and runs fibers that can run.  The
\* initialization may wait for the user; neither a worker nor a request to
\* Flathub has to end.
Fairness == \A k \in Syncs : WF_vars(Callback(k))

FairSpec == Spec /\ Fairness

-----------------------------------------------------------------------------
(* Properties *)

\* A synchronization that awaits the state of Flathub awaits the one in
\* tmp_flathub, so what is shown has been fetched, and the assertion of
\* flathub_update_finally holds: make_sync_future and init_fiber_finally
\* never run beside a synchronization that is still referred to, although
\* four callers decide for themselves.  bz-application.c:2418-2424, 2550, 4313.
OwnCatalog ==
    /\ \A k \in live : flat[k] = "fetching" => tmp = k
    /\ shown # NoSync => flat[shown] # "fetching"

\* The application shows that it is synchronizing exactly while it does, and
\* lets the user begin one exactly when it does not, except that
\* scheduled_timeout_cb dropped one and had no connection to begin another.
\* bz-application.c:2428-2430, 2604-2609, 2975, 3002, 4287-4290.
SyncingShown ==
    /\ phase \in {"ready", "failed"} => (state.syncing <=> live # {} \/ dropped)
    /\ phase = "ready" => (state.manual <=> ~ state.syncing)

\* A start that trusts last-refresh-time finds the catalog of that refresh,
\* whatever was interrupted meanwhile, an upgrade that empties the cache
\* included; only a failure that is masked may have kept the groups from
\* being saved.  bz-application.c:1242-1264, 2521-2535, 2611-2614.
RefreshKept == fresh => disk.filled /\ (disk.groups \/ masked)

\* At most one synchronization is referred to, the one in self->sync; what was
\* not begun or is not referred to any more awaits nothing.
Single ==
    /\ live \subseteq {sync}
    /\ sync <= used /\ tmp <= used /\ shown <= used
    /\ \A k \in Syncs \ live : back[k] = "none" /\ flat[k] = "none"

\* Until it is initialized the application is busy, so that no timer runs and
\* nobody begins a synchronization.
BusyUntilReady ==
    phase \notin {"ready", "failed"} =>
        /\ state.busy /\ ~ state.syncing /\ ~ state.manual
        /\ live = {} /\ timers = 0 /\ ~ dropped

\* One that was dropped is not going on.
DroppedGone == dropped => live = {}

\* What has been read back from the worker's files is on the disk, and in
\* memory, unless that failed behind a mask.
ReadBack ==
    /\ phase = "wiping" => ~ fresh
    /\ \A k \in live :
        /\ worker[k] # "torn"
        /\ worker[k] = "good" \/ back[k] \in {"entries", "groups", "good"} => disk.filled
        /\ back[k] = "groups" => loaded \/ masked
        /\ back[k] = "good" => disk.groups \/ masked

\* The inductive invariant.
IInv ==
    /\ TypeOK /\ Single /\ BusyUntilReady /\ DroppedGone /\ ReadBack
    /\ OwnCatalog /\ SyncingShown /\ RefreshKept

\* A worker or a request to Flathub never ends.
GoesOn(k) == [](k \in live /\ (worker[k] = "running" \/ flat[k] = "fetching"))

\* Once initialized, the application comes to open the files it was given and
\* to stop showing that it is synchronizing, unless it is ended, a worker or a
\* request goes on for ever, or a synchronization was dropped later: the first
\* one is not dropped, as the application is busy until it ends.
\* bz-application.c:2257, 2617, 3027.
FilesOpened ==
    phase = "ready" ~>
        \/ opened /\ (~ state.syncing \/ dropped)
        \/ phase = "off"
        \/ \E k \in Syncs : GoesOn(k)
=============================================================================
