# Spaced Bazaar: verification

Spaced Bazaar is a GTK application for installing, updating and removing
Flatpak applications. Nearly everything it does runs in libdex *fibers*: stackful
coroutines that give up their thread where they await a future. There is little
locking and a lot of interleaving: what a fiber read before an await may have
changed after it. This directory models the parts of the program where that
matters, checks the models with TLC on small instances, and proves the main
invariants for instances of every size with TLAPS.

    tlc -workers 2 -config MCEntryCache.cfg MCEntryCache
    tlapm EntryCacheProofs.tla

## 1. The system

Paths are relative to the repository; `src/src/` in the comments of the modules
is its `src/` directory.

| component | state it keeps | operations | interacts with |
|---|---|---|---|
| **entry cache manager** `src/bz-entry-cache-manager.c` | `writing_hash`, `reading_hash`, `alive_hash`, a record (`LivingEntryData`) with a weak reference and a gate per checksum, write slots with `ongoing_queued`, one file per checksum | `add`, `get`, `enumerate_disk`, the periodic watch that prunes records | gates of `src/util.h`; called by the application, the map factory and the refresh worker from several threads |
| **transaction manager** `src/bz-transaction-manager.c` | `queue`, `current`, the dispatch loop (`queue`→`dispatch_next`→`then_loop_cb`), `paused`, the list of transactions | `add` (with merging), `clear_finished`, `set_paused`, `cancel_current` | gives transactions to the backend, reports to views, runs hooks |
| **transaction, entry** `src/bz-transaction.c`, `src/bz-entry.c` | entries to install, update and remove; trackers; the *hold* counter of an entry | merge, hold, release, task and tracker updates | the manager, the cache (a held entry is not cached) |
| **download worker** `src/bz-download-worker.c`, `src/dl-worker.c` | default workers and whose turn it is; per worker a subprocess, two pipes, `waiting` (promise by destination), `write_gate` | `invoke`, `get_default`, `reap`, the monitor; in the subprocess `read_stdin` and `download_fiber` | called by textures from any thread |
| **flatpak backend** `src/bz-flatpak-instance.c` | installations and their monitors, mute counters, cancellables per entry, notification channels | `schedule_transaction`, `cancel_task_for_entry`, retrieval of entries and updates, notifications | transaction manager (a channel per run), application (a channel of events) |
| **application** `src/bz-application.c` | installed set, entry groups, `sync` (the synchronization), `tmp_flathub`, the cache directory, "last-refresh-time", counters of incoming entries and syncing remotes | the fiber that answers backend notifications, start-up, the synchronization of the catalog (`make_sync_future`) and its four callers, actions | everything above |
| **refresh worker** `src/refresh-worker.c` | none: a process that fills the cache | `run` | started by a synchronization; outlives the application |
| **entry groups** `src/bz-entry-group.c` | `unique_ids` with `state_flags` beside them, counters of installable and removable members | `add`, `reconcile_with_installed_set`, the load loop, the signals `installed` and `holding` of members | application, cache |
| **async texture** `src/bz-async-texture.c` | loads in progress, retries, two rate limits | `ensure`, load fiber, cancellation | download worker, gates |
| **daemon** `src/bazaar-daemon.c` | idle and update timers, children | D-Bus methods, timers, exits of children | starts the application and the update worker |
| search engine, content provider, hooks, login, parsers, widgets | data, one future each | see PROJECT.json | the application |

What makes the behaviour hard, and for each component what correctness means:

* *cache*: four kinds of guard are taken in nested order by fibers of several
  threads while the sweep throws records away. Correct means: a file has one user
  at a time, an entry one living object, no circle of waiting, every promise
  settled, every answer about the checksum that was asked for.
* *transactions*: requests arrive while others run, are merged in place, and
  the end of a run must start the next. Correct means: one run at a time, no
  request lost, answered twice or slept through, holds on entries balanced.
* *downloads*: answers carry only a destination, calls replace each other,
  subprocesses die. Correct means: every registered call is settled once, with
  success only if it is true, and nobody waits on a table no one will read.
* *backend*: several jobs of one run share a channel that is closed when the
  first fails; monitors are muted around own operations. Correct means: the
  outcome that is reported is the truth, an operation is shown and settled once,
  a cancellation reaches what runs and nothing else, nobody is told of external
  changes that were ours.
* *entry groups*: a group keeps names and, beside them, flags; its entries come and
  go as objects, are held by transactions, and are written back to the cache by
  every handler. Correct means: what the group offers, what the files say and
  what the objects say follow the installed set.
* *application*: notifications queue up behind one fiber, which reads the
  installations and the cache across awaits and overwrites the installed set
  when it comes back. Correct means: the Library and the installed set agree, and
  agree with the installations when all is quiet.
* *catalog*: a synchronization is begun by the start, the user, a daily timer and
  a better network, each with its own look at what is going on, and lasts over a
  process, several fibers and a request. Correct means: it finishes with its own
  results, what is shown is what goes on, and a start that skips it because it was
  done lately finds what it made.
* *textures*: a load races a timeout, fails and counts, and what was loaded is
  shared by a table whose releases are not counted. Correct means: one load at a
  time, every load ends, nothing stays in the table for nobody.
* *daemon*: timers, calls and exits of children drive one decision to leave.
  Correct means: it never leaves an application alone, kills nobody else's
  process, and leaves at some time.

`PROJECT.json` lists every component with its status, and under `hazards` every
place where this bites, at its line, with the properties that cover it.

## 2. The models

### EntryCache (with CacheService)

One process per call (`Tasks`) plus the sweep (`Sweeper`). A **gate** is the
sequence of fibers that began a guard on it: `BZ_BEGIN_GUARD` chains the
finished-future of the one before, so the head is inside and `bz_clear_guard`
lets the next in. `Arrive` is the begin, under the gate's mutex; the guarded
section is the next action of the fiber, enabled when it is `First`. Between
awaits a fiber takes one action. `pc` labels name the section that comes next
(`wreg`: register in `writing_hash`, `rfresh`: second look at the record, ...).

| source | model |
|---|---|
| `writing_hash`, `reading_hash` | `writing`, `reading`: the fiber that owns the promise |
| `alive_hash`, `LivingEntryData.wr`, `.gate` | `alive`, `wr`, `queue[r]` |
| `ongoing_queued[]`, write gates | `queued`, `queue[s]` for a slot |
| existing `BzEntry` objects | `about` (the checksum), `Forget` is finalization |
| `write_task_fiber` | `EnterSlot` .. `FinishWrite` |
| `read_task_fiber` | `CheckWriting` .. `ReadFollowed` |
| `watch_work_fiber` | `Wake` .. `EndScan`, `left` being the rest of the iteration |

A file's contents, serialization and error texts are left out; a write or a load
may fail at any time. `CacheService` is the cache without gates and tables, as
callers see it: `file` has one user, `entry` one object, an answer is that
object. `ServiceSpec` shows EntryCache to implement it.

### TransactionManager (with SerialTransactions)

The main thread only: an action is a call, a fiber between awaits, or a future's
callback. A caller's `BzTransaction` is a request; the `QueuedScheduleData` made
for one is a *batch* named after it, to which later requests are merged
(`content`). `DispatchNext` is `dispatch_next` with its three outcomes, shared by
`add`, `set_paused` and `then_loop_cb` as in the code. `hold` counts
`bz_transaction_hold` minus `bz_transaction_release` per entry, once per request.
`SerialTransactions` promises: what waits starts together, one group at a time,
every member gets the outcome of its group. The manager is paused and unpaused at
any moment. An unpause with an empty queue drops the loop under a run
(`Stalled`); the run may go on in the backend, but to callers it does not end.

### DownloadWorker

Per call a fiber (`pc`), per worker its object, subprocess, pipes (`stdin`,
`stdout`), table (`waiting`) and line for the pipe (`gate`). `Call` is
`bz_download_worker_get_default` with `bz_download_worker_invoke`, replacement of
defaults included: the worker that loses its last reference is disposed of at
once and its promises rejected. `Exit` may happen at any time (crash, kill, end
of input); `Notice` is GLib learning of it later, which is what
`g_subprocess_get_identifier` answers by. A line may be in the pipe, a download
under way and an answer in the other pipe when anything else happens, and the
answer settles whoever waits for the destination then.

### FlatpakRun and TransactionRun (with OperationStream)

`FlatpakRun` is one call of `bz_flatpak_instance_schedule_transaction` after the
other: the fiber (`phase`), its jobs, and the callbacks that flatpak makes from
the thread of each job. A job is named by the entries it is for, since updates
of one installation share a `FlatpakTransaction`; an operation is a pair of an
entry and a part (the application, a runtime it needs), because one entry may
bring several operations and each sends its own payload.

| source | model |
|---|---|
| `ensure_runtime_remote_fiber`, once for each entry from a bundle | `EnsureRemote` |
| `transaction_fiber`, up to the jobs | `BuildFails`, `Launch` |
| `transaction_job_fiber`, `flatpak_transaction_run` | `Ready`, `JobSucceeds`, `JobFails` |
| `transaction_new_operation`, `_operation_done`, `_operation_error` | `NewOperation`, `OperationDone`, `OperationError` |
| `dex_future_all_racev` and what follows it | `RaceOver`, `FlushOver` |
| `transaction_operation_done_fiber` | `DoneFiber` |
| `ongoing_cancellables` | `ongoing`, a set of runs for each entry; `CancelTask` |
| `user_mute`, `system_mute`, `installation_event` | `mute`, `events`, `InstallationEvent` |
| the channel of a transaction | `sent`, `closed`; a send on a closed one is lost |

`dex_future_all_racev` ends at the first failure while the other jobs go on, with
a channel that is about to be closed and a cancellable that is no longer
registered: `JobStep` does not look at `phase`. The monitors cannot tell who changed
an installation. An operation mutes its own change; the remote that is added for a
bundle before the jobs begin (2246) is not muted, so the application is told of it as
of another program's change. `unheard` counts both kinds, less those that were
reported (`Loud`). `TransactionRun` adds the manager's
fiber, which reads the channel (`Receive`: a payload is a new task when it comes
first and the end of it when it comes again) and concludes at its end.
`OperationStream` is what views are promised: an operation turns up, is settled
once, and a success has no operation that was not finished. `StreamSpec` is that
TransactionRun implements it; variables and names are the same, so the
mapping is the identity on `task` and `outcome`.

### Library

The fiber that responds to notifications, `respond_to_flatpak_fiber`, the one that
visits the cache after a synchronization, `enumerate_disk_entries_fiber`, and what they
keep: `installedSet` (`self->installed_set`), `listed` (`self->installed_apps`)
and `known` (the entries that are in their groups; the cache may have others).
`queue` is the channel; `transit` are done fibers that have not sent yet, so
notifications may overtake each other. A run that succeeds has waited for those of its
own; one that fails leaves behind jobs whose operations, and whose fibers, come between
or after those of later runs (`loose`). `at` is the order of the changes.

| source | model |
|---|---|
| a handler that awaits nothing but the reading of its entry | one action |
| an external change: the two reads of the installations | `BeginRefresh`, `ReadSystem`, `ReadUser`, while they change |
| the diff, after the await at 2134 | `ApplyDiff`, which leaves `phase` at `"writing"` |
| the end of the await at 2195, and the new set | `AdoptSet` |
| `fiber_replace_entry`, called at 1665 | `BeginVisit`, its look at the set; `EndVisit`, after a wait for a runtime, `ensure_group_and_add` |

A visit is no notification: it may begin and end at any moment of a refresh, so between
`ApplyDiff` and `AdoptSet`, when the list is that of the new set already (`Current`)
and the set is the old one. Then it lists a group that was just taken away.

Two history variables name what the code does not handle, so that the
invariants say precisely when they hold: `blurred`, entries that were left
out (an update of an entry that the set did not have, a rebase that takes the
whole application out of the list, a failed read before `ApplyDiff`, after which the
set is replaced all the same, a visit that listed an entry, or did not, by what the
set no longer says); `missed`, that a change has not reached the application (the
event met a muted monitor or came before the channel, a read failed, a done
notification came after a refresh that had seen more, or after that of a later change
of its entry). `ReadSystem` begins a
fresh look and clears `missed`. No guard reads them.

### CatalogSync

`init_fiber` with its callback, `make_sync_future` with all callbacks that hang
on it, its four callers, and the files they leave for the next start.

| source | model |
|---|---|
| `init_fiber`, `init_fiber_finally` | `phase`: `CheckVersion`, `Wipe`, `WriteVersion`, `LoadGroups`, then `InitSync`, `InitSkip` or `InitFails` |
| `self->sync` | `sync`; `live` are the synchronizations somebody refers to, since dropping the last reference is the end of its callbacks |
| `backend_sync_finally`, `enumerate_disk_entries_fiber`, `cache_groups_fiber` | `back[k]`: `BackendSync`, `EnumerateEntries`, `SaveGroups` |
| `flathub_update_finally`, `cache_flathub_fiber` | `flat[k]`: `FlathubUpdated`, `FlathubFails`, `CacheFlathub` |
| `tmp_flathub`, `flathub` | `tmp`, `shown`: which synchronization made them |
| `sync_finally` | `SyncFinally` |
| busy, syncing, allow-manual-sync, the network | `state` |
| the cache directory | `disk`: written by another version, has entries, has groups |
| "last-refresh-time" | `fresh`: it is less than three hours ago |

The worker is a process: it goes on when its synchronization is dropped and when
the application ends, and `Wipe` may take away what it has written (`torn`).
Histories name what the code does not handle: `dropped`, that
`scheduled_timeout_cb` dropped a synchronization that was going on and began none
because the connection was gone again; `masked`, that the groups were not
saved, or without the entries, in a synchronization that succeeded all the same.

### EntryGroup

One group below the handlers of `Library`, with what `Library` leaves out: the
names and flags of the group, the objects of its entries, and their files.

| source | model |
|---|---|
| `unique_ids`, `state_flags` | `ids`, `slots`: a set of flags for each place; the counters are how many places have a flag |
| the properties `installed` and `reinstallable` of an object, and of its file | `object[e].mark`, `file[e]` |
| `bz_entry_group_connect_living` | `life = "bound"`; an object that only the cache knows is `"loose"`; `Forget` is finalization |
| `installed_changed`, `holding_changed` | `AfterInstalled`, `AfterHolding`, applied by `Told`, `Hold`, `Release` |
| `bz_entry_group_add` | `Added`: names move to the front (`FirstPut`), flags stay in their places |
| `dup_all_into_store_fiber` | `BeginLoad`, which remembers the names, and one `LoadEntry` for each of them; the loop itself does not await, so handlers and calls run before or after it (`Idle`) |
| `bz_entry_group_reconcile_with_installed_set` | `Reconciled` |
| the handlers | `InstallDone`, `UpdateDone`, `RemoveDone`, `RebaseDone`, `ReplaceEntry`; a refresh is `ApplyDiff`, then `AdoptSet` |
| `fiber_replace_entry`, called by the enumeration of the cache (1665) | `BeginVisit`, which marks the living object by the set; `EndVisit`, which adds it to the group |
| `bz_entry_cache_manager_add`, which refuses held entries | `WriteBack` |

A handler that waits for the cache is one action, because another handler does not run
meanwhile and what it changes it changes after its last read. A refresh is two: while it
waits for its writes (2195, `writing`) the objects and the group are those of the new
set (`Current`) and the set is the old one. `Step` is what all of them have in common,
and `Aside` says that a handler leaves the refresh alone. Visits are not handlers:
they come at any moment, do not write what they mark, and may wait for a runtime
between the mark and the addition. A write that is under way may still catch a mark
that nobody meant to write (`Caught`). Four history variables name what the code does
not handle: `open`, entries whose place is not to be trusted (nobody connected was there
to tell the group, or what told it was wrong, or an addition moved the names); `odd`,
entries whose holds the group does not know; `stale`, entries whose file missed a change
(the write was refused while they were held, or caught a wrong mark); `misled`, entries
whose object did (among them those that a visit looked up in the old set).

Two of these exceptions are at odds with comments of the code.
`bz_entry_group_add` moves names but not flags (1043-1051), and `LoadEntry` reads
the flags by place: after such a move, or when names move between the beginning of a
load and its loop, an entry that is installed is told that it is not. The comment
at bz-entry-group.c:1510-1515 says that the flags "were reconciled with what is really
installed, so they win". And `Reconciled` marks every entry that is not installed as
installable, a removed bundle too, which bz-application.c:622-630 says "stays not
reinstallable"; the object of a bundle says so, the group does not.

### AsyncTexture

`pc` is where the load fiber of each texture is; `file` and `mark` are the cached or
temporary file and the note beside it; `cache` is `texture_cache`, by source.
`MaybeLoad` is shared by all that ask for an image (`Paint`), and by `Make` if
the texture is not lazy. `DownloadEnds` settles any fiber that awaits the file, or none:
DownloadWorker shows that an answer may be for an earlier call to the
destination. `RetryTimer` only ends the future, see findings.

### Daemon

One action for each callback of the sd-event loop. `childPid` is `child_pid`,
which stands for one child though several may have been started; `overlap`
(history) is that two of them were, and `stayed` (history) that the last idle
timeout found auto-update on. A zombie is a child that has ended and that
`on_child_exit` has not seen.

### MC modules

`MC*.tla` extend a component for TLC and define symmetry sets; constants get
their values in the `.cfg`. Next to some actions stands a *mutant*, marked so: the
action with a plausible slip in it. Mutants are not part of any `Next`; each
property has one which, put in place of the action, makes its run fail.

## 3. The runs

| run | instance | shows |
|---|---|---|
| `cache` | 3 calls of any kind, 2 checksums, 1 slot, 2 records, 2 objects, the sweep | `FileExclusion`, `OneLivingObject`, `NoCircularWait`, `OwnerOfAwaited`, `WriteLimit`, `RecordAgreement`, `QueuedCount`, no deadlock |
| `cache_live` | 2 calls again and again, 1 checksum, 2 slots | `CallsReturn`, `SweepsEnd`, implementation of `CacheService` |
| `transactions` | 3 requests on 2 entries, paused and unpaused at will | `QueuedOnList`, `HoldBalance`, `NoSleepingQueue`, `AddedServed`, implementation of `SerialTransactions`, no deadlock |
| `unpause_stall` | 3 requests, pausing | *fails* `AddedAnswered`: see findings |
| `transaction_run` | 1 transaction of 2 entries, one a bundle that may bring a remote, 1 operation each, 1 change of others unheard of at a time | `TruthfulSuccess`, `TruthfulFailure`, `CancellableWhileRaced`, `NoEcho`, `RunEnds`, implementation of `OperationStream` |
| `downloads` | 2 calls to 2 destinations, 1 default of 2 workers, room for 1 line | `TableOfPending`, `HonestAnswer`, `NoVainWait`, `SettledOnce`, `CallsSettle` |
| `library` | 1 application installed in 2 places, 2 changes, 3 synchronized or visited entries | `LibraryFollows`, `QuietAgrees` |
| `catalog` | 2 starts, 3 synchronizations, 2 changes of the network | `OwnCatalog`, `SyncingShown`, `RefreshKept`, `FilesOpened` |
| `groups` | 1 application of 2 entries, one of them a bundle and less useful, with the files of a session or without, 2 notifications or visits, 1 hold each | `FlagsFollow`, `OfferedWhenFree`, `MarksFollow` |
| `textures` | 2 textures of 1 source, 2 retries | `NoLeak`, `LoadEnds` |
| `texture_retry` | 1 texture, 3 retries | *fails* `AnnouncedRetry`: see findings |
| `daemon` | 3 applications, 4 calls, 2 workers | `IdleMeansIdle`, `NeverStranded`, `Exits`, no deadlock |

**Bounds.** Three fibers that meet on one checksum are a writer, the reader that waits for
it or follows another, and one that comes between; each goes back to idle and
calls again, so sequences of calls are not bounded. In `cache` a record or an
object is free when all three work on one checksum, so properties about *the*
record and *the* object can fail; the second checksum shows that nothing is mixed
up between two. The implementation of `CacheService` is checked with one checksum:
what a call does to its own is what the mapping is about. Three
requests are one that runs, one behind it, and one that merges or comes after.
Two calls to one destination replace each other; a second worker is what a dead
default is replaced with, and once both are used up `Call` cannot be answered,
which bounds the runs of the subprocess; a pipe for one line makes the writer wait.
Two entries of one transaction are two jobs (two installs, or an install beside an
update), one of which may fail while the other runs, or one job of two updates,
whose operations follow one another; that they are in one installation
makes them share a mute counter with a change by another program. The two entries of
`library` have one application, where one entry may keep the other listed; two
changes are one of ours whose notification is overtaken, by a refresh that another
program's change makes or by what is done next to the entry; three visits are one of
each entry and one that comes again, begun before a refresh, while it writes, or
after. The same instance with three changes and one visit was checked while the model
was made. Two entries of `groups` are the least whose names
can move, which they do when the less useful one comes first; two notifications or
visits are one that makes something disagree and one that
meets it, a refresh and the visit within it for one. Three synchronizations are one that is dropped, one in its place and one
after a restart; two changes of the network are one that starts the timer of
`scheduled_timeout_cb` and one that takes the connection away before it is over.
Two textures of one source share its cached file and its place in
the table. Three applications are one that overlaps another and one after.
Symmetry is used for safety only, never with `~>`. Deadlock is checked where
something can always happen (the cache, the manager, which may always be paused, the
daemon, whose setting the user may always change). The other runs have finitely many requests, calls,
changes or textures, and stop when all are done.

**Fairness.** Weak fairness of every fiber: libdex schedulers run what is ready,
from a queue; and in `downloads` of the subprocess's reader, a thread of its own.
Nothing is assumed of callers, of `Forget` (finalization), of the sweep's timer,
of pausing, of crashes, of when an exit is noticed, or of unreadable answers.
Neither a run of the backend nor a download has to end, as the code gives them no
time limit: `AddedServed` excepts a run that goes on for ever,
`CallsSettle` a download of the call itself that does (the caller, the texture,
has a timeout of its own for that), each as a `[]` in the property. `LoadEnds` is
that timeout's part: it assumes the fibers, and nothing of downloads or of whether
anybody paints. `RunEnds` assumes that each run goes on by itself (its fiber, its jobs and the
manager's reader, weak fairness for each run) and that flatpak ends what it was asked, which
`AddedServed` then takes as given of a run; nobody need cancel it. `Exits`
assumes the event loop (start, an armed timer, exits of children), not
that applications end. `FilesOpened` assumes that the main loop calls callbacks
that are due: a worker or a request to Flathub may go on for ever, the process
may end, and the initialization may wait for the user.

**Findings.** `unpause_stall`: `bz_transaction_manager_set_paused (self, FALSE)`
calls `dispatch_next`, which clears `self->loop` if the queue is empty although
`self->current` still runs. `then_loop_cb` is lost with it, `self->current` stays
set, and every later request is queued for good, in spite of docs/overview.md:11.
Nothing in the tree sets the `paused` property today.

`texture_retry`: `load_finally` logs "Retrying in %d seconds" and attaches
`retry_cb` to a timeout with `dex_future_then`. A timeout rejects, and
`dex_future_then` calls its function for a future that resolves, so the retry
does not take place; the texture loads again when something paints it. The linger
timeout in the same file uses `dex_future_finally`.

## 4. The proofs

Each `*Proofs.tla` proves `Spec => []IInv` for all values of the constants, from
the component's named assumptions only, and derives the properties from it. There
is one lemma per conjunct of `IInv` (cache, downloads) or per action (manager).

* **EntryCacheProofs**: `FileExclusion` says nothing of queues, but holds because
  of them: who uses a file is first at the record of its checksum (`Guarded`),
  everybody uses the same record (`RecordsAgree`), and a first is unique. That
  records agree needs that the sweep prunes only records no fiber refers to: a
  user is registered in one of the hash tables (`Registered`), or comes through
  the alive gate that the sweep holds (`Guarded`). `OneLivingObject` needs
  that a living object is linked from its record, and that whoever
  decaches has found that link empty under the record's gate (`LivingLinked`).
  `SweepNeverWaits` follows from `Queues`: who is in line at a record is
  registered, and the sweep skips the registered.
  A second invariant, `Accounts`, is inductive relative to `IInv` and looks at the
  tables from the other side: who is registered is at work (`Owners`), so a promise
  that is awaited will be settled (`AwaitedOwned`); who has passed its slot's gate is
  its first (`SlotsKept`), so slots are an injection from the writes under
  way (`WritesLimited`); and the counters are cardinalities (`QueuesCounted`).
  A third one, `Lines`, says who may be in line at which gate. Then fibers rank by what
  they wait for: a table of promises to be written comes lowest, then the one to be
  read, then the records and their table, last a slot or somebody's promise; and who is
  first at a gate, or owns a promise, ranks lower than those who wait for it
  (`RankFalls`). The one exception, the sweep that goes from the three tables to a
  record, is `SweepNeverWaits`. So of every group the lowest waits for nobody in it
  (`NobodyInACircle`), and of those at work the lowest waits for nobody at all
  (`CacheGoesOn`). `SomebodyGoes` is the cache's share in the absence of deadlock, which
  TLC checks for three calls: it says nothing of records and objects, that the model has
  a bounded number of.
  With both, every step is one of `CacheService` or is not seen
  (`ServiceImplemented`). The mapping names the user of a file and the entry of a
  checksum by `CHOOSE`; `FileExclusion` and `LivingLinked` leave it no choice, which
  is what `Seen` says, and the steps are compared through `Seen` alone. A file is
  opened unused because `FileExclusion` holds after the step too.
* **TransactionManagerProofs**: at most one batch waits (`QueueOfOne`), the
  current batch is the only one that may run (`CurrentOnly`), and requests belong
  to exactly one batch (`Merged`), so the holds a batch gives back are those its
  requests took. The counting argument uses cardinalities of finite sets,
  hence `RequestsAssumption`. `QueueAwake` holds with pausing, and says that
  `~ Stalled` is enough for the queue to be served; that the loop may be stalled is
  the finding. `SerialImplemented` needs one more invariant, `Stays`: a run nobody
  awaits any more is that of the current batch, which no loop follows, so no
  second group ever becomes active beside it. `Seen` says what waits, what is
  active and what was answered without the unions and the choice of the mapping.
* **DownloadWorkerProofs**: the table holds exactly the pending promises
  registered at existing workers (`TableOfPending`); every action that settles
  promises takes them from the table, therefore none is settled twice
  (`ToldOnce`, an action property). Lines, downloads and answers are traced to
  their worker (`Traceable`), so success is the truth (`AnswersHonest`), and
  whoever is at the pipe is the head of its line (`InLine`).
  That the line for a pipe moves is a matter of its own: the gate names exactly the
  fibers that are at it, each once (`LineComplete`), so nobody waits behind a fiber that
  has ended (`PipeServed`).

* **TransactionRunProofs**: success is truthful because the channel, the tasks and
  flatpak's state tell one story. `Channel` says, for every operation, which of
  its payloads are in the channel and which were received, as long as nothing is
  sent after the close; `JobsOwn` that operations belong to jobs of the
  plan and changes have a fiber; `EndOfRun` what the fiber knows when the race is
  over: a job failed, or all are good and every announcement still under way is
  among those it waits for. `Muted` counts: events and operations
  under way are no more than mutes and changes that nobody muted and nobody was told
  of, those of others and the remotes of bundles; it needs
  cardinalities, hence `FiniteAssumption`. With `IInv` every step is one of
  `OperationStream` or a stutter (`StreamTheorem`): a `Receive` is a `Show` or a
  `Settle` since `Channel` rules out a third payload.
* **LibraryProofs**: `LibraryFollows` is inductive with the types, since it speaks
  of the set that the list is kept to (`Current`): `AdoptSet` changes nothing of it, and
  a visit whose answer is old by its end makes the entry `blurred`. The
  work is in `ApplyDiff`, whose set expression is split by whether a group lost, won
  or kept entries. `QuietAgrees` speaks of the moment at which nothing is on its
  way, and needs to know of every other moment what is: an account of each entry
  (`Account`). The newest change of an entry that is in transit says what flatpak has
  installed, otherwise the last notification about it in the queue, otherwise what was
  last read (`Agrees`), unless old news of the entry are on their way (`Settled`). That
  there is a newest one is `Ordered`, and a fiber that sends it makes all older ones old
  news, which is how the late fiber of a failed run is caught. Excepted are the
  entries of which a notification was dropped or overtaken, which the property excepts
  too. An account of one entry does not see those of the others, which
  is why there is a lemma for each action and one entry in it.
* **EntryGroupProofs**: the three properties do not hold one by one. That a place
  is offered correctly after a release depends on what the object says when it
  tells the group (`MarksFollow`), on whether its holds reached the group
  (`ObjectsKnown`: who is held exists, and is connected or `odd`), and on
  which places can be installed at all (`InstallableFollows`, which relates the flag to
  object and file). `IInv` is the conjunction. One lemma for each action; those of the
  handlers that set a mark share `MarkedStep` and `ToldStep`. `FirstPutFacts` shows
  that moving a name keeps the names without repetition, and `Members`. All of it
  speaks of `Current`, so `AdoptSet` is a stutter of the invariant; a visit within a refresh
  finds object and set apart and names the entry `misled`, and that its object still
  lives when it is added to the group is part of `ObjectsKnown`. `FlagsOfFacts` are what
  `bz_entry_group_add` makes of a mark, for a new object and for one visited.
* **AsyncTextureProofs**: `NoLeak` needs that tasks and timers belong to what exists
  and that nothing is known of a texture before it is made; the same invariant
  gives `OneLoad` (`OneLoadTheorem`), and that the last retry is not passed.
* **BackgroundProofs**: what goes on without the user. `CatalogSync`: nobody counts
  synchronizations; that the application refers to one at a time follows from everybody looking
  first, or from the application being busy until it is ready (`Single`,
  `BusyUntilReady`). Then a synchronization that goes on is owned, and shown. What
  `RefreshKept` says of the files is traced to the worker that wrote them (`ReadBack`),
  and a dropped worker is never at work again (`DroppedGone`). `Daemon`: an armed
  timer means that no child is remembered, and without overlap the only child not waited
  for is the remembered one. The names of `Daemon` carry its name, because both
  are seen here at once.

Only model-checked: the liveness properties (fairness and `~>` are beyond the
prover). Every invariant, action property and refinement of the passing runs is a
theorem. No module uses RECURSIVE operators.

## 5. Not modelled

* Contents of files and entries, serialization, wording of errors, logging.
* libdex, GLib and the kernel's pipes appear only through what the code
  relies on: fairness of schedulers, FIFO of gates and pipes, `GWeakRef`.
* `bz_transaction_manager_cancel_current` and `bz_async_texture_cancel` (no caller),
  progress reports and what is computed from them (the property `pending`, the
  table of operations that are shown as pending).
* The entry an operation is shown with: `find_entry_from_operation` compares
  flatpak references, see hazards.
* Available updates, labels, versions and add-ons of groups; the updatable flag is
  declared, copied and subtracted in bz-entry-group.c, but never set. The rate limits
  of textures, which only delay.
* In `FlatpakRun`: an operation, or an added remote, makes one event of its monitor, though inotify may
  make more or coalesce them; an entry occurs once in a transaction.
* In `TransactionRun`: the manager begins a transaction when none is running, which
  TransactionManager shows. That jobs of an earlier run may still be going on
  is in the model, that they hold flatpak's lock is not.
* In `Library`: groups are applications; that a done notification can be read is a
  choice of each step (`DropDone`). Which entries the enumeration visits, and how often,
  is left open, in `EntryGroup` too: the code skips those that were made from a bundle's
  file (1655-1658), which an entry that came as a bundle need not be.
* In `EntryCache`: one process. The refresh worker is another and writes files of the
  same names, so `FileExclusion` says nothing of the two together.
* In `AsyncTexture`: `file` and `mark` steer the load fiber, but no property is about
  what they hold.
* In `Daemon`: `IdleMeansIdle` is about launches that do not overlap. An application
  that is launched again while it runs, which hands over to the first and ends, is an
  overlap, and a common one; the daemon may then leave the first alone (see hazards).
* In `CatalogSync`: the catalog is one thing, there or not; the check for updates, the
  progress and whether the program shows itself as online; that somebody else
  deletes the cache directory. What is written to GSettings (`last-refresh-time`) is
  taken to be stored at once. `dex_future_all` is taken to wait for both of its
  futures and to be rejected if one of them was; dropping the last reference to
  a future is taken to end its callbacks at once.
* In `EntryGroup`: the score of an entry is the same for each of its objects, and a saved
  group is already reconciled. A write that a handler makes is over when it takes its
  next step, unless it catches a later mark.
* In `DownloadWorker`, `get_default` and `invoke` are one step, as the only caller
  uses them in one expression; that another thread may dispose of the
  worker in between is listed as a hazard.
* The components marked not modelled in `PROJECT.json`, each with its reason.

## 6. Plan

Done in this order: EntryCache, TransactionManager, DownloadWorker, FlatpakRun with
TransactionRun, Library, AsyncTexture, Daemon, EntryGroup, CatalogSync. What is left:

1. Proofs: an abstract specification of downloads, and that `DownloadWorker`
   implements it. Liveness stays with TLC.
2. Runs that show what the histories now name: names and flags of a group that are
   mixed up, and a synchronization that is shown though nothing goes on.
3. Library: the retrieval of updates and the labels that are counted from it.
4. Retrieval of remotes by the backend, with its counters of incoming entries.
