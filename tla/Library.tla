------------------------------- MODULE Library -------------------------------
(***************************************************************************)
(* What the application knows of installed applications, and how the       *)
(* notifications of the backend change it: src/src/bz-application.c (the   *)
(* fiber that responds to notifications, one after the other, the one that *)
(* enumerates the cache after a synchronization, and the initialization).  *)
(* The backend's side, its done fibers and monitors, is reduced to what it *)
(* sends; what a group keeps of its entries is in EntryGroup.              *)
(*                                                                         *)
(* An entry is an application in one installation; a group is an           *)
(* application, the set of its entries.  The cache may have entries that   *)
(* are in no group yet: another process writes it too.  Whether an entry   *)
(* can be read from it is left open.  Left out: notifications that         *)
(* change labels, versions, add-ons, and which entries can be installed.   *)
(***************************************************************************)
EXTENDS Integers, Sequences, FiniteSets

CONSTANTS
    Entries,
    Twins,          \* those that belong to one application
    UserEntries,    \* those of the user's installation
    MaxChanges,     \* bounds what happens to the installations
    MaxSyncs        \* bounds the entries that synchronization sends and the
                    \* enumeration visits

ASSUME EntriesAssumption == Twins \subseteq Entries /\ UserEntries \subseteq Entries
ASSUME BoundsAssumption == MaxChanges \in Nat /\ MaxSyncs \in Nat

Group(e) == IF e \in Twins THEN Twins ELSE {e}
Groups == {Group(e) : e \in Entries}

VARIABLES
    installed,      \* what is installed, in both installations
    transit,        \* notifications whose fiber has not sent them
    events,         \* changes by others that the monitors have not reported
    leaks,          \* how often the monitors are muted in excess
    queue,          \* flatpak_notifs
    phase,          \* of the application, or of the notification at hand
    snapshot,       \* the set that is being retrieved
    installedSet,   \* self->installed_set
    listed,         \* self->installed_apps
    known,          \* the entries that are in their groups
    visits,         \* the calls of fiber_replace_entry by the enumeration
    blurred,        \* history: entries that a handler did not account for
    missed,         \* history: a change has not reached the application
    changes, syncs  \* how many there were

appVars == <<phase, snapshot, installedSet, listed, known, visits, blurred>>
vars == <<installed, transit, events, leaks, queue, phase, snapshot,
          installedSet, listed, known, visits, blurred, missed, changes, syncs>>

externalVars == <<installed, transit, events, leaks, changes, syncs>>

Refresh == [kind |-> "refresh"]
DoneKinds == {"install", "update", "remove"}
Done == [kind : DoneKinds, entry : Entries, rebased : BOOLEAN, late : BOOLEAN,
         loose : BOOLEAN, at : 0..MaxChanges]
Replacement == [kind : {"replace"}, entry : Entries]
Visit == [entry : Entries, installed : BOOLEAN]
Phases == {"starting", "loading", "idle", "refreshing", "halfway", "diffing", "writing"}

TypeOK ==
    /\ installed \subseteq Entries
    /\ transit \subseteq Done
    /\ events \in Nat /\ leaks \in Nat
    /\ queue \in Seq(Done \cup Replacement \cup {Refresh})
    /\ phase \in Phases
    /\ snapshot \subseteq Entries
    /\ installedSet \subseteq Entries
    /\ listed \subseteq Groups
    /\ known \subseteq Entries
    /\ visits \subseteq Visit
    /\ blurred \subseteq Entries
    /\ missed \in BOOLEAN
    /\ changes \in 0..MaxChanges /\ syncs \in 0..MaxSyncs

Init ==
    /\ installed \in SUBSET Entries
    /\ known \in SUBSET Entries
    /\ transit = {} /\ events = 0 /\ leaks = 0 /\ queue = <<>>
    /\ phase = "starting"
    /\ snapshot = {} /\ installedSet = {} /\ listed = {}
    /\ visits = {} /\ blurred = {}
    /\ missed = FALSE
    /\ changes = 0 /\ syncs = 0

-----------------------------------------------------------------------------
(* The installations and the backend *)

Watched == phase \notin {"starting", "loading"}

Change == changes < MaxChanges /\ changes' = changes + 1

\* A transaction changes an entry; a rebase takes the old one away.  A run
\* that succeeds has sent what it did before the next begins (TruthfulSuccess
\* of TransactionRun).  One that fails waits for no fiber of a job that goes
\* on: what such a job does and its fiber is to send is loose, and may come
\* between, or after, what later runs do to the entry.
OwnChange(e, kind, rebased, loose) ==
    /\ Watched
    /\ Change
    /\ loose \/ \A m \in transit : m.entry = e => m.loose
    /\ kind = "install" \/ e \in installed
    /\ rebased => kind # "install"
    /\ installed' = IF kind = "remove" \/ rebased THEN installed \ {e}
                    ELSE installed \cup {e}
    /\ transit' = transit \cup
          {[kind |-> kind, entry |-> e, rebased |-> rebased, late |-> FALSE,
            loose |-> loose, at |-> changes']}
    /\ UNCHANGED <<events, leaks, queue, appVars, missed, syncs>>

\* An operation that changes nothing, or fails, leaves its monitor muted.
OwnNothing ==
    /\ Watched
    /\ Change
    /\ leaks' = leaks + 1
    /\ UNCHANGED <<installed, transit, events, queue, appVars, missed, syncs>>

\* Another program installs or removes an entry.
ForeignChange(e) ==
    /\ Change
    /\ installed' = IF e \in installed THEN installed \ {e} ELSE installed \cup {e}
    /\ events' = events + 1
    /\ UNCHANGED <<transit, leaks, queue, appVars, missed, syncs>>

\* The end of transaction_operation_done_fiber.  What was done to the entry
\* before and has not been sent is old news from now on.
SendDone(m) ==
    /\ m \in transit
    /\ transit' = {IF n.entry = m.entry /\ n.at < m.at THEN [n EXCEPT !.late = TRUE] ELSE n :
                      n \in transit \ {m}}
    /\ queue' = Append(queue, [m EXCEPT !.loose = FALSE, !.at = 0])
    /\ UNCHANGED <<installed, events, leaks, appVars, missed, changes, syncs>>

\* installation_event: it is for nobody before the application has a
\* channel, and not for the application when the monitor is muted.
MonitorEvent ==
    /\ events > 0
    /\ events' = events - 1
    /\ leaks' = IF leaks > 0 THEN leaks - 1 ELSE 0
    /\ IF leaks = 0 /\ Watched
       THEN queue' = Append(queue, Refresh) /\ UNCHANGED missed
       ELSE missed' = TRUE /\ UNCHANGED queue
    /\ UNCHANGED <<installed, transit, appVars, changes, syncs>>

\* The synchronization of a remote sends an entry.
SyncEntry(e) ==
    /\ Watched
    /\ syncs < MaxSyncs /\ syncs' = syncs + 1
    /\ queue' = Append(queue, [kind |-> "replace", entry |-> e])
    /\ UNCHANGED <<installed, transit, events, leaks, appVars, missed, changes>>

-----------------------------------------------------------------------------
(* The initialization *)

\* The installed entries are retrieved, if that works, and the groups of the
\* last session are reconciled with them.
LoadGroups(ids) ==
    /\ phase = "starting"
    /\ ids \in {installed, {}}
    /\ phase' = "loading"
    /\ installedSet' = ids
    /\ listed' = {g \in Groups : g \cap known \cap ids # {}}
    /\ missed' = (ids # installed)
    /\ UNCHANGED <<externalVars, queue, snapshot, known, visits, blurred>>

\* init_fiber_finally makes the channel.
Watch ==
    /\ phase = "loading"
    /\ phase' = "idle"
    /\ UNCHANGED <<externalVars, queue, snapshot, installedSet, listed, known,
                   visits, blurred, missed>>

\* What bz_entry_group_reconcile_with_installed_set answers.
AnyInstalled(g, ids) == g \cap known \cap ids # {}

\* The groups that there are for some entries: self->ids_to_groups.
GroupsOf(entries) == {g \in Groups : g \cap known # {} /\ g \cap entries # {}}

-----------------------------------------------------------------------------
(* respond_to_flatpak_fiber *)

AtHand(kind) == phase = "idle" /\ queue # <<>> /\ Head(queue).kind = kind

\* Mutant: only removals leave the set.
SetAfterRemovals(m) ==
    IF m.kind = "remove" THEN installedSet \ {m.entry} ELSE installedSet \cup {m.entry}

\* self->installed_set after a notification of what was done.
SetAfter(m) ==
    IF m.kind = "remove" \/ (m.kind = "update" /\ m.rebased)
    THEN installedSet \ {m.entry}
    ELSE installedSet \cup {m.entry}

\* The entry of a notification cannot be read from the cache.
DropDone ==
    /\ phase = "idle" /\ queue # <<>> /\ Head(queue).kind \in DoneKinds
    /\ queue' = Tail(queue)
    /\ missed' = TRUE
    /\ UNCHANGED <<externalVars, appVars>>

\* BZ_BACKEND_NOTIFICATION_KIND_INSTALL_DONE
InstallDone ==
    /\ AtHand("install")
    /\ LET m == Head(queue)
           e == m.entry
       IN /\ installedSet' = SetAfter(m)
          /\ listed' = listed \cup GroupsOf({e})
          /\ missed' = (missed \/ m.late)
    /\ queue' = Tail(queue)
    /\ UNCHANGED <<externalVars, phase, snapshot, known, visits, blurred>>

\* BZ_BACKEND_NOTIFICATION_KIND_UPDATE_DONE, where nothing was rebased.
UpdateDone ==
    /\ AtHand("update") /\ ~ Head(queue).rebased
    /\ LET m == Head(queue)
       IN /\ installedSet' = SetAfter(m)
          /\ blurred' = blurred \cup ((known \cap {m.entry}) \ installedSet)
          /\ missed' = (missed \/ m.late)
    /\ queue' = Tail(queue)
    /\ UNCHANGED <<externalVars, phase, snapshot, listed, known, visits>>

\* Mutant: the group is not counted anew.
RemoveDoneUncounted ==
    /\ AtHand("remove") /\ ~ Head(queue).rebased
    /\ LET m == Head(queue)
       IN /\ installedSet' = SetAfter(m)
          /\ listed' = listed \ {Group(m.entry)}
          /\ missed' = (missed \/ m.late)
    /\ queue' = Tail(queue)
    /\ UNCHANGED <<externalVars, phase, snapshot, known, visits, blurred>>

\* BZ_BACKEND_NOTIFICATION_KIND_REMOVE_DONE: the group is recounted.
RemoveDone ==
    /\ AtHand("remove") /\ ~ Head(queue).rebased
    /\ LET m == Head(queue)
           e == m.entry
       IN /\ installedSet' = SetAfter(m)
          /\ listed' = IF AnyInstalled(Group(e), installedSet') THEN listed
                       ELSE listed \ {Group(e)}
          /\ missed' = (missed \/ m.late)
    /\ queue' = Tail(queue)
    /\ UNCHANGED <<externalVars, phase, snapshot, known, visits, blurred>>

\* The old entry of a rebase: its application leaves the list, whatever else
\* is installed of it.
RebaseDone ==
    /\ phase = "idle" /\ queue # <<>>
    /\ Head(queue).kind \in {"update", "remove"} /\ Head(queue).rebased
    /\ LET m == Head(queue)
           e == m.entry
       IN /\ installedSet' = SetAfter(m)
          /\ listed' = listed \ {Group(e)}
          /\ blurred' = blurred \cup (Group(e) \cap known \cap installedSet')
          /\ missed' = (missed \/ m.late)
    /\ queue' = Tail(queue)
    /\ UNCHANGED <<externalVars, phase, snapshot, known, visits>>

\* BZ_BACKEND_NOTIFICATION_KIND_REPLACE_ENTRY: fiber_replace_entry and
\* bz_entry_group_add.  It may wait for a runtime in between; nobody else
\* changes the set meanwhile.
ReplaceEntry ==
    /\ AtHand("replace")
    /\ LET e == Head(queue).entry
       IN /\ known' = known \cup {e}
          /\ listed' = IF e \in installedSet THEN listed \cup {Group(e)} ELSE listed
    /\ queue' = Tail(queue)
    /\ UNCHANGED <<externalVars, phase, snapshot, installedSet, visits, blurred, missed>>

\* BZ_BACKEND_NOTIFICATION_KIND_EXTERNAL_CHANGE and INVALIDATE_REMOTES: the
\* repositories are listed.
BeginRefresh ==
    /\ AtHand("refresh")
    /\ phase' = "refreshing"
    /\ queue' = Tail(queue)
    /\ UNCHANGED <<externalVars, snapshot, installedSet, listed, known, visits,
                   blurred, missed>>

\* What was done before an installation is read is old news after it.
Aged(m, entries) ==
    IF m.kind \in DoneKinds /\ m.entry \in entries THEN [m EXCEPT !.late = TRUE] ELSE m

ReadInstallation(entries, before, after) ==
    /\ phase = before
    /\ phase' = after
    /\ snapshot' = (snapshot \ entries) \cup (installed \cap entries)
    /\ transit' = {Aged(m, entries) : m \in transit}
    /\ queue' = [i \in 1..Len(queue) |-> Aged(queue[i], entries)]
    /\ UNCHANGED <<installed, events, leaks, changes, syncs, installedSet,
                   listed, known, visits, blurred>>

\* retrieve_installs_fiber: the system installation, then the user's.
ReadSystem ==
    /\ ReadInstallation(Entries \ UserEntries, "refreshing", "halfway")
    /\ missed' = FALSE

ReadUser ==
    /\ ReadInstallation(UserEntries, "halfway", "diffing")
    /\ UNCHANGED missed

RetrieveFails ==
    /\ phase \in {"refreshing", "halfway"}
    /\ phase' = "idle"
    /\ missed' = TRUE
    /\ UNCHANGED <<externalVars, queue, snapshot, installedSet, listed, known,
                   visits, blurred>>

\* The entries that came or went have been read from the cache, as far as
\* that works; the applications of those that are gone are counted anew, then
\* those of the others are listed.  The old set is still in place while what
\* was read is written.
ApplyDiff(read) ==
    /\ phase = "diffing"
    /\ LET diff == (installedSet \ snapshot) \cup (snapshot \ installedSet)
           gone == read \ snapshot
           come == read \cap snapshot
           emptied == {g \in listed : g \cap gone # {} /\ ~ AnyInstalled(g, snapshot)}
       IN /\ read \subseteq diff
          /\ listed' = (listed \ emptied) \cup GroupsOf(come)
          /\ blurred' = blurred \cup ((diff \ read) \cap (known \cup installedSet))
    /\ phase' = "writing"
    /\ UNCHANGED <<externalVars, queue, snapshot, installedSet, known, visits, missed>>

\* The new set takes the place of the old one whatever was read or written.
AdoptSet ==
    /\ phase = "writing"
    /\ installedSet' = snapshot
    /\ snapshot' = {}
    /\ phase' = "idle"
    /\ UNCHANGED <<externalVars, queue, listed, known, visits, blurred, missed>>

-----------------------------------------------------------------------------
(* enumerate_disk_entries_fiber, after each synchronization that succeeds: a *)
(* fiber of its own, which calls fiber_replace_entry for what is cached.     *)

\* The set that the list is kept to.
Current == IF phase = "writing" THEN snapshot ELSE installedSet

\* It looks whether the entry is in the set; then it may have to wait for a
\* runtime.
BeginVisit(e) ==
    /\ Watched
    /\ syncs < MaxSyncs /\ syncs' = syncs + 1
    /\ visits' = visits \cup {[entry |-> e, installed |-> e \in installedSet]}
    /\ UNCHANGED <<installed, transit, events, leaks, queue, phase, snapshot,
                   installedSet, listed, known, blurred, missed, changes>>

\* The entry is in its group, and listed if it was in the set.
EndVisit(v) ==
    /\ v \in visits
    /\ visits' = visits \ {v}
    /\ known' = known \cup {v.entry}
    /\ listed' = IF v.installed THEN listed \cup {Group(v.entry)} ELSE listed
    /\ blurred' = IF v.installed = (v.entry \in Current) THEN blurred
                  ELSE blurred \cup {v.entry}
    /\ UNCHANGED <<externalVars, queue, phase, snapshot, installedSet, missed>>

Enumerate == (\E e \in Entries : BeginVisit(e)) \/ (\E v \in visits : EndVisit(v))

External ==
    \/ \E e \in Entries :
          \/ ForeignChange(e) \/ SyncEntry(e)
          \/ \E kind \in DoneKinds, rebased, loose \in BOOLEAN :
                OwnChange(e, kind, rebased, loose)
    \/ \E m \in transit : SendDone(m)
    \/ OwnNothing \/ MonitorEvent

Respond ==
    \/ DropDone \/ InstallDone \/ UpdateDone \/ RemoveDone \/ RebaseDone
    \/ ReplaceEntry
    \/ BeginRefresh \/ ReadSystem \/ ReadUser \/ RetrieveFails
    \/ (\E read \in SUBSET Entries : ApplyDiff(read)) \/ AdoptSet

Next ==
    \/ External
    \/ \E ids \in SUBSET Entries : LoadGroups(ids)
    \/ Watch
    \/ Respond
    \/ Enumerate

Spec == Init /\ [][Next]_vars

-----------------------------------------------------------------------------
(* Safety *)

\* The Library lists an application exactly when the installed set has one
\* of its entries, though two fibers keep the list while a refresh replaces
\* the set.  While a refresh writes, the list is already that of the new set.
\* An entry that is in no group yet may keep its application listed, and
\* need not.  The exceptions are the entries that were not accounted for:
\* their read failed during a refresh; they shared an application with one
\* that was rebased; they were updated though the set did not have them; or
\* the enumeration listed them, or not, by what the set said before it
\* changed.  bz-application.c:1665, 1967-2040, 2066-2205, 2675, 2707.
LibraryFollows ==
    phase # "starting" =>
        \A g \in Groups : g \cap blurred = {} =>
            /\ g \cap known \cap Current # {} => g \in listed
            /\ g \in listed => g \cap Current # {}

\* The inductive invariant of the list.
IInv == TypeOK /\ LibraryFollows

\* When nothing is under way the installed set is what is installed, unless
\* a change was missed: its event met a muted monitor or came before there
\* was a channel, the installations or the entry could not be read, or its
\* notification came late: after a refresh that had seen more, or, from a run
\* that failed, after that of a later change of the entry.  Whatever was
\* missed, the next refresh that succeeds makes good.
\* bz-application.c:1369-1383, 2066-2205, 2401; bz-flatpak-instance.c:2702, 3155.
Quiet == phase = "idle" /\ queue = <<>> /\ transit = {} /\ events = 0

QuietAgrees == Quiet /\ ~ missed => installedSet = installed

\* What is on its way about an entry: a notification of what was done to it,
\* in transit or in the queue, which says whether it is installed now.
About(m, e) == m.kind \in DoneKinds /\ m.entry = e
Says(m) == ~ (m.kind = "remove" \/ (m.kind = "update" /\ m.rebased))

Announced(e) == \E i \in 1..Len(queue) : About(queue[i], e)
InTransit(e) == \E m \in transit : m.entry = e
LastAbout(i, e) ==
    /\ i \in 1..Len(queue) /\ About(queue[i], e)
    /\ \A j \in 1..Len(queue) : About(queue[j], e) => j <= i

\* Old news that make the application think wrong is on its way.
Overtaken(e) ==
    \/ \E m \in transit : m.entry = e /\ m.late
    \/ \E i \in 1..Len(queue) : About(queue[i], e) /\ queue[i].late

\* A change by others is on its way: an event, or the refresh it caused.
Disturbed == events > 0 \/ \E i \in 1..Len(queue) : queue[i].kind = "refresh"

\* The entries that the application has read since, and the set they are in.
Read ==
    CASE phase \in {"starting", "refreshing"} -> {}
      [] phase = "halfway" -> Entries \ UserEntries
      [] OTHER -> Entries
Base == IF phase \in {"halfway", "diffing", "writing"} THEN snapshot ELSE installedSet

\* The notifications in transit are in an order, that of the changes, and
\* none is sent before the application has a channel.
Ordered ==
    \A m \in transit : m.at <= changes /\ \A n \in transit : m.at = n.at => m = n
NothingSent == ~ Watched => transit = {} /\ queue = <<>>

\* What was read of an entry, and what is on its way about it, in its order,
\* come to what is installed.
Newest(m) == \A n \in transit : n.entry = m.entry => n.at <= m.at

Agrees(e) ==
    /\ \A m \in transit : m.entry = e /\ Newest(m) => (Says(m) <=> e \in installed)
    /\ ~ InTransit(e) =>
        /\ \A i \in 1..Len(queue) :
            LastAbout(i, e) => (Says(queue[i]) <=> e \in installed)
        /\ ~ Announced(e) => (e \in Base <=> e \in installed)

Settled(e) == Overtaken(e) \/ Agrees(e)

Account == ~ missed /\ ~ Disturbed => \A e \in Read : Settled(e)

\* Inductive together with IInv.
Accounts == Ordered /\ NothingSent /\ Account
=============================================================================
