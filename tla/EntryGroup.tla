------------------------------ MODULE EntryGroup ------------------------------
(***************************************************************************)
(* One application of the catalog and the entries that provide it, in      *)
(* several remotes and installations: src/src/bz-entry-group.c, with the   *)
(* handlers of src/src/bz-application.c and the marks of                   *)
(* src/src/bz-entry.c that change it.                                      *)
(*                                                                         *)
(* The group keeps the names of its entries and, in an array beside them,  *)
(* flags for each place; the buttons of the user interface depend on how   *)
(* many places have a flag.  The objects of entries tell the group of      *)
(* changes once they are connected, and are made anew from the files of    *)
(* the cache when nobody uses them.  All steps run on the main thread: the *)
(* fiber of notifications, and beside it the one that, after a             *)
(* synchronization, visits the entries of the cache but those it made from *)
(* a bundle's file.  Which these are is left open, and so is which are in  *)
(* the cache; they need not be in the group yet.                           *)
(* Left out: updatable flags, which are never set, and what a group copies *)
(* from its entries to be shown.                                           *)
(***************************************************************************)
EXTENDS Integers, Sequences

CONSTANTS
    Entries,        \* those that may belong to the group
    Score,          \* bz_entry_calc_usefulness, the same for each object of an entry
    Browsable,      \* those whose remote lists them; others came as bundles
    Saved,          \* orders of entries, and files, that the last session left
    MaxHolds,       \* bounds the transactions that hold one entry
    MaxChanges      \* bounds the notifications and the visits

ASSUME EntryAssumption == Score \in [Entries -> Int] /\ MaxHolds \in Nat /\ MaxChanges \in Nat
Marks == [installed : BOOLEAN, again : BOOLEAN]

ASSUME SavedAssumption ==
    \A s \in Saved :
        /\ s.ids \in Seq(Entries)
        /\ \A i, j \in DOMAIN s.ids : s.ids[i] = s.ids[j] => i = j
        /\ s.file \in [Entries -> Marks]
        /\ \A e \in Entries \ Browsable : ~ s.file[e].again

VARIABLES
    installedSet,   \* self->installed_set of the application
    writing,        \* a refresh writes what it has changed
    snapshot,       \* the set that it read
    visits,         \* the calls of fiber_replace_entry by the enumeration
    listed,         \* the group is in self->installed_apps
    ids,            \* unique_ids
    slots,          \* state_flags
    file,           \* what the cache has stored of each entry
    object,         \* the living object of each entry
    holds,          \* its hold counts
    loading,        \* the unique_ids that dup_all_into_store_fiber began with
    turn,           \* how many of them its loop has done
    open,           \* history: entries that did not tell the group
    odd,            \* history: entries whose holds the group does not know
    stale,          \* history: entries whose file missed a change
    misled,         \* history: entries whose object missed a change
    changes         \* how many notifications and visits there were

historyVars == <<open, odd, stale, misled>>
refreshVars == <<writing, snapshot, visits>>
vars == <<installedSet, refreshVars, listed, ids, slots, file, object, holds,
          loading, turn, historyVars, changes>>

Flags == {"removable", "installable", "removeReady", "installReady"}
Objects == [life : {"none", "loose", "bound"}, mark : Marks]

Visit == [entry : Entries, installed : BOOLEAN]

Members == {ids[i] : i \in DOMAIN ids}
Held(e) == holds[e] > 0

\* The set that the group is kept to.
Current == IF writing THEN snapshot ELSE installedSet

TypeOK ==
    /\ installedSet \subseteq Entries
    /\ writing \in BOOLEAN /\ snapshot \subseteq Entries
    /\ visits \subseteq Visit
    /\ listed \in BOOLEAN
    /\ ids \in Seq(Entries) /\ \A i, j \in DOMAIN ids : ids[i] = ids[j] => i = j
    /\ slots \in Seq(SUBSET Flags) /\ Len(slots) = Len(ids)
    /\ file \in [Entries -> Marks] /\ object \in [Entries -> Objects]
    /\ \A e \in Entries \ Browsable : ~ file[e].again /\ ~ object[e].mark.again
    /\ holds \in [Entries -> 0..MaxHolds]
    /\ loading \in Seq(Entries) /\ Len(loading) <= Len(ids)
    /\ turn \in Nat /\ (loading = <<>> => turn = 0) /\ (loading # <<>> => turn < Len(loading))
    /\ open \subseteq Entries /\ odd \subseteq Entries
    /\ stale \subseteq Entries /\ misled \subseteq Entries
    /\ changes \in 0..MaxChanges

NoObject == [life |-> "none", mark |-> [installed |-> FALSE, again |-> FALSE]]

\* What bz_entry_group_reconcile_with_installed_set puts in each place.
Reconciled(set) ==
    [i \in DOMAIN ids |-> IF ids[i] \in set THEN {"removable", "removeReady"}
                          ELSE {"installable", "installReady"}]

\* The group of the last session is reconciled; the files of the cache may
\* be older than the installed set.
Init ==
    /\ installedSet \in SUBSET Entries
    /\ writing = FALSE /\ snapshot = {} /\ visits = {}
    /\ \E s \in Saved : ids = s.ids /\ file = s.file
    /\ slots = Reconciled(installedSet)
    /\ listed = (Members \cap installedSet # {})
    /\ object = [e \in Entries |-> NoObject]
    /\ holds = [e \in Entries |-> 0]
    /\ loading = <<>> /\ turn = 0
    /\ open = {} /\ odd = {} /\ misled = {} /\ changes = 0
    /\ stale = {e \in Entries : file[e].installed # (e \in installedSet)}

-----------------------------------------------------------------------------
(* The signals of connected objects *)

\* A mutant of AfterInstalled: a removed entry keeps its flag.
AfterInstalledKept(flags, mark, held) ==
    IF mark.installed THEN {"removable", "removeReady"}
    ELSE flags \cup (IF mark.again THEN {"installable"} ELSE {})

\* Another: the buttons do not wait for the transaction.
AfterInstalledReady(flags, mark, held) ==
    IF mark.installed THEN {"removable", "removeReady"}
    ELSE IF mark.again THEN {"installable", "installReady"} ELSE {}

\* installed_changed
AfterInstalled(flags, mark, held) ==
    LET main == IF mark.installed
                THEN (flags \ {"installable"}) \cup {"removable"}
                ELSE (flags \ {"removable"})
                         \cup (IF mark.again THEN {"installable"} ELSE {})
    IN IF held THEN main
       ELSE IF mark.installed THEN (main \ {"installReady"}) \cup {"removeReady"}
       ELSE (main \ {"removeReady"}) \cup (IF mark.again THEN {"installReady"} ELSE {})

\* holding_changed
AfterHolding(flags, mark, held) ==
    IF held THEN flags \ {IF mark.installed THEN "removeReady" ELSE "installReady"}
    ELSE IF mark.installed THEN flags \cup {"removeReady"}
    ELSE IF mark.again THEN flags \cup {"installReady"}
    ELSE flags

\* What the objects of some entries tell the group.
Told(flags, objects, entries) ==
    [i \in DOMAIN flags |->
        LET o == objects[ids[i]]
        IN IF ids[i] \in entries /\ o.life = "bound"
           THEN AfterInstalled(flags[i], o.mark, Held(ids[i])) ELSE flags[i]]

Idle == turn = 0

\* bz_entry_hold: the group is told of the first.
Hold(e) ==
    /\ Idle
    /\ object[e].life # "none"
    /\ holds[e] < MaxHolds
    /\ holds' = [holds EXCEPT ![e] = @ + 1]
    /\ IF ~ Held(e) /\ object[e].life = "bound"
       THEN slots' = [i \in DOMAIN slots |->
                         IF ids[i] = e THEN AfterHolding(slots[i], object[e].mark, TRUE)
                         ELSE slots[i]]
       ELSE UNCHANGED slots
    /\ odd' = IF object[e].life = "bound" /\ e \notin misled
                    /\ (object[e].mark.installed \/ object[e].mark.again)
              THEN odd ELSE odd \cup {e}
    /\ UNCHANGED <<installedSet, refreshVars, listed, ids, file, object, loading, turn, open,
                   stale, misled, changes>>

\* bz_entry_release: the group is told of the last.
Release(e) ==
    /\ Idle
    /\ Held(e)
    /\ holds' = [holds EXCEPT ![e] = @ - 1]
    /\ IF holds[e] = 1 /\ object[e].life = "bound"
       THEN slots' = [i \in DOMAIN slots |->
                         IF ids[i] = e THEN AfterHolding(slots[i], object[e].mark, FALSE)
                         ELSE slots[i]]
       ELSE UNCHANGED slots
    /\ odd' = IF e \in misled THEN odd \cup {e} ELSE odd
    /\ UNCHANGED <<installedSet, refreshVars, listed, ids, file, object, loading, turn, open,
                   stale, misled, changes>>

-----------------------------------------------------------------------------
(* Objects and files *)

\* bz_entry_cache_manager_get
Fetched(e) ==
    IF object[e].life = "none" THEN [life |-> "loose", mark |-> file[e]] ELSE object[e]

MisledBy(e) ==
    IF object[e].life = "none" THEN (misled \ {e}) \cup ({e} \cap stale) ELSE misled

\* Some other part of the application asks for an entry.
Get(e) ==
    /\ Idle
    /\ object[e].life = "none"
    /\ object' = [object EXCEPT ![e] = Fetched(e)]
    /\ misled' = MisledBy(e)
    /\ UNCHANGED <<installedSet, refreshVars, listed, ids, slots, file, holds, loading, turn,
                   open, odd, stale, changes>>

\* Nobody uses the object any more.
Forget(e) ==
    /\ Idle
    /\ object[e].life # "none" /\ ~ Held(e)
    /\ \A v \in visits : v.entry # e
    /\ object' = [object EXCEPT ![e] = NoObject]
    /\ misled' = misled \ {e}
    /\ UNCHANGED <<installedSet, refreshVars, listed, ids, slots, file, holds, loading, turn,
                   open, odd, stale, changes>>

\* A mutant of WriteBack: it looks for entries that are held.
WriteBackHeld(entries, objects) ==
    file' = [e \in Entries |-> IF e \in entries /\ Held(e) THEN objects[e].mark
                               ELSE file[e]]

\* bz_entry_cache_manager_add refuses an entry that is held.
WriteBack(entries, objects) ==
    file' = [e \in Entries |-> IF e \in entries /\ ~ Held(e) THEN objects[e].mark
                               ELSE file[e]]

\* The mark of a living object is changed by somebody who does not write it
\* back; a write that is under way may still catch it.
Caught(e, objects, caught) ==
    /\ caught => object[e].life # "none" /\ objects[e].mark # object[e].mark
    /\ file' = IF caught THEN [file EXCEPT ![e] = objects[e].mark] ELSE file

-----------------------------------------------------------------------------
(* dup_all_into_store_fiber *)

BeginLoad ==
    /\ Idle /\ loading = <<>> /\ ids # <<>>
    /\ loading' = ids
    /\ UNCHANGED <<installedSet, refreshVars, listed, ids, slots, file, object, holds, turn,
                   historyVars, changes>>

\* One round of the loop, after all reads are over.  The place is that of
\* the names it began with.
LoadEntry(found, caught) ==
    LET i == turn + 1
        e == loading[i]
        removable == "removable" \in slots[i]
        phantom == found /\ object[e].mark.installed /\ ~ removable
        fixed == [object EXCEPT ![e].mark.installed = FALSE]
        amiss == phantom /\ (ids[i] # e \/ e \in open)
    IN /\ loading # <<>>
       /\ found => object[e].life # "none"
       /\ slots' = IF phantom THEN Told(slots, fixed, {e}) ELSE slots
       /\ object' = IF ~ found THEN object
                    ELSE [(IF phantom THEN fixed ELSE object) EXCEPT ![e].life = "bound"]
       /\ IF i = Len(loading) THEN turn' = 0 /\ loading' = <<>>
          ELSE turn' = i /\ UNCHANGED loading
       /\ open' = IF amiss THEN open \cup {e} ELSE open
       /\ misled' = IF amiss THEN misled \cup {e}
                    ELSE IF phantom THEN misled \ {e} ELSE misled
       /\ Caught(e, object', caught)
       /\ stale' = IF amiss /\ caught THEN stale \cup {e} ELSE stale
       /\ UNCHANGED <<installedSet, refreshVars, listed, ids, holds, odd, changes>>

-----------------------------------------------------------------------------
(* respond_to_flatpak_fiber *)

Step == Idle /\ changes < MaxChanges /\ changes' = changes + 1

\* A notification is handled while the loop does not run and no other is.
Respond == Step /\ ~ writing /\ UNCHANGED visits
Aside == UNCHANGED <<writing, snapshot>>

\* The names with an entry moved, or added, to the front.
FirstPut(e) ==
    IF e \notin Members THEN <<e>> \o ids
    ELSE LET place == CHOOSE i \in DOMAIN ids : ids[i] = e
         IN [i \in DOMAIN ids |-> IF i = 1 THEN e ELSE IF i <= place THEN ids[i - 1] ELSE ids[i]]

\* No member is more useful; max_usefulness begins at -1.
Foremost(e) == Score[e] >= -1 /\ \A d \in Members : Score[e] >= Score[d]

\* bz_entry_group_add, by the object that is added.
FlagsOf(mark, held) ==
    LET main == IF mark.installed THEN {"removable"}
                ELSE IF mark.again THEN {"installable"} ELSE {}
    IN main \cup (IF held THEN {}
                  ELSE {IF f = "removable" THEN "removeReady" ELSE "installReady" :
                           f \in main})

Added(e, flags) ==
    /\ slots' = IF e \in Members
                THEN [i \in DOMAIN slots |-> IF ids[i] = e THEN flags ELSE slots[i]]
                ELSE Append(slots, flags)
    /\ ids' = IF Foremost(e) THEN FirstPut(e)
              ELSE IF e \in Members THEN ids ELSE Append(ids, e)

Unmoved(e) == ids' \in {ids, Append(ids, e)}

\* A new object takes the place of the entry in the group and in its file,
\* not that of a living one.
ReplaceEntry(e, again) ==
    LET mark == [installed |-> e \in installedSet, again |-> again]
    IN
    /\ Respond /\ Aside
    /\ again => e \in Browsable
    /\ Added(e, FlagsOf(mark, FALSE))
    /\ listed' = (listed \/ e \in installedSet)
    /\ file' = [file EXCEPT ![e] = mark]
    /\ open' = IF Unmoved(e) THEN open \ {e} ELSE Entries
    /\ odd' = IF Held(e) \/ (object[e].life # "none" /\ object[e].mark.again # again)
              THEN odd \cup {e} ELSE odd
    /\ stale' = stale \ {e}
    /\ UNCHANGED <<installedSet, object, holds, loading, turn, misled>>

\* A handler sets the installed property of an entry and writes it back.
Marked(e, installed) ==
    [object EXCEPT ![e] =
        [Fetched(e) EXCEPT !.mark =
            [installed |-> installed,
             again |-> @.again \/ (~ installed /\ e \in Browsable)]]]

Written(e) == IF Held(e) THEN stale \cup {e} ELSE stale \ {e}
Untold(e) == IF object[e].life = "bound" THEN open ELSE open \cup {e}

InstallDone(e) ==
    /\ Respond /\ Aside
    /\ installedSet' = installedSet \cup {e}
    /\ listed' = (ids # <<>>)
    /\ object' = Marked(e, TRUE)
    /\ slots' = Told(slots, object', {e})
    /\ WriteBack({e}, object')
    /\ open' = Untold(e)
    /\ stale' = Written(e)
    /\ misled' = misled \ {e}
    /\ UNCHANGED <<ids, holds, loading, turn, odd>>

UpdateDone(e) ==
    /\ Respond /\ Aside
    /\ installedSet' = installedSet \cup {e}
    /\ object' = [object EXCEPT ![e] = Fetched(e)]
    /\ WriteBack({e}, object')
    /\ open' = open \cup ({e} \ installedSet)
    /\ misled' = MisledBy(e) \cup ({e} \ installedSet)
    /\ stale' = IF Held(e) THEN stale \cup ({e} \ installedSet)
                ELSE (stale \ {e}) \cup ({e} \cap misled')
    /\ UNCHANGED <<listed, ids, slots, holds, loading, turn, odd>>

RemoveDone(e) ==
    /\ Respond /\ Aside
    /\ installedSet' = installedSet \ {e}
    /\ listed' = (listed /\ Members \cap installedSet' # {})
    /\ object' = Marked(e, FALSE)
    /\ slots' = Reconciled(installedSet')
    /\ WriteBack({e}, object')
    /\ open' = {}
    /\ odd' = {d \in Entries : Held(d)}
    /\ stale' = Written(e)
    /\ misled' = misled \ {e}
    /\ UNCHANGED <<ids, holds, loading, turn>>

\* The old entry of a rebase: the group is not reconciled.
RebaseDone(e) ==
    /\ Respond /\ Aside
    /\ installedSet' = installedSet \ {e}
    /\ listed' = FALSE
    /\ object' = Marked(e, FALSE)
    /\ slots' = Told(slots, object', {e})
    /\ WriteBack({e}, object')
    /\ open' = Untold(e)
    /\ stale' = Written(e)
    /\ misled' = misled \ {e}
    /\ UNCHANGED <<ids, holds, loading, turn, odd>>

\* The difference to the new set, as far as it could be read; entries that
\* are gone come first.  The fiber waits for the reads before and for the
\* writes afterwards, while the old set is still in place.
ApplyDiff(new, read) ==
    LET diff == (installedSet \ new) \cup (new \ installedSet)
        gone == read \ new
        come == read \cap new
        recount == listed /\ gone # {}
    IN /\ Respond
       /\ read \subseteq diff
       /\ writing' = TRUE /\ snapshot' = new
       /\ object' = [e \in Entries |->
             IF e \notin read THEN object[e]
             ELSE IF ids = <<>> THEN Marked(e, e \in new)[e]
             ELSE [Marked(e, e \in new)[e] EXCEPT !.life = "bound"]]
       /\ slots' = Told(IF recount THEN Reconciled(new) ELSE Told(slots, object', gone),
                        object', come)
       /\ listed' = \/ come # {} /\ ids # <<>>
                    \/ listed /\ (recount => Members \cap new # {})
       /\ WriteBack(read, object')
       /\ open' = IF recount THEN {} ELSE open \cup (diff \ read)
       /\ odd' = IF recount THEN {d \in Entries : Held(d)} ELSE odd
       /\ stale' = (stale \ read) \cup (diff \ read) \cup {e \in read : Held(e)}
       /\ misled' = (misled \ read) \cup (diff \ read)
    /\ UNCHANGED <<installedSet, ids, holds, loading, turn>>

AdoptSet ==
    /\ Idle
    /\ writing /\ writing' = FALSE
    /\ installedSet' = snapshot /\ snapshot' = {}
    /\ UNCHANGED <<visits, listed, ids, slots, file, object, holds, loading, turn,
                   historyVars, changes>>

-----------------------------------------------------------------------------
(* enumerate_disk_entries_fiber: fiber_replace_entry for the object that the *)
(* cache has of an entry, with a wait for a runtime in it.  Nothing is       *)
(* written back.                                                             *)

BeginVisit(e, caught) ==
    LET amiss == (e \in installedSet) # (e \in Current)
    IN
    /\ Step /\ Aside
    /\ visits' = visits \cup {[entry |-> e, installed |-> e \in installedSet]}
    /\ object' = [object EXCEPT ![e] =
                     [Fetched(e) EXCEPT !.mark.installed = e \in installedSet]]
    /\ slots' = Told(slots, object', {e})
    /\ Caught(e, object', caught)
    /\ open' = IF amiss /\ object[e].life = "bound" THEN open \cup {e} ELSE open
    /\ stale' = IF amiss /\ caught THEN stale \cup {e} ELSE stale
    /\ misled' = IF amiss THEN misled \cup {e} ELSE misled \ {e}
    /\ UNCHANGED <<installedSet, listed, ids, holds, loading, turn, odd>>

EndVisit(v) ==
    LET e == v.entry
    IN
    /\ Idle
    /\ v \in visits /\ visits' = visits \ {v}
    /\ Added(e, FlagsOf(object[e].mark, Held(e)))
    /\ listed' = (listed \/ v.installed)
    /\ open' = IF ~ Unmoved(e) THEN Entries
               ELSE IF e \in misled THEN open \cup {e} ELSE open \ {e}
    /\ odd' = IF file[e].again # object[e].mark.again THEN odd \cup {e} ELSE odd
    /\ UNCHANGED <<installedSet, writing, snapshot, file, object, holds, loading,
                   turn, stale, misled, changes>>

-----------------------------------------------------------------------------

Next ==
    \/ \E e \in Entries :
          \/ Hold(e) \/ Release(e) \/ Get(e) \/ Forget(e)
          \/ InstallDone(e) \/ UpdateDone(e) \/ RemoveDone(e) \/ RebaseDone(e)
          \/ \E again \in BOOLEAN : ReplaceEntry(e, again)
    \/ BeginLoad
    \/ \E found, caught \in BOOLEAN : LoadEntry(found, caught)
    \/ \E e \in Entries, caught \in BOOLEAN : BeginVisit(e, caught)
    \/ \E v \in visits : EndVisit(v)
    \/ AdoptSet
    \/ \E new \in SUBSET Entries, read \in SUBSET Entries : ApplyDiff(new, read)

Spec == Init /\ [][Next]_vars

-----------------------------------------------------------------------------
(* Safety *)

\* The group takes an entry for removable exactly when the installed set has
\* it, whatever order loads, holds, visits and handlers come in, unless since
\* the group was last reconciled the entry was installed, rebased or missed in
\* a refresh while no connected object was there to tell the group, or its
\* object was wrong when it did, or the enumeration looked it up in the old
\* set while a refresh was writing, or an addition moved an entry to the
\* front: the names move, the flags do not.  While a refresh writes, the new
\* set counts.  bz-application.c:1665, 2134, 2195, 2707;
\* bz-entry-group.c:1043-1058, 1198-1250, 1289-1402, 1504-1532.
FlagsFollow ==
    \A i \in DOMAIN ids :
        ids[i] \notin open => ("removable" \in slots[i] <=> ids[i] \in Current)

\* Where the flags are right, an entry is offered for removal or
\* installation exactly while no transaction holds it, unless the group was
\* reconciled or the entry replaced while it was held, or its object was not
\* connected, was wrong, or could neither be removed nor installed when the
\* hold began.  bz-entry-group.c:1404-1466, bz-entry.c:1727-1748.
OfferedWhenFree ==
    \A i \in DOMAIN ids : ids[i] \notin open \cup odd =>
        /\ "removeReady" \in slots[i]
              <=> "removable" \in slots[i] /\ ~ Held(ids[i])
        /\ "installReady" \in slots[i]
              <=> "installable" \in slots[i] /\ ~ Held(ids[i])

\* The cache has stored of an entry what the installed set says, unless the
\* last write was refused because the entry was held, or its read failed, or
\* a write caught an object that was wrong; and so does its object, unless it
\* was made from such a file, or a load took it for a phantom by flags that
\* were wrong, or the enumeration looked it up in the old set while a refresh
\* was writing.  bz-application.c:1665, 2051, 2195, 2707,
\* bz-entry-cache-manager.c:277, bz-entry-group.c:1510-1526.
MarksFollow ==
    \A e \in Entries :
        /\ e \notin stale => (file[e].installed <=> e \in Current)
        /\ object[e].life # "none" /\ e \notin misled
              => (object[e].mark.installed <=> e \in Current)

\* Whether an entry can be installed.
InstallableFollows ==
    \A i \in DOMAIN ids : ids[i] \notin open \cup odd =>
        LET e == ids[i]
            installable == "installable" \in slots[i]
            again == object[e].mark.again
        IN /\ e \in Current => ~ installable
           /\ e \notin Current /\ ~ installable
                 => ~ file[e].again /\ (object[e].life # "none" => ~ again)
           /\ e \notin Current /\ installable /\ Held(e) => again

\* Who lives, and whose holds the group knows.
ObjectsKnown ==
    /\ \A e \in Entries :
        Held(e) => object[e].life # "none" /\ (e \in odd \/ object[e].life = "bound")
    /\ \A v \in visits : object[v.entry].life # "none"

\* The inductive invariant.
IInv ==
    TypeOK /\ ObjectsKnown /\ FlagsFollow /\ OfferedWhenFree /\ InstallableFollows
      /\ MarksFollow
=============================================================================
