---------------------------- MODULE LibraryProofs ----------------------------
(***************************************************************************)
(* Theorems about Library: the list of installed applications, for any     *)
(* entries and any number of changes.                                      *)
(***************************************************************************)
EXTENDS Library, TLAPS

-----------------------------------------------------------------------------
(* Groups and messages *)

LEMMA GroupFacts ==
    /\ \A e \in Entries : e \in Group(e) /\ Group(e) \in Groups
    /\ \A g \in Groups : g \subseteq Entries
    /\ \A g \in Groups : \A e \in g : Group(e) = g
BY EntriesAssumption DEF Group, Groups

LEMMA GroupsOfFacts ==
    ASSUME NEW S \in SUBSET Entries
    PROVE  /\ GroupsOf(S) \subseteq Groups
           /\ \A g \in Groups : g \cap known \cap S # {} => g \in GroupsOf(S)
           /\ \A g \in GroupsOf(S) : g \cap S # {}
BY DEF GroupsOf

LEMMA HeadFacts ==
    ASSUME TypeOK, queue # <<>>
    PROVE  /\ Tail(queue) \in Seq(Done \cup Replacement \cup {Refresh})
           /\ Head(queue).kind \in DoneKinds => Head(queue) \in Done
           /\ Head(queue).kind = "replace" => Head(queue).entry \in Entries
<1>1. Head(queue) \in Done \cup Replacement \cup {Refresh}
  BY DEF TypeOK
<1>2. Tail(queue) \in Seq(Done \cup Replacement \cup {Refresh})
  BY DEF TypeOK
<1>3. ASSUME Head(queue) \in Done
      PROVE  Head(queue).kind # "replace"
  BY <1>3 DEF Done, DoneKinds
<1>4. ASSUME Head(queue) \in Replacement
      PROVE  Head(queue).kind \notin DoneKinds /\ Head(queue).entry \in Entries
  BY <1>4 DEF Replacement, DoneKinds
<1>5. ASSUME Head(queue) = Refresh
      PROVE  Head(queue).kind \notin DoneKinds /\ Head(queue).kind # "replace"
  BY <1>5 DEF Refresh, DoneKinds
<1> QED BY <1>1, <1>2, <1>3, <1>4, <1>5

LEMMA AgedFacts ==
    ASSUME NEW S \in SUBSET Entries,
           NEW m \in Done \cup Replacement \cup {Refresh}
    PROVE  /\ Aged(m, S) \in Done \cup Replacement \cup {Refresh}
           /\ m \in Done => Aged(m, S) \in Done
<1>1. CASE m.kind \in DoneKinds /\ m.entry \in S
  <2>1. m \in Done
    BY <1>1 DEF Done, Replacement, Refresh, DoneKinds
  <2> QED BY <1>1, <2>1 DEF Aged, Done
<1>2. CASE ~ (m.kind \in DoneKinds /\ m.entry \in S)
  BY <1>2 DEF Aged
<1> QED BY <1>1, <1>2

-----------------------------------------------------------------------------
(* What leaves the application alone *)

LEMMA StillFollows ==
    ASSUME LibraryFollows,
           phase' = "starting" => phase = "starting",
           phase = "starting" => phase' = "starting",
           Current' = Current, UNCHANGED <<listed, known, blurred>>
    PROVE  LibraryFollows'
BY DEF LibraryFollows

\* The types of what is in transit, whatever becomes late.
LEMMA LateType ==
    ASSUME NEW n \in Done
    PROVE  /\ [n EXCEPT !.late = TRUE] \in Done
           /\ [n EXCEPT !.loose = FALSE, !.at = 0] \in Done
<1>1. 0 \in 0..MaxChanges
  BY BoundsAssumption
<1>2. [n EXCEPT !.late = TRUE] \in Done
  BY DEF Done
<1>3. [n EXCEPT !.loose = FALSE, !.at = 0] \in Done
  BY <1>1 DEF Done
<1> QED BY <1>2, <1>3

-----------------------------------------------------------------------------
(* The steps *)

LEMMA InitInvariant == Init => IInv
<1> SUFFICES ASSUME Init PROVE IInv
  OBVIOUS
<1>1. TypeOK
  <2>1. changes \in 0..MaxChanges /\ syncs \in 0..MaxSyncs
    BY BoundsAssumption DEF Init
  <2>2. queue \in Seq(Done \cup Replacement \cup {Refresh})
    BY DEF Init
  <2>3. missed \in BOOLEAN
    BY DEF Init
  <2> QED BY <2>1, <2>2, <2>3 DEF Init, TypeOK, Phases
<1> QED BY <1>1 DEF Init, IInv, LibraryFollows

LEMMA ExternalStep == IInv /\ External => IInv'
<1> SUFFICES ASSUME IInv, External PROVE IInv'
  OBVIOUS
<1> USE DEF IInv
<1>1. UNCHANGED appVars
  BY DEF External, ForeignChange, SyncEntry, OwnChange, SendDone, OwnNothing,
         MonitorEvent
<1>2. LibraryFollows'
  BY <1>1, StillFollows DEF appVars, Current
<1>3. TypeOK'
  <2> SUFFICES /\ installed' \subseteq Entries
               /\ transit' \subseteq Done
               /\ events' \in Nat /\ leaks' \in Nat
               /\ queue' \in Seq(Done \cup Replacement \cup {Refresh})
               /\ missed' \in BOOLEAN
               /\ changes' \in 0..MaxChanges /\ syncs' \in 0..MaxSyncs
    BY <1>1 DEF TypeOK, appVars
  <2> USE BoundsAssumption DEF TypeOK
  <2>1. ASSUME NEW e \in Entries, ForeignChange(e)
        PROVE  TypeOK'
    BY <2>1, <1>1 DEF ForeignChange, Change, appVars
  <2>2. ASSUME NEW e \in Entries, SyncEntry(e)
        PROVE  TypeOK'
    <3>1. [kind |-> "replace", entry |-> e] \in Replacement
      BY DEF Replacement
    <3> QED BY <2>2, <3>1, <1>1 DEF SyncEntry, appVars
  <2>3. ASSUME NEW e \in Entries, NEW kind \in DoneKinds,
               NEW rebased \in BOOLEAN, NEW loose \in BOOLEAN,
               OwnChange(e, kind, rebased, loose)
        PROVE  TypeOK'
    <3>0. changes' \in 0..MaxChanges
      BY <2>3 DEF OwnChange, Change
    <3>1. [kind |-> kind, entry |-> e, rebased |-> rebased, late |-> FALSE,
           loose |-> loose, at |-> changes'] \in Done
      BY <3>0 DEF Done
    <3>2. transit' \subseteq Done
      BY <2>3, <3>1 DEF OwnChange
    <3>3. installed' \subseteq Entries
      BY <2>3 DEF OwnChange
    <3> QED BY <2>3, <3>2, <3>3, <1>1 DEF OwnChange, Change, appVars
  <2>4. ASSUME NEW m \in transit, SendDone(m)
        PROVE  TypeOK'
    <3>1. transit' \subseteq Done
      BY <2>4, LateType DEF SendDone
    <3>2. [m EXCEPT !.loose = FALSE, !.at = 0] \in Done \cup Replacement \cup {Refresh}
      BY LateType
    <3>3. queue' \in Seq(Done \cup Replacement \cup {Refresh})
      BY <2>4, <3>2 DEF SendDone
    <3> QED BY <2>4, <3>1, <3>3, <1>1 DEF SendDone, appVars
  <2>5. CASE OwnNothing
    BY <2>5, <1>1 DEF OwnNothing, Change, appVars
  <2>6. CASE MonitorEvent
    <3>1. missed' \in BOOLEAN
      BY <2>6 DEF MonitorEvent
    <3>2. queue' \in Seq(Done \cup Replacement \cup {Refresh})
      BY <2>6 DEF MonitorEvent
    <3>3. events' \in Nat /\ leaks' \in Nat
      BY <2>6 DEF MonitorEvent
    <3> QED BY <2>6, <3>1, <3>2, <3>3, <1>1 DEF MonitorEvent, appVars,
               externalVars
  <2> QED BY <2>1, <2>2, <2>3, <2>4, <2>5, <2>6 DEF External
<1> QED BY <1>2, <1>3

\* What the handlers of done notifications start from.
LEMMA DoneFacts ==
    ASSUME IInv, phase = "idle", queue # <<>>, Head(queue).kind \in DoneKinds
    PROVE  /\ Head(queue).kind \in DoneKinds
           /\ Head(queue).entry \in Entries
           /\ Head(queue).rebased \in BOOLEAN /\ Head(queue).late \in BOOLEAN
           /\ Tail(queue) \in Seq(Done \cup Replacement \cup {Refresh})
BY HeadFacts DEF IInv, Done

\* A handler that keeps the types of what it changes keeps TypeOK.
LEMMA HandlerType ==
    ASSUME TypeOK, UNCHANGED externalVars,
           queue' \in Seq(Done \cup Replacement \cup {Refresh}),
           phase' \in Phases, snapshot' \subseteq Entries,
           installedSet' \subseteq Entries, listed' \subseteq Groups,
           known' \subseteq Entries, visits' \subseteq Visit,
           blurred' \subseteq Entries, missed' \in BOOLEAN
    PROVE  TypeOK'
BY DEF TypeOK, externalVars

\* What LibraryFollows says of a group.
Follows(g) ==
    /\ g \cap known \cap Current # {} => g \in listed
    /\ g \in listed => g \cap Current # {}

LEMMA InstallStep == IInv /\ InstallDone => IInv'
<1> SUFFICES ASSUME IInv, InstallDone PROVE IInv'
  OBVIOUS
<1> USE DEF IInv
<1> DEFINE m == Head(queue)
           e == m.entry
<1>1. /\ m.kind = "install" /\ phase = "idle" /\ e \in Entries
      /\ m.late \in BOOLEAN
      /\ Tail(queue) \in Seq(Done \cup Replacement \cup {Refresh})
  BY DoneFacts DEF InstallDone, AtHand, DoneKinds
<1>2. /\ installedSet' = installedSet \cup {e}
      /\ listed' = listed \cup GroupsOf({e})
      /\ Current = installedSet /\ Current' = installedSet'
      /\ UNCHANGED <<phase, known, blurred>>
  BY <1>1 DEF InstallDone, SetAfter, Current
<1>3. TypeOK'
  <2>1. missed' \in BOOLEAN
    BY <1>1 DEF InstallDone, TypeOK
  <2>2. listed' \subseteq Groups
    BY <1>1, <1>2, GroupsOfFacts DEF TypeOK
  <2> QED BY <1>1, <1>2, <2>1, <2>2, HandlerType DEF InstallDone, TypeOK
<1>4. LibraryFollows'
  <2> SUFFICES ASSUME NEW g \in Groups, g \cap blurred = {} PROVE Follows(g)'
    BY <1>1, <1>2 DEF LibraryFollows, Follows
  <2>1. Follows(g)
    BY <1>1 DEF LibraryFollows, Follows
  <2>2. g \cap known \cap {e} # {} => g \in GroupsOf({e})
    BY <1>1, GroupsOfFacts
  <2>3. g \in GroupsOf({e}) => e \in g
    BY <1>1, GroupsOfFacts
  <2> QED BY <2>1, <2>2, <2>3, <1>2 DEF Follows
<1> QED BY <1>3, <1>4

LEMMA UpdateStep == IInv /\ UpdateDone => IInv'
<1> SUFFICES ASSUME IInv, UpdateDone PROVE IInv'
  OBVIOUS
<1> USE DEF IInv
<1> DEFINE m == Head(queue)
           e == m.entry
<1>1. /\ m.kind = "update" /\ ~ m.rebased /\ phase = "idle"
      /\ e \in Entries /\ m.late \in BOOLEAN
      /\ Tail(queue) \in Seq(Done \cup Replacement \cup {Refresh})
  BY DoneFacts DEF UpdateDone, AtHand, DoneKinds
<1>2. /\ installedSet' = installedSet \cup {e}
      /\ blurred' = blurred \cup ((known \cap {e}) \ installedSet)
      /\ Current = installedSet /\ Current' = installedSet'
      /\ UNCHANGED <<phase, listed, known>>
  BY <1>1 DEF UpdateDone, SetAfter, Current
<1>3. TypeOK'
  <2>1. missed' \in BOOLEAN
    BY <1>1 DEF UpdateDone, TypeOK
  <2> QED BY <1>1, <1>2, <2>1, HandlerType DEF UpdateDone, TypeOK
<1>4. LibraryFollows'
  <2> SUFFICES ASSUME NEW g \in Groups, g \cap blurred' = {} PROVE Follows(g)'
    BY <1>1, <1>2 DEF LibraryFollows, Follows
  <2>1. Follows(g)
    BY <1>1, <1>2 DEF LibraryFollows, Follows
  <2> QED BY <2>1, <1>2 DEF Follows
<1> QED BY <1>3, <1>4

LEMMA RemoveStep == IInv /\ RemoveDone => IInv'
<1> SUFFICES ASSUME IInv, RemoveDone PROVE IInv'
  OBVIOUS
<1> USE DEF IInv
<1> DEFINE m == Head(queue)
           e == m.entry
<1>1. /\ m.kind = "remove" /\ phase = "idle"
      /\ e \in Entries /\ m.late \in BOOLEAN
      /\ Tail(queue) \in Seq(Done \cup Replacement \cup {Refresh})
  BY DoneFacts DEF RemoveDone, AtHand, DoneKinds
<1>2. /\ installedSet' = installedSet \ {e}
      /\ listed' = IF Group(e) \cap known \cap installedSet' # {} THEN listed
                   ELSE listed \ {Group(e)}
      /\ Current = installedSet /\ Current' = installedSet'
      /\ UNCHANGED <<phase, known, blurred>>
  BY <1>1 DEF RemoveDone, SetAfter, AnyInstalled, Current
<1>3. TypeOK'
  <2>1. missed' \in BOOLEAN
    BY <1>1 DEF RemoveDone, TypeOK
  <2> QED BY <1>1, <1>2, <2>1, HandlerType DEF RemoveDone, TypeOK
<1>4. LibraryFollows'
  <2> SUFFICES ASSUME NEW g \in Groups, g \cap blurred = {} PROVE Follows(g)'
    BY <1>1, <1>2 DEF LibraryFollows, Follows
  <2>1. Follows(g)
    BY <1>1 DEF LibraryFollows, Follows
  <2>2. CASE g = Group(e)
    BY <2>1, <2>2, <1>2 DEF Follows
  <2>3. CASE g # Group(e)
    <3>1. e \notin g
      BY <2>3, <1>1, GroupFacts
    <3> QED BY <2>1, <2>3, <3>1, <1>2 DEF Follows
  <2> QED BY <2>2, <2>3
<1> QED BY <1>3, <1>4

LEMMA RebaseStep == IInv /\ RebaseDone => IInv'
<1> SUFFICES ASSUME IInv, RebaseDone PROVE IInv'
  OBVIOUS
<1> USE DEF IInv
<1> DEFINE m == Head(queue)
           e == m.entry
<1>1. /\ m.kind \in {"update", "remove"} /\ m.rebased
      /\ phase = "idle" /\ e \in Entries /\ m.late \in BOOLEAN
      /\ Tail(queue) \in Seq(Done \cup Replacement \cup {Refresh})
  BY DoneFacts DEF RebaseDone, DoneKinds
<1>2. /\ installedSet' = installedSet \ {e}
      /\ listed' = listed \ {Group(e)}
      /\ blurred' = blurred \cup (Group(e) \cap known \cap installedSet')
      /\ Current = installedSet /\ Current' = installedSet'
      /\ UNCHANGED <<phase, known>>
  BY <1>1 DEF RebaseDone, SetAfter, Current
<1>3. TypeOK'
  <2>1. missed' \in BOOLEAN
    BY <1>1 DEF RebaseDone, TypeOK
  <2> QED BY <1>1, <1>2, <2>1, HandlerType, GroupFacts DEF RebaseDone, TypeOK
<1>4. LibraryFollows'
  <2> SUFFICES ASSUME NEW g \in Groups, g \cap blurred' = {} PROVE Follows(g)'
    BY <1>1, <1>2 DEF LibraryFollows, Follows
  <2>1. Follows(g)
    BY <1>1, <1>2 DEF LibraryFollows, Follows
  <2>2. CASE g = Group(e)
    BY <2>1, <2>2, <1>2 DEF Follows
  <2>3. CASE g # Group(e)
    <3>1. e \notin g
      BY <2>3, <1>1, GroupFacts
    <3> QED BY <2>1, <2>3, <3>1, <1>2 DEF Follows
  <2> QED BY <2>2, <2>3
<1> QED BY <1>3, <1>4

LEMMA ReplaceStep == IInv /\ ReplaceEntry => IInv'
<1> SUFFICES ASSUME IInv, ReplaceEntry PROVE IInv'
  OBVIOUS
<1> USE DEF IInv
<1> DEFINE e == Head(queue).entry
<1>1. /\ phase = "idle" /\ e \in Entries
      /\ Tail(queue) \in Seq(Done \cup Replacement \cup {Refresh})
  BY HeadFacts DEF ReplaceEntry, AtHand
<1>2. /\ known' = known \cup {e}
      /\ listed' = IF e \in installedSet THEN listed \cup {Group(e)} ELSE listed
      /\ Current = installedSet /\ Current' = installedSet
      /\ UNCHANGED <<phase, installedSet, blurred>>
  BY <1>1 DEF ReplaceEntry, Current
<1>3. TypeOK'
  BY <1>1, <1>2, HandlerType, GroupFacts DEF ReplaceEntry, TypeOK
<1>4. LibraryFollows'
  <2> SUFFICES ASSUME NEW g \in Groups, g \cap blurred = {} PROVE Follows(g)'
    BY <1>1, <1>2 DEF LibraryFollows, Follows
  <2>1. Follows(g)
    BY <1>1 DEF LibraryFollows, Follows
  <2>2. CASE g = Group(e)
    <3>1. e \in g
      BY <2>2, <1>1, GroupFacts
    <3> QED BY <2>1, <2>2, <3>1, <1>2 DEF Follows
  <2>3. CASE g # Group(e)
    <3>1. e \notin g
      BY <2>3, <1>1, GroupFacts
    <3> QED BY <2>1, <2>3, <3>1, <1>2 DEF Follows
  <2> QED BY <2>2, <2>3
<1> QED BY <1>3, <1>4

\* The enumeration: what it looks at by the set of another time is blurred.
LEMMA VisitStep == IInv /\ Enumerate => IInv'
<1> SUFFICES ASSUME IInv, Enumerate PROVE IInv'
  OBVIOUS
<1> USE DEF IInv
<1>1. ASSUME NEW e \in Entries, BeginVisit(e)
      PROVE  IInv'
  <2>1. LibraryFollows'
    BY <1>1, StillFollows DEF BeginVisit, Current
  <2>2. syncs' \in 0..MaxSyncs
    BY <1>1, BoundsAssumption DEF BeginVisit, TypeOK
  <2>3. [entry |-> e, installed |-> e \in installedSet] \in Visit
    BY DEF Visit
  <2>4. visits' \subseteq Visit
    BY <1>1, <2>3 DEF BeginVisit, TypeOK
  <2> QED BY <1>1, <2>1, <2>2, <2>4 DEF BeginVisit, TypeOK
<1>2. ASSUME NEW v \in visits, EndVisit(v)
      PROVE  IInv'
  <2> DEFINE e == v.entry
  <2>1. e \in Entries /\ v.installed \in BOOLEAN
    BY DEF TypeOK, Visit
  <2>2. /\ known' = known \cup {e}
        /\ listed' = IF v.installed THEN listed \cup {Group(e)} ELSE listed
        /\ blurred' = IF v.installed = (e \in Current) THEN blurred
                      ELSE blurred \cup {e}
        /\ Current' = Current
        /\ UNCHANGED phase
    BY <1>2 DEF EndVisit, Current
  <2>3. TypeOK'
    <3>1. listed' \subseteq Groups
      BY <2>1, <2>2, GroupFacts DEF TypeOK
    <3>2. known' \subseteq Entries /\ blurred' \subseteq Entries
      BY <2>1, <2>2 DEF TypeOK
    <3> QED BY <1>2, <3>1, <3>2, HandlerType DEF EndVisit, TypeOK
  <2>4. LibraryFollows'
    <3> SUFFICES ASSUME phase # "starting", NEW g \in Groups, g \cap blurred' = {}
                 PROVE  Follows(g)'
      BY <2>2 DEF LibraryFollows, Follows
    <3>0. g \cap blurred = {} /\ (e \in g => (v.installed <=> e \in Current))
      BY <2>1, <2>2
    <3>1. Follows(g)
      BY <3>0 DEF LibraryFollows, Follows
    <3>2. CASE g = Group(e)
      <4>1. e \in g
        BY <3>2, <2>1, GroupFacts
      <4> QED BY <3>0, <3>1, <3>2, <4>1, <2>2 DEF Follows
    <3>3. CASE g # Group(e)
      <4>1. e \notin g
        BY <3>3, <2>1, GroupFacts
      <4> QED BY <3>1, <3>3, <4>1, <2>2 DEF Follows
    <3> QED BY <3>2, <3>3
  <2> QED BY <2>3, <2>4
<1> QED BY <1>1, <1>2 DEF Enumerate

LEMMA ReadStep ==
    ASSUME IInv, NEW S \in SUBSET Entries,
           NEW before \in Phases, NEW after \in Phases,
           before \notin {"starting", "writing"}, after \notin {"starting", "writing"},
           missed' \in BOOLEAN, ReadInstallation(S, before, after)
    PROVE  IInv'
<1> USE DEF IInv
<1>1. LibraryFollows'
  BY StillFollows DEF ReadInstallation, Current
<1>2. transit' \subseteq Done
  BY AgedFacts DEF ReadInstallation, TypeOK
<1>3. queue' \in Seq(Done \cup Replacement \cup {Refresh})
  <2>1. \A i \in 1..Len(queue) : queue[i] \in Done \cup Replacement \cup {Refresh}
    BY DEF TypeOK
  <2>2. \A i \in 1..Len(queue) :
          Aged(queue[i], S) \in Done \cup Replacement \cup {Refresh}
    BY <2>1, AgedFacts
  <2>3. queue' = [i \in 1..Len(queue) |-> Aged(queue[i], S)] /\ Len(queue) \in Nat
    BY DEF ReadInstallation, TypeOK
  <2> QED BY <2>2, <2>3
<1> QED BY <1>1, <1>2, <1>3 DEF ReadInstallation, TypeOK

LEMMA DiffStep ==
    ASSUME IInv, NEW read \in SUBSET Entries, ApplyDiff(read)
    PROVE  IInv'
<1> USE DEF IInv
<1> DEFINE diff == (installedSet \ snapshot) \cup (snapshot \ installedSet)
           gone == read \ snapshot
           come == read \cap snapshot
           emptied == {g \in listed : g \cap gone # {} /\ ~ AnyInstalled(g, snapshot)}
<1>1. /\ phase = "diffing" /\ phase' = "writing" /\ read \subseteq diff
      /\ listed' = (listed \ emptied) \cup GroupsOf(come)
      /\ blurred' = blurred \cup ((diff \ read) \cap (known \cup installedSet))
      /\ UNCHANGED <<known, installedSet, snapshot>>
  BY DEF ApplyDiff
<1>2. Current = installedSet /\ Current' = snapshot
  BY <1>1 DEF Current
<1>3. TypeOK'
  <2>1. listed' \subseteq Groups
    BY <1>1, GroupsOfFacts DEF TypeOK
  <2> QED BY <1>1, <2>1, HandlerType DEF ApplyDiff, TypeOK, Phases
<1>4. LibraryFollows'
  <2> SUFFICES ASSUME NEW g \in Groups, g \cap blurred' = {}
               PROVE  /\ g \cap known \cap snapshot # {} => g \in listed'
                      /\ g \in listed' => g \cap snapshot # {}
    BY <1>1, <1>2 DEF LibraryFollows
  <2>1. /\ g \cap known \cap installedSet # {} => g \in listed
        /\ g \in listed => g \cap installedSet # {}
    BY <1>1, <1>2 DEF LibraryFollows
  <2>2. g \cap (known \cup installedSet) \cap diff \subseteq read
    BY <1>1
  <2>3. /\ g \cap known \cap come # {} => g \in GroupsOf(come)
        /\ g \in GroupsOf(come) => g \cap come # {}
    BY GroupsOfFacts
  <2>4. ASSUME g \cap known \cap snapshot # {} PROVE g \in listed'
    <3>1. PICK d \in g : d \in known /\ d \in snapshot
      BY <2>4
    <3>2. g \notin emptied
      BY <2>4 DEF AnyInstalled
    <3>3. CASE d \in installedSet
      BY <3>1, <3>2, <3>3, <2>1, <1>1
    <3>4. CASE d \notin installedSet
      <4>1. d \in come
        BY <3>1, <3>4, <2>2
      <4> QED BY <3>1, <4>1, <2>3, <1>1
    <3> QED BY <3>3, <3>4
  <2>5. ASSUME g \in listed' PROVE g \cap snapshot # {}
    <3>1. CASE g \in GroupsOf(come)
      BY <3>1, <2>3
    <3>2. CASE g \in listed /\ g \notin emptied
      <4>1. PICK d \in g : d \in installedSet
        BY <3>2, <2>1
      <4>2. d \in snapshot \/ d \in gone
        BY <4>1, <2>2
      <4> QED BY <3>2, <4>1, <4>2 DEF AnyInstalled
    <3> QED BY <2>5, <3>1, <3>2, <1>1
  <2> QED BY <2>4, <2>5
<1> QED BY <1>3, <1>4

LEMMA AdoptStep == IInv /\ AdoptSet => IInv'
<1> SUFFICES ASSUME IInv, AdoptSet PROVE IInv'
  OBVIOUS
<1>1. LibraryFollows'
  BY StillFollows DEF AdoptSet, Current, IInv
<1>2. TypeOK'
  BY HandlerType DEF AdoptSet, IInv, TypeOK, Phases
<1> QED BY <1>1, <1>2 DEF IInv

LEMMA StepInvariant == IInv /\ [Next]_vars => IInv'
<1> SUFFICES ASSUME IInv, [Next]_vars PROVE IInv'
  OBVIOUS
<1>1. CASE External
  BY <1>1, ExternalStep
<1>2. ASSUME NEW ids \in SUBSET Entries, LoadGroups(ids)
      PROVE  IInv'
  <2>1. TypeOK'
    <3>1. missed' \in BOOLEAN
      BY <1>2 DEF LoadGroups
    <3> QED BY <1>2, <3>1 DEF LoadGroups, IInv, TypeOK, Phases, externalVars
  <2>2. Current' = ids
    BY <1>2 DEF LoadGroups, Current
  <2>3. listed' = {g \in Groups : g \cap known' \cap ids # {}}
    BY <1>2 DEF LoadGroups
  <2>4. LibraryFollows'
    BY <2>2, <2>3 DEF LibraryFollows
  <2> QED BY <2>1, <2>4 DEF IInv
<1>3. CASE Watch
  <2>1. LibraryFollows'
    BY <1>3, StillFollows DEF Watch, IInv, Current
  <2> QED BY <1>3, <2>1 DEF Watch, IInv, TypeOK, Phases, externalVars
<1>4. CASE Respond
  <2>1. CASE DropDone
    <3>1. LibraryFollows'
      BY <2>1, StillFollows DEF DropDone, IInv, appVars, Current
    <3>2. Tail(queue) \in Seq(Done \cup Replacement \cup {Refresh})
      BY <2>1, HeadFacts DEF DropDone, IInv
    <3> QED BY <2>1, <3>1, <3>2 DEF DropDone, IInv, TypeOK, appVars,
               externalVars
  <2>2. CASE InstallDone
    BY <2>2, InstallStep
  <2>3. CASE UpdateDone
    BY <2>3, UpdateStep
  <2>4. CASE RemoveDone
    BY <2>4, RemoveStep
  <2>5. CASE RebaseDone
    BY <2>5, RebaseStep
  <2>6. CASE ReplaceEntry
    BY <2>6, ReplaceStep
  <2>7. CASE BeginRefresh
    <3>1. LibraryFollows'
      BY <2>7, StillFollows DEF BeginRefresh, AtHand, IInv, Current
    <3>2. Tail(queue) \in Seq(Done \cup Replacement \cup {Refresh})
      BY <2>7, HeadFacts DEF BeginRefresh, AtHand, IInv
    <3> QED BY <2>7, <3>1, <3>2 DEF BeginRefresh, IInv, TypeOK, Phases,
               externalVars
  <2>8. CASE ReadSystem
    BY <2>8, ReadStep DEF ReadSystem, Phases
  <2>9. CASE ReadUser
    BY <2>9, ReadStep, EntriesAssumption DEF ReadUser, Phases, IInv, TypeOK
  <2>10. CASE RetrieveFails
    <3>1. LibraryFollows'
      BY <2>10, StillFollows DEF RetrieveFails, IInv, Current
    <3> QED BY <2>10, <3>1 DEF RetrieveFails, IInv, TypeOK, Phases,
               externalVars
  <2>11. ASSUME NEW read \in SUBSET Entries, ApplyDiff(read)
         PROVE  IInv'
    BY <2>11, DiffStep
  <2>12. CASE AdoptSet
    BY <2>12, AdoptStep
  <2> QED
    BY <1>4, <2>1, <2>2, <2>3, <2>4, <2>5, <2>6, <2>7, <2>8, <2>9, <2>10, <2>11,
       <2>12 DEF Respond
<1>5. CASE Enumerate
  BY <1>5, VisitStep
<1>6. CASE UNCHANGED vars
  <2>1. LibraryFollows'
    BY <1>6, StillFollows DEF vars, IInv, Current
  <2> QED BY <1>6, <2>1 DEF vars, IInv, TypeOK
<1> QED BY <1>1, <1>2, <1>3, <1>4, <1>5, <1>6 DEF Next

-----------------------------------------------------------------------------
(* What is on its way: queues that grow and shrink, and one entry *)

Messages == Done \cup Replacement \cup {Refresh}

LEMMA TailFacts ==
    ASSUME NEW q, q \in Seq(Messages), q # <<>>
    PROVE  /\ Len(q) \in Nat /\ Len(Tail(q)) = Len(q) - 1
           /\ Head(q) = q[1]
           /\ \A i \in 1..Len(Tail(q)) :
                 i + 1 \in 1..Len(q) /\ Tail(q)[i] = q[i + 1]
           /\ \A i \in 1..Len(q) :
                 i = 1 \/ (i - 1 \in 1..Len(Tail(q)) /\ Tail(q)[i - 1] = q[i])
OBVIOUS

LEMMA AppendFacts ==
    ASSUME NEW q, q \in Seq(Messages), NEW m
    PROVE  /\ Len(q) \in Nat /\ Len(Append(q, m)) = Len(q) + 1
           /\ Append(q, m)[Len(q) + 1] = m
           /\ \A i \in 1..Len(q) : Append(q, m)[i] = q[i]
OBVIOUS

\* The newest of what is in transit about an entry.
LEMMA NewestKept ==
    ASSUME NEW e, \A n : n.entry = e => (n \in transit' <=> n \in transit),
           NEW m, m.entry = e
    PROVE  Newest(m)' <=> Newest(m)
BY DEF Newest

\* A message that is not about an entry comes or goes, and what else there
\* is about the entry stays.
LEMMA SettledAppend ==
    ASSUME TypeOK, NEW e, Settled(e), NEW m, ~ About(m, e),
           queue' = Append(queue, m),
           \A n : n.entry = e => (n \in transit' <=> n \in transit),
           e \in Base' <=> e \in Base, e \in installed' <=> e \in installed
    PROVE  Settled(e)'
<1> SUFFICES ASSUME ~ Overtaken(e)' PROVE Agrees(e)'
  BY DEF Settled
<1>1. /\ Len(queue) \in Nat /\ Len(queue') = Len(queue) + 1
      /\ queue'[Len(queue) + 1] = m
      /\ \A i \in 1..Len(queue) : queue'[i] = queue[i]
  BY AppendFacts DEF TypeOK, Messages
<1>2. ~ Overtaken(e)
  BY <1>1 DEF Overtaken
<1>3. InTransit(e)' <=> InTransit(e)
  BY DEF InTransit
<1>4. Announced(e)' <=> Announced(e)
  BY <1>1 DEF Announced
<1>5. \A i \in 1..Len(queue') :
        LastAbout(i, e)' => i \in 1..Len(queue) /\ LastAbout(i, e)
  BY <1>1 DEF LastAbout
<1>6. \A n : n.entry = e => (Newest(n)' <=> Newest(n))
  BY NewestKept
<1> QED BY <1>1, <1>2, <1>3, <1>4, <1>5, <1>6 DEF Settled, Agrees

\* After the head is taken the last message about an entry is still the last.
LEMMA LastKept ==
    ASSUME TypeOK, NEW e, queue # <<>>, queue' = Tail(queue),
           NEW i \in 1..Len(queue'), LastAbout(i, e)'
    PROVE  LastAbout(i + 1, e)
<1>1. /\ Len(queue) \in Nat /\ Len(queue') = Len(queue) - 1
      /\ \A j \in 1..Len(queue') :
            j + 1 \in 1..Len(queue) /\ queue'[j] = queue[j + 1]
      /\ \A j \in 1..Len(queue) :
            j = 1 \/ (j - 1 \in 1..Len(queue') /\ queue'[j - 1] = queue[j])
  BY TailFacts DEF TypeOK, Messages
<1>2. i + 1 \in 1..Len(queue) /\ About(queue[i + 1], e)
  BY <1>1 DEF LastAbout
<1>3. ASSUME NEW j \in 1..Len(queue), About(queue[j], e)
      PROVE  j <= i + 1
  <2>1. j = 1 \/ (j - 1 \in 1..Len(queue') /\ About(queue'[j - 1], e))
    BY <1>1, <1>3
  <2>2. j = 1 \/ j - 1 <= i
    BY <2>1 DEF LastAbout
  <2> QED BY <2>2, <1>1
<1> QED BY <1>2, <1>3 DEF LastAbout

LEMMA SettledTail ==
    ASSUME TypeOK, NEW e, Settled(e), queue # <<>>, ~ About(Head(queue), e),
           queue' = Tail(queue), UNCHANGED <<transit, installed>>,
           e \in Base' <=> e \in Base
    PROVE  Settled(e)'
<1> SUFFICES ASSUME ~ Overtaken(e)' PROVE Agrees(e)'
  BY DEF Settled
<1>1. /\ Len(queue) \in Nat /\ Len(queue') = Len(queue) - 1
      /\ Head(queue) = queue[1]
      /\ \A i \in 1..Len(queue') :
            i + 1 \in 1..Len(queue) /\ queue'[i] = queue[i + 1]
      /\ \A i \in 1..Len(queue) :
            i = 1 \/ (i - 1 \in 1..Len(queue') /\ queue'[i - 1] = queue[i])
  BY TailFacts DEF TypeOK, Messages
<1>2. ~ Overtaken(e)
  <2>1. ~ \E i \in 1..Len(queue) : About(queue[i], e) /\ queue[i].late
    BY <1>1 DEF Overtaken
  <2> QED BY <2>1 DEF Overtaken
<1>3. InTransit(e)' <=> InTransit(e)
  BY DEF InTransit
<1>4. Announced(e)' <=> Announced(e)
  BY <1>1 DEF Announced
<1>5. \A i \in 1..Len(queue') : LastAbout(i, e)' => LastAbout(i + 1, e)
  BY LastKept
<1>6. \A n : n.entry = e => (Newest(n)' <=> Newest(n))
  BY NewestKept
<1> QED BY <1>1, <1>2, <1>3, <1>4, <1>5, <1>6 DEF Settled, Agrees

\* The handler of a message about an entry makes of it what it says.
LEMMA SettledHandled ==
    ASSUME TypeOK, NEW e, Settled(e), queue # <<>>, About(Head(queue), e),
           ~ Head(queue).late,
           queue' = Tail(queue), UNCHANGED <<transit, installed>>,
           e \in Base' <=> Says(Head(queue))
    PROVE  Settled(e)'
<1> SUFFICES ASSUME ~ Overtaken(e)' PROVE Agrees(e)'
  BY DEF Settled
<1>1. /\ Len(queue) \in Nat /\ Len(queue') = Len(queue) - 1
      /\ Head(queue) = queue[1]
      /\ \A i \in 1..Len(queue') :
            i + 1 \in 1..Len(queue) /\ queue'[i] = queue[i + 1]
      /\ \A i \in 1..Len(queue) :
            i = 1 \/ (i - 1 \in 1..Len(queue') /\ queue'[i - 1] = queue[i])
  BY TailFacts DEF TypeOK, Messages
<1>2. ~ Overtaken(e)
  <2>1. ~ \E i \in 1..Len(queue) : About(queue[i], e) /\ queue[i].late
    BY <1>1 DEF Overtaken
  <2> QED BY <2>1 DEF Overtaken
<1>3. InTransit(e)' <=> InTransit(e)
  BY DEF InTransit
<1>5. \A i \in 1..Len(queue') : LastAbout(i, e)' => LastAbout(i + 1, e)
  BY LastKept
<1>6. ASSUME ~ Announced(e)'
      PROVE  1 \in 1..Len(queue) /\ LastAbout(1, e)
  <2>1. 1 \in 1..Len(queue)
    BY <1>1 DEF TypeOK
  <2>2. ASSUME NEW j \in 1..Len(queue), About(queue[j], e)
        PROVE  j = 1
    BY <1>1, <1>6, <2>2 DEF Announced
  <2> QED BY <1>1, <2>1, <2>2 DEF LastAbout
<1>7. \A n : n.entry = e => (Newest(n)' <=> Newest(n))
  BY NewestKept
<1> QED BY <1>1, <1>2, <1>3, <1>5, <1>6, <1>7 DEF Settled, Agrees

-----------------------------------------------------------------------------
(* The account of what is on its way *)

LEMMA ReadIdle ==
    /\ phase = "idle" => Read = Entries /\ Base = installedSet
    /\ phase = "loading" => Read = Entries /\ Base = installedSet
    /\ phase = "diffing" => Read = Entries /\ Base = snapshot
    /\ phase = "writing" => Read = Entries /\ Base = snapshot
    /\ phase = "halfway" => Read = Entries \ UserEntries /\ Base = snapshot
    /\ phase = "refreshing" => Read = {}
BY DEF Read, Base

LEMMA OrderedKept ==
    ASSUME TypeOK, Ordered, UNCHANGED transit, changes' \in {changes, changes + 1}
    PROVE  Ordered'
<1>1. \A m \in transit : m.at \in Int
  BY DEF TypeOK, Done
<1> QED BY <1>1 DEF TypeOK, Ordered

LEMMA HandlerAccount ==
    ASSUME IInv, Accounts, phase = "idle", phase' = "idle", queue # <<>>,
           Head(queue).kind \in DoneKinds, queue' = Tail(queue),
           installedSet' = SetAfter(Head(queue)),
           missed' = (missed \/ Head(queue).late),
           UNCHANGED externalVars
    PROVE  Accounts'
<1> DEFINE m == Head(queue)
<1>1. /\ m.entry \in Entries /\ m.late \in BOOLEAN
      /\ \A i \in 1..Len(queue') :
            i + 1 \in 1..Len(queue) /\ queue'[i] = queue[i + 1]
      /\ \A i \in 1..Len(queue) :
            i = 1 \/ (i - 1 \in 1..Len(queue') /\ queue'[i - 1] = queue[i])
      /\ m = queue[1]
  BY DoneFacts, TailFacts DEF IInv, TypeOK, Messages
<1>2. Disturbed' <=> Disturbed
  BY <1>1 DEF Disturbed, externalVars, DoneKinds
<1>3. ASSUME ~ missed', ~ Disturbed', NEW e \in Entries
      PROVE  Settled(e)'
  <2>1. Settled(e) /\ ~ m.late
    BY <1>2, <1>3, ReadIdle DEF Accounts, Account
  <2>2. CASE m.entry = e
    <3>1. About(m, e)
      BY <2>2 DEF About
    <3>2. e \in Base' <=> Says(m)
      BY <2>2, ReadIdle DEF Base, SetAfter, Says
    <3> QED BY <2>1, <3>1, <3>2, SettledHandled DEF IInv, externalVars
  <2>3. CASE m.entry # e
    <3>1. ~ About(m, e)
      BY <2>3 DEF About
    <3>2. e \in Base' <=> e \in Base
      BY <2>3, ReadIdle DEF Base, SetAfter
    <3> QED BY <2>1, <3>1, <3>2, SettledTail DEF IInv, externalVars
  <2> QED BY <2>2, <2>3
<1>4. Account'
  BY <1>3, ReadIdle DEF Account, Read
<1>5. Ordered'
  BY OrderedKept DEF IInv, Accounts, externalVars
<1> QED BY <1>4, <1>5 DEF Accounts, NothingSent, Watched, externalVars

LEMMA OwnChangeAccount ==
    ASSUME IInv, Accounts, NEW e0 \in Entries, NEW kind \in DoneKinds,
           NEW rebased \in BOOLEAN, NEW loose \in BOOLEAN,
           OwnChange(e0, kind, rebased, loose)
    PROVE  Accounts'
<1> DEFINE m == [kind |-> kind, entry |-> e0, rebased |-> rebased, late |-> FALSE,
                 loose |-> loose, at |-> changes']
<1>1. /\ transit' = transit \cup {m}
      /\ UNCHANGED <<queue, phase, snapshot, installedSet, events, missed>>
      /\ Watched
  BY DEF OwnChange, appVars
<1>2. m.entry = e0 /\ m.at = changes' /\ m.kind = kind /\ m.rebased = rebased
  OBVIOUS
<1> HIDE DEF m
<1>3. /\ changes \in Int /\ changes' = changes + 1
      /\ \A n \in transit : n.at \in Int /\ n.at <= changes
  BY DEF OwnChange, Change, IInv, TypeOK, Done, Accounts, Ordered
<1>4. Ordered' /\ NothingSent'
  <2>1. ASSUME NEW n \in transit', NEW k \in transit', n.at = k.at
        PROVE  n = k
    BY <2>1, <1>1, <1>2, <1>3 DEF Accounts, Ordered
  <2>2. \A n \in transit' : n.at <= changes'
    BY <1>1, <1>2, <1>3
  <2> QED BY <1>1, <2>1, <2>2 DEF Accounts, Ordered, NothingSent, Watched
<1>5. Says(m) <=> e0 \in installed'
  BY <1>2 DEF OwnChange, Says, DoneKinds
<1>6. ASSUME NEW e, Settled(e), e # e0
      PROVE  Settled(e)'
  <2>1. e \in installed' <=> e \in installed
    BY <1>6 DEF OwnChange
  <2>2. \A n : n.entry = e => (n \in transit' <=> n \in transit)
    BY <1>1, <1>2, <1>6
  <2>3. Overtaken(e)' <=> Overtaken(e)
    BY <1>1, <2>2 DEF Overtaken
  <2>4. InTransit(e)' <=> InTransit(e)
    BY <2>2 DEF InTransit
  <2>5. Announced(e)' <=> Announced(e)
    BY <1>1 DEF Announced
  <2>6. \A i : LastAbout(i, e)' <=> LastAbout(i, e)
    BY <1>1 DEF LastAbout
  <2>7. \A n : n.entry = e => (Newest(n)' <=> Newest(n))
    BY <2>2, NewestKept
  <2> QED BY <1>1, <1>6, <2>1, <2>2, <2>3, <2>4, <2>5, <2>6, <2>7 DEF Settled,
             Agrees, Base
<1>7. Settled(e0)'
  <2>1. InTransit(e0)'
    BY <1>1, <1>2 DEF InTransit
  <2>2. ASSUME NEW n \in transit', n.entry = e0, Newest(n)'
        PROVE  n = m
    <3>1. m.at <= n.at
      BY <2>2, <1>1, <1>2 DEF Newest
    <3> QED BY <3>1, <1>1, <1>2, <1>3
  <2> QED BY <1>5, <2>1, <2>2 DEF Settled, Agrees
<1>8. Account'
  BY <1>1, <1>6, <1>7 DEF Accounts, Account, Disturbed, Read
<1> QED BY <1>4, <1>8 DEF Accounts

LEMMA SendAccount ==
    ASSUME IInv, Accounts, NEW m \in transit, SendDone(m)
    PROVE  Accounts'
<1> DEFINE sent == [m EXCEPT !.loose = FALSE, !.at = 0]
           Old(n) == n.entry = m.entry /\ n.at < m.at
           Sends(n) == IF Old(n) THEN [n EXCEPT !.late = TRUE] ELSE n
<1>1. /\ transit' = {Sends(n) : n \in transit \ {m}}
      /\ queue' = Append(queue, sent)
      /\ UNCHANGED <<installed, phase, snapshot, installedSet, events, missed,
                     changes>>
  BY DEF SendDone, appVars
<1>2. m \in Done /\ \A n \in transit : n \in Done
  BY DEF IInv, TypeOK
<1>3. /\ sent.kind = m.kind /\ sent.entry = m.entry /\ sent.late = m.late
      /\ Says(sent) <=> Says(m)
      /\ m.kind \in DoneKinds
  BY <1>2 DEF Done, Says
<1>4. ASSUME NEW n \in transit
      PROVE  /\ Sends(n).entry = n.entry /\ Sends(n).at = n.at
             /\ Old(n) => Sends(n).late
             /\ ~ Old(n) => Sends(n) = n
             /\ n.at \in Int
  <2>1. n \in Done
    BY <1>2
  <2> QED BY <2>1 DEF Done
<1>5. /\ Len(queue) \in Nat /\ Len(queue') = Len(queue) + 1
      /\ queue'[Len(queue) + 1] = sent
      /\ \A i \in 1..Len(queue) : queue'[i] = queue[i]
  BY <1>1, AppendFacts DEF IInv, TypeOK, Messages
<1> HIDE DEF sent, Sends
<1>6. Ordered' /\ NothingSent'
  <2>1. ASSUME NEW n \in transit', NEW k \in transit', n.at = k.at
        PROVE  n = k
    <3>1. PICK n0 \in transit : n = Sends(n0)
      BY <1>1
    <3>2. PICK k0 \in transit : k = Sends(k0)
      BY <1>1
    <3>3. n0 = k0
      BY <2>1, <3>1, <3>2, <1>4 DEF Accounts, Ordered
    <3> QED BY <3>1, <3>2, <3>3
  <2>2. \A n \in transit' : n.at <= changes'
    BY <1>1, <1>4 DEF Accounts, Ordered
  <2>3. Watched /\ Watched'
    BY <1>1 DEF Accounts, NothingSent, Watched
  <2> QED BY <2>1, <2>2, <2>3 DEF Ordered, NothingSent
<1>7. Disturbed' <=> Disturbed
  BY <1>1, <1>3, <1>5 DEF Disturbed, DoneKinds
<1>8. ASSUME NEW e, Settled(e), m.entry # e
      PROVE  Settled(e)'
  <2>1. ~ About(sent, e)
    BY <1>3, <1>8 DEF About
  <2>2. \A n : n.entry = e => (n \in transit' <=> n \in transit)
    <3>1. ASSUME NEW n, n.entry = e, n \in transit'
          PROVE  n \in transit
      <4>1. PICK k \in transit : n = Sends(k)
        BY <3>1, <1>1
      <4> QED BY <4>1, <3>1, <1>4, <1>8
    <3>2. ASSUME NEW n, n.entry = e, n \in transit
          PROVE  n \in transit'
      <4>1. n \in transit \ {m} /\ Sends(n) = n
        BY <3>2, <1>4, <1>8
      <4> QED BY <4>1, <1>1
    <3> QED BY <3>1, <3>2
  <2> QED BY <1>1, <1>8, <2>1, <2>2, SettledAppend DEF IInv, Base
<1>9. ASSUME NEW e, Settled(e), m.entry = e
      PROVE  Settled(e)'
  <2> SUFFICES ASSUME ~ Overtaken(e)' PROVE Agrees(e)'
    BY DEF Settled
  <2>1. About(sent, e) /\ ~ m.late
    <3>1. About(sent, e)
      BY <1>3, <1>9 DEF About
    <3>2. Len(queue) + 1 \in 1..Len(queue')
      BY <1>5
    <3> QED BY <3>1, <3>2, <1>3, <1>5 DEF Overtaken
  <2>2. ASSUME NEW n \in transit, n # m, n.entry = e
        PROVE  n \in transit' /\ ~ n.late /\ m.at < n.at
    <3>1. Sends(n) \in transit' /\ Sends(n).entry = e
      BY <2>2, <1>1, <1>4
    <3>2. ~ Old(n)
      BY <3>1, <1>4 DEF Overtaken
    <3>3. n.at # m.at
      BY <2>2 DEF Accounts, Ordered
    <3> QED BY <3>1, <3>2, <3>3, <2>2, <1>4, <1>9 DEF Overtaken
  <2>3. ASSUME NEW n \in transit', n.entry = e
        PROVE  n \in transit \ {m}
    <3>1. PICK k \in transit \ {m} : n = Sends(k)
      BY <1>1
    <3>2. m.at < k.at
      BY <3>1, <2>2, <2>3, <1>4
    <3>3. ~ Old(k)
      BY <3>2, <1>4
    <3> QED BY <3>1, <3>3, <1>4
  <2>4. ~ Overtaken(e)
    BY <2>1, <2>2, <1>5 DEF Overtaken
  <2>5. Agrees(e)
    BY <2>4, <1>9 DEF Settled
  <2>6. ASSUME NEW n \in transit', n.entry = e, Newest(n)'
        PROVE  Says(n) <=> e \in installed'
    <3>1. n \in transit /\ n # m
      BY <2>3, <2>6
    <3>2. ASSUME NEW k \in transit, k.entry = n.entry PROVE k.at <= n.at
      <4>1. CASE k = m
        BY <3>1, <4>1, <2>2, <2>6, <1>4
      <4>2. CASE k # m
        <5>1. k \in transit'
          BY <3>2, <4>2, <2>2, <2>6
        <5> QED BY <5>1, <3>2, <2>6 DEF Newest
      <4> QED BY <4>1, <4>2
    <3>3. Newest(n)
      BY <3>2 DEF Newest
    <3> QED BY <3>1, <3>3, <2>5, <2>6, <1>1 DEF Agrees
  <2>7. ASSUME ~ InTransit(e)'
        PROVE  Says(m) <=> e \in installed'
    <3>1. \A n \in transit : n.entry = m.entry => n = m
      BY <2>2, <2>7, <1>9 DEF InTransit
    <3>2. Newest(m)
      BY <3>1, <1>4 DEF Newest
    <3> QED BY <3>2, <2>5, <1>1, <1>9 DEF Agrees
  <2>8. Announced(e)'
    <3>1. Len(queue) + 1 \in 1..Len(queue')
      BY <1>5
    <3> QED BY <3>1, <1>5, <2>1 DEF Announced
  <2>9. \A i \in 1..Len(queue') : LastAbout(i, e)' => i = Len(queue) + 1
    BY <1>5, <2>1 DEF LastAbout
  <2> QED BY <1>3, <1>5, <2>6, <2>7, <2>8, <2>9 DEF Agrees
<1>10. Account'
  BY <1>1, <1>7, <1>8, <1>9 DEF Accounts, Account, Read
<1> QED BY <1>6, <1>10 DEF Accounts

LEMMA ReadAccount ==
    ASSUME IInv, Accounts, NEW S \in SUBSET Entries, NEW before, NEW after,
           ReadInstallation(S, before, after), missed' \in BOOLEAN,
           \/ /\ before = "refreshing" /\ after = "halfway"
              /\ S = Entries \ UserEntries
           \/ /\ before = "halfway" /\ after = "diffing"
              /\ S = UserEntries /\ missed' = missed
    PROVE  Accounts'
<1>1. /\ phase = before /\ phase' = after
      /\ snapshot' = (snapshot \ S) \cup (installed \cap S)
      /\ transit' = {Aged(m, S) : m \in transit}
      /\ queue' = [i \in 1..Len(queue) |-> Aged(queue[i], S)]
      /\ UNCHANGED <<installed, events>>
  BY DEF ReadInstallation
<1>2. /\ Len(queue') = Len(queue)
      /\ \A i \in 1..Len(queue) : queue'[i] = Aged(queue[i], S)
  BY <1>1 DEF IInv, TypeOK
<1>3. \A n \in transit : /\ Aged(n, S).kind = n.kind /\ Aged(n, S).entry = n.entry
                         /\ Aged(n, S).at = n.at
                         /\ n.entry \notin S => Aged(n, S) = n
                         /\ n.entry \in S => Aged(n, S).late
  <2> SUFFICES ASSUME NEW n \in transit
               PROVE  /\ Aged(n, S).kind = n.kind /\ Aged(n, S).entry = n.entry
                      /\ Aged(n, S).at = n.at
                      /\ n.entry \notin S => Aged(n, S) = n
                      /\ n.entry \in S => Aged(n, S).late
    OBVIOUS
  <2>1. n \in Done
    BY DEF IInv, TypeOK
  <2> QED BY <2>1 DEF Aged, Done
<1>4. \A i \in 1..Len(queue) :
        /\ queue'[i].kind = queue[i].kind
        /\ \A e : About(queue'[i], e) <=> About(queue[i], e)
        /\ \A e : About(queue[i], e) /\ e \in S => queue'[i].late
        /\ \A e : About(queue[i], e) /\ e \notin S => queue'[i] = queue[i]
  <2> SUFFICES ASSUME NEW i \in 1..Len(queue)
               PROVE  /\ queue'[i].kind = queue[i].kind
                      /\ \A e : About(queue'[i], e) <=> About(queue[i], e)
                      /\ \A e : About(queue[i], e) /\ e \in S => queue'[i].late
                      /\ \A e : About(queue[i], e) /\ e \notin S
                                => queue'[i] = queue[i]
    OBVIOUS
  <2>1. CASE queue[i].kind \in DoneKinds /\ queue[i].entry \in S
    <3>1. queue[i] \in Done
      <4>1. queue[i] \in Done \cup Replacement \cup {Refresh}
        BY DEF IInv, TypeOK
      <4> QED BY <2>1, <4>1 DEF Done, Replacement, Refresh, DoneKinds
    <3>2. queue'[i] = [queue[i] EXCEPT !.late = TRUE]
      BY <1>2, <2>1 DEF Aged
    <3> QED BY <2>1, <3>1, <3>2 DEF About, Done
  <2>2. CASE ~ (queue[i].kind \in DoneKinds /\ queue[i].entry \in S)
    <3>1. queue'[i] = queue[i]
      BY <1>2, <2>2 DEF Aged
    <3> QED BY <2>2, <3>1 DEF About
  <2> QED BY <2>1, <2>2
<1>5. Ordered' /\ NothingSent'
  <2>1. \A m, n \in transit' : m.at = n.at => m = n
    BY <1>1, <1>3 DEF Accounts, Ordered
  <2>2. \A m \in transit' : m.at <= changes'
    BY <1>1, <1>3 DEF Accounts, Ordered, ReadInstallation
  <2> QED BY <1>1, <2>1, <2>2 DEF Ordered, NothingSent, Watched
<1>6. Disturbed' <=> Disturbed
  BY <1>1, <1>2, <1>4 DEF Disturbed
<1>7. ASSUME NEW e \in S
      PROVE  Settled(e)'
  <2> SUFFICES ASSUME ~ Overtaken(e)' PROVE Settled(e)'
    BY DEF Settled
  <2>1. ~ \E n \in transit' : n.entry = e
    BY <1>1, <1>3, <1>7 DEF Overtaken
  <2>2. ~ \E i \in 1..Len(queue') : About(queue'[i], e)
    BY <1>2, <1>4, <1>7 DEF Overtaken
  <2>3. e \in Base' <=> e \in installed'
    BY <1>1, <1>7 DEF Base
  <2> QED BY <2>1, <2>2, <2>3 DEF Settled, Agrees, LastAbout
<1>8. ASSUME NEW e, e \notin S, Settled(e), phase = "halfway"
      PROVE  Settled(e)'
  <2>1. \A n : n.entry = e => (n \in transit' <=> n \in transit)
    BY <1>1, <1>3, <1>8
  <2>2. \A i \in 1..Len(queue) : About(queue[i], e) => queue'[i] = queue[i]
    BY <1>4, <1>8
  <2>3. Overtaken(e)' <=> Overtaken(e)
    BY <1>2, <1>4, <2>1, <2>2 DEF Overtaken
  <2>4. InTransit(e)' <=> InTransit(e)
    BY <2>1 DEF InTransit
  <2>5. Announced(e)' <=> Announced(e)
    BY <1>2, <1>4 DEF Announced
  <2>6. \A i : LastAbout(i, e)' <=> LastAbout(i, e)
    BY <1>2, <1>4 DEF LastAbout
  <2>7. e \in Base' <=> e \in Base
    BY <1>1, <1>8 DEF Base
  <2>8. \A i : LastAbout(i, e) => queue'[i] = queue[i]
    BY <2>2 DEF LastAbout
  <2>9. \A n : n.entry = e => (Newest(n)' <=> Newest(n))
    BY <2>1, NewestKept
  <2> QED BY <1>1, <1>2, <1>8, <2>1, <2>3, <2>4, <2>5, <2>6, <2>7, <2>8, <2>9 DEF
             Settled, Agrees
<1>9. Account'
  BY <1>1, <1>6, <1>7, <1>8, ReadIdle DEF Accounts, Account, Read
<1> QED BY <1>5, <1>9 DEF Accounts

\* A step that touches nothing of the account.
LEMMA AccountKept ==
    ASSUME IInv, Accounts, changes' \in {changes, changes + 1},
           UNCHANGED <<installed, transit, events, queue, missed>>,
           Watched => Watched', Base' = Base, Read' = Read
    PROVE  Accounts'
<1>1. Ordered' /\ NothingSent'
  BY OrderedKept DEF IInv, Accounts, NothingSent
<1>2. Disturbed' <=> Disturbed
  BY DEF Disturbed
<1>3. \A e : Settled(e)' <=> Settled(e)
  BY DEF Settled, Agrees, Newest, Overtaken, InTransit, LastAbout, Announced
<1> QED BY <1>1, <1>2, <1>3 DEF Accounts, Account

LEMMA AccountsInit == Init => Accounts
BY DEF Init, Accounts, Ordered, NothingSent, Account, Read

LEMMA AccountsStep == IInv /\ Accounts /\ [Next]_vars => Accounts'
<1> SUFFICES ASSUME IInv, Accounts, [Next]_vars PROVE Accounts'
  OBVIOUS
<1>1. ASSUME NEW e \in Entries, ForeignChange(e)
      PROVE  Accounts'
  <2>1. Disturbed'
    BY <1>1 DEF ForeignChange, Disturbed, IInv, TypeOK
  <2>2. Ordered'
    BY <1>1, OrderedKept DEF ForeignChange, Change, IInv, Accounts
  <2> QED BY <1>1, <2>1, <2>2 DEF ForeignChange, appVars, Accounts, Account,
             NothingSent, Watched
<1>2. ASSUME NEW e \in Entries, SyncEntry(e)
      PROVE  Accounts'
  <2> DEFINE m == [kind |-> "replace", entry |-> e]
  <2>1. /\ queue' = Append(queue, m) /\ Watched
        /\ UNCHANGED <<installed, transit, events, appVars, missed, changes>>
    BY <1>2 DEF SyncEntry
  <2>2. \A d : ~ About(m, d)
    BY DEF About, DoneKinds
  <2>3. \A d : Settled(d) => Settled(d)'
    BY <2>1, <2>2, SettledAppend DEF IInv, Base, appVars
  <2>4. Disturbed' <=> Disturbed
    BY <2>1, AppendFacts DEF Disturbed, IInv, TypeOK, Messages
  <2>5. Ordered'
    BY <2>1, OrderedKept DEF IInv, Accounts
  <2> QED BY <2>1, <2>3, <2>4, <2>5 DEF Accounts, Account,
             NothingSent, Watched, Read, appVars
<1>3. ASSUME NEW e \in Entries, NEW kind \in DoneKinds, NEW rebased \in BOOLEAN,
             NEW loose \in BOOLEAN, OwnChange(e, kind, rebased, loose)
      PROVE  Accounts'
  BY <1>3, OwnChangeAccount
<1>4. ASSUME NEW m \in transit, SendDone(m)
      PROVE  Accounts'
  BY <1>4, SendAccount
<1>5. CASE MonitorEvent
  <2>1. missed' = TRUE \/ Disturbed'
    <3>1. CASE queue' = Append(queue, Refresh)
      BY <3>1, AppendFacts DEF Disturbed, Refresh, IInv, TypeOK, Messages
    <3> QED BY <1>5, <3>1 DEF MonitorEvent
  <2>2. NothingSent'
    BY <1>5 DEF MonitorEvent, appVars, Accounts, NothingSent, Watched
  <2>3. Ordered'
    BY <1>5, OrderedKept DEF MonitorEvent, IInv, Accounts
  <2> QED BY <1>5, <2>1, <2>2, <2>3 DEF MonitorEvent, Accounts, Account
<1>6. ASSUME NEW ids \in SUBSET Entries, LoadGroups(ids)
      PROVE  Accounts'
  <2>1. transit' = {} /\ queue' = <<>>
    BY <1>6 DEF LoadGroups, Accounts, NothingSent, Watched, externalVars
  <2>2. phase' = "loading" /\ installedSet' = ids /\ installed' = installed
    BY <1>6 DEF LoadGroups, externalVars
  <2>3. ~ missed' => ids = installed
    BY <1>6 DEF LoadGroups
  <2>4. ~ missed' => \A e : Settled(e)'
    BY <2>1, <2>2, <2>3 DEF Settled, Agrees, InTransit, LastAbout, Base
  <2> QED BY <2>1, <2>4 DEF Accounts, Account, Ordered, NothingSent
<1>7. CASE Respond
  <2>1. CASE DropDone
    <3>1. missed' = TRUE /\ UNCHANGED <<transit, changes, phase>> /\ phase = "idle"
      BY <2>1 DEF DropDone, externalVars, appVars
    <3> QED BY <3>1, OrderedKept DEF IInv, Accounts, Account, NothingSent, Watched
  <2>2. CASE InstallDone \/ UpdateDone \/ RemoveDone \/ RebaseDone
    BY <2>2, HandlerAccount DEF InstallDone, UpdateDone, RemoveDone,
       RebaseDone, AtHand, DoneKinds
  <2>3. CASE ReplaceEntry
    <3>1. /\ phase = "idle" /\ queue # <<>>
          /\ Head(queue).kind = "replace" /\ queue' = Tail(queue)
          /\ UNCHANGED <<installed, transit, events, phase, snapshot,
                         installedSet, missed, changes>>
      BY <2>3 DEF ReplaceEntry, AtHand, externalVars
    <3>2. \A d : ~ About(Head(queue), d)
      BY <3>1 DEF About, DoneKinds
    <3>3. \A d : Settled(d) => Settled(d)'
      BY <3>1, <3>2, SettledTail DEF IInv, Base
    <3>4. Disturbed' <=> Disturbed
      <4>1. /\ Len(queue) \in Nat /\ Head(queue) = queue[1]
            /\ \A i \in 1..Len(queue') :
                  i + 1 \in 1..Len(queue) /\ queue'[i] = queue[i + 1]
            /\ \A i \in 1..Len(queue) :
                  i = 1 \/ (i - 1 \in 1..Len(queue') /\ queue'[i - 1] = queue[i])
        BY <3>1, TailFacts DEF IInv, TypeOK, Messages
      <4> QED BY <3>1, <4>1 DEF Disturbed
    <3>5. Ordered'
      BY <3>1, OrderedKept DEF IInv, Accounts
    <3> QED BY <3>1, <3>3, <3>4, <3>5 DEF Accounts, Account,
               NothingSent, Watched, Read
  <2>4. CASE BeginRefresh
    <3>1. Ordered'
      BY <2>4, OrderedKept DEF BeginRefresh, externalVars, IInv, Accounts
    <3> QED BY <2>4, <3>1, ReadIdle DEF BeginRefresh, AtHand, externalVars,
               Accounts, Account, NothingSent, Watched, Read
  <2>5. CASE ReadSystem
    BY <2>5, ReadAccount DEF ReadSystem
  <2>6. CASE ReadUser
    BY <2>6, ReadAccount, EntriesAssumption DEF ReadUser, IInv, TypeOK
  <2>7. CASE RetrieveFails
    <3>1. missed' = TRUE /\ UNCHANGED <<transit, changes>> /\ Watched
      BY <2>7 DEF RetrieveFails, externalVars, Watched
    <3>2. Watched'
      BY <2>7 DEF RetrieveFails, Watched
    <3> QED BY <3>1, <3>2, OrderedKept DEF IInv, Accounts, Account, NothingSent
  <2>8. ASSUME NEW read \in SUBSET Entries, ApplyDiff(read)
        PROVE  Accounts'
    <3>1. /\ phase = "diffing" /\ phase' = "writing" /\ UNCHANGED snapshot
          /\ UNCHANGED <<installed, transit, events, queue, missed, changes>>
      BY <2>8 DEF ApplyDiff, externalVars
    <3>2. Base' = Base /\ Read' = Read /\ Watched'
      BY <3>1 DEF Base, Read, Watched
    <3> QED BY <3>1, <3>2, AccountKept
  <2>9. CASE AdoptSet
    <3>1. /\ phase = "writing" /\ phase' = "idle" /\ installedSet' = snapshot
          /\ UNCHANGED <<installed, transit, events, queue, missed, changes>>
      BY <2>9 DEF AdoptSet, externalVars
    <3>2. Base' = Base /\ Read' = Read /\ Watched'
      BY <3>1 DEF Base, Read, Watched
    <3> QED BY <3>1, <3>2, AccountKept
  <2> QED BY <1>7, <2>1, <2>2, <2>3, <2>4, <2>5, <2>6, <2>7, <2>8, <2>9 DEF Respond
<1>8. CASE OwnNothing \/ Watch \/ Enumerate \/ UNCHANGED vars
  <2>1. UNCHANGED <<installed, transit, events, queue, missed, installedSet,
                    snapshot>>
    BY <1>8 DEF OwnNothing, Watch, Enumerate, BeginVisit, EndVisit, vars,
       appVars, externalVars
  <2>2. phase' = phase \/ (phase = "loading" /\ phase' = "idle")
    BY <1>8 DEF OwnNothing, Watch, Enumerate, BeginVisit, EndVisit, vars, appVars
  <2>3. changes' \in {changes, changes + 1}
    BY <1>8 DEF OwnNothing, Change, Watch, Enumerate, BeginVisit, EndVisit,
       vars, externalVars
  <2>4. (Watched => Watched') /\ Base' = Base /\ Read' = Read
    BY <2>1, <2>2 DEF Base, Read, Watched
  <2> QED BY <2>1, <2>3, <2>4, AccountKept
<1> QED BY <1>1, <1>2, <1>3, <1>4, <1>5, <1>6, <1>7, <1>8 DEF Next, External

-----------------------------------------------------------------------------
(* Theorems *)

\* The inductive invariant: types, and the property below.
THEOREM LibraryInvariant == Spec => []IInv
BY InitInvariant, StepInvariant, PTL DEF Spec

\* The Library lists an application exactly when the installed set has an
\* entry of it, for entries that every handler and the enumeration accounted
\* for: also while a refresh has changed the list and not yet replaced the
\* set, bz-application.c:1665, 1967-2040, 2066-2205.
THEOREM ListTheorem == Spec => []LibraryFollows
BY LibraryInvariant, PTL DEF IInv

\* What the application has read and what is on its way always come to what is
\* installed, unless a change was missed or another program's is on its way:
\* the fiber of notifications takes them in order, and what a refresh or, out
\* of a run that failed, the notification of a later change has overtaken is
\* told from the rest, bz-application.c:1890-1930, 2066-2205;
\* bz-flatpak-instance.c:2702, 3155.
THEOREM AccountsHold == Spec => []Accounts
<1>1. Init => Accounts
  BY AccountsInit
<1>2. IInv /\ Accounts /\ [Next]_vars => Accounts'
  BY AccountsStep
<1> QED BY <1>1, <1>2, LibraryInvariant, PTL DEF Spec

\* When all is quiet the installed set is what is installed, for any number of
\* entries, installations, changes and refreshes, unless a change was missed,
\* respond_to_flatpak_fiber.
THEOREM QuietTheorem == Spec => []QuietAgrees
<1>1. IInv /\ Accounts => QuietAgrees
  <2> SUFFICES ASSUME IInv, Accounts, Quiet, ~ missed
               PROVE  installedSet = installed
    BY DEF QuietAgrees
  <2>1. ~ Disturbed
    BY DEF Quiet, Disturbed
  <2>2. \A e \in Entries : e \in installedSet <=> e \in installed
    BY <2>1 DEF Quiet, Accounts, Account, Read, Base, Settled, Agrees,
       Overtaken, InTransit, Announced
  <2> QED BY <2>2 DEF IInv, TypeOK
<1> QED BY <1>1, LibraryInvariant, AccountsHold, PTL
=============================================================================
