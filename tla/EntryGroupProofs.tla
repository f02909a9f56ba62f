--------------------------- MODULE EntryGroupProofs ---------------------------
(***************************************************************************)
(* Theorems about EntryGroup: the flags, the buttons and the marks of the  *)
(* entries of a group, for any entries, scores and bounds.                 *)
(***************************************************************************)
EXTENDS EntryGroup, TLAPS

\* What OfferedWhenFree and InstallableFollows say of one place.
Fits(flags, inst, o, f, held) ==
    /\ "removeReady" \in flags <=> "removable" \in flags /\ ~ held
    /\ "installReady" \in flags <=> "installable" \in flags /\ ~ held
    /\ inst => "installable" \notin flags
    /\ ~ inst /\ "installable" \notin flags
          => ~ f.again /\ (o.life # "none" => ~ o.mark.again)
    /\ ~ inst /\ "installable" \in flags /\ held => o.mark.again

PlaceFits(i) ==
    ids[i] \notin open \cup odd =>
        Fits(slots[i], ids[i] \in Current, object[ids[i]], file[ids[i]], Held(ids[i]))

Fitting == \A i \in DOMAIN ids : PlaceFits(i)

LEMMA FittingMeans == Fitting <=> OfferedWhenFree /\ InstallableFollows
BY DEF Fitting, PlaceFits, Fits, OfferedWhenFree, InstallableFollows

-----------------------------------------------------------------------------
(* Types *)

LEMMA ObjectFacts ==
    ASSUME TypeOK, NEW e \in Entries
    PROVE  /\ object[e].life \in {"none", "loose", "bound"}
           /\ object[e].mark.installed \in BOOLEAN /\ object[e].mark.again \in BOOLEAN
           /\ file[e].installed \in BOOLEAN /\ file[e].again \in BOOLEAN
           /\ holds[e] \in Nat
BY EntryAssumption DEF TypeOK, Objects, Marks

LEMMA PlaceFacts ==
    ASSUME TypeOK
    PROVE  /\ Len(ids) \in Nat /\ DOMAIN ids = 1..Len(ids) /\ DOMAIN slots = 1..Len(ids)
           /\ \A i \in DOMAIN ids : ids[i] \in Entries /\ ids[i] \in Members
                 /\ slots[i] \in SUBSET Flags
           /\ Members \subseteq Entries
BY DEF TypeOK, Members

LEMMA FetchedFacts ==
    ASSUME TypeOK, NEW e \in Entries
    PROVE  /\ Fetched(e) \in Objects
           /\ Fetched(e).life # "none"
           /\ Fetched(e).life = "bound" <=> object[e].life = "bound"
           /\ object[e].life # "none" => Fetched(e) = object[e]
           /\ object[e].life = "none" => Fetched(e).mark = file[e]
           /\ e \notin Browsable => ~ Fetched(e).mark.again
<1>1. file[e] \in Marks /\ object[e] \in Objects
  BY DEF TypeOK
<1>2. [life |-> "loose", mark |-> file[e]] \in Objects
  BY <1>1 DEF Objects
<1>3. e \notin Browsable => ~ file[e].again /\ ~ object[e].mark.again
  BY DEF TypeOK
<1> QED BY <1>1, <1>2, <1>3 DEF Fetched, Objects

LEMMA MarkedFacts ==
    ASSUME TypeOK, NEW e \in Entries, NEW b \in BOOLEAN
    PROVE  /\ Marked(e, b) \in [Entries -> Objects]
           /\ \A d \in Entries : d # e => Marked(e, b)[d] = object[d]
           /\ Marked(e, b)[e].life = Fetched(e).life
           /\ Marked(e, b)[e].mark.installed = b
           /\ Marked(e, b)[e].mark.again
                 = (Fetched(e).mark.again \/ (~ b /\ e \in Browsable))
<1> DEFINE o == Fetched(e)
           mk == [installed |-> b, again |-> o.mark.again \/ (~ b /\ e \in Browsable)]
           new == [o EXCEPT !.mark = mk]
<1>1. o \in Objects
  BY FetchedFacts
<1>2. mk \in Marks
  BY <1>1 DEF Objects, Marks
<1>3. new \in Objects /\ new.life = o.life /\ new.mark = mk
  BY <1>1, <1>2 DEF Objects
<1>4. Marked(e, b) = [object EXCEPT ![e] = new]
  BY DEF Marked
<1>5. object \in [Entries -> Objects]
  BY DEF TypeOK
<1> HIDE DEF new
<1> QED BY <1>3, <1>4, <1>5

LEMMA ReconciledFacts ==
    ASSUME TypeOK, NEW S
    PROVE  /\ Reconciled(S) \in Seq(SUBSET Flags) /\ Len(Reconciled(S)) = Len(ids)
           /\ \A i \in DOMAIN ids : Reconciled(S)[i] =
                 IF ids[i] \in S THEN {"removable", "removeReady"}
                 ELSE {"installable", "installReady"}
BY PlaceFacts DEF Reconciled, Flags

LEMMA WriteBackFacts ==
    ASSUME TypeOK, NEW S, NEW objects \in [Entries -> Objects], WriteBack(S, objects)
    PROVE  /\ file' \in [Entries -> Marks]
           /\ \A e \in Entries : file'[e] = IF e \in S /\ ~ Held(e) THEN objects[e].mark
                                            ELSE file[e]
BY DEF WriteBack, TypeOK, Objects

-----------------------------------------------------------------------------
(* Flags *)

\* What a connected object that tells its mark leaves of the flags f.
Tells(g, f, mark, e) ==
    /\ "removable" \in g <=> mark.installed
    /\ "installable" \in g <=> ~ mark.installed /\ (mark.again \/ "installable" \in f)
    /\ Held(e) => /\ "removeReady" \in g <=> "removeReady" \in f
                  /\ "installReady" \in g <=> "installReady" \in f
    /\ ~ Held(e) => /\ "removeReady" \in g <=> mark.installed
                    /\ "installReady" \in g <=>
                          ~ mark.installed /\ (mark.again \/ "installReady" \in f)

LEMMA AfterInstalledFacts ==
    ASSUME NEW f \in SUBSET Flags, NEW mark \in Marks, NEW e,
           NEW g, g = AfterInstalled(f, mark, Held(e))
    PROVE  Tells(g, f, mark, e)
<1>1. mark.installed \in BOOLEAN /\ mark.again \in BOOLEAN
  BY DEF Marks
<1>2. CASE Held(e)
  BY <1>1, <1>2 DEF AfterInstalled, Tells
<1>3. CASE ~ Held(e)
  BY <1>1, <1>3 DEF AfterInstalled, Tells
<1> QED BY <1>2, <1>3

LEMMA ToldFacts ==
    ASSUME TypeOK, NEW f \in Seq(SUBSET Flags), Len(f) = Len(ids),
           NEW objects \in [Entries -> Objects], NEW S
    PROVE  /\ Told(f, objects, S) \in Seq(SUBSET Flags)
           /\ Len(Told(f, objects, S)) = Len(ids)
           /\ \A i \in DOMAIN ids :
                 IF ids[i] \in S /\ objects[ids[i]].life = "bound"
                 THEN Tells(Told(f, objects, S)[i], f[i], objects[ids[i]].mark, ids[i])
                 ELSE Told(f, objects, S)[i] = f[i]
<1>1. DOMAIN f = 1..Len(ids) /\ DOMAIN ids = 1..Len(ids) /\ Len(ids) \in Nat
  BY PlaceFacts
<1>2. \A i \in 1..Len(ids) : f[i] \in SUBSET Flags /\ objects[ids[i]].mark \in Marks
  BY <1>1, PlaceFacts DEF Objects
<1>3. ASSUME NEW i \in 1..Len(ids)
      PROVE  AfterInstalled(f[i], objects[ids[i]].mark, Held(ids[i])) \in SUBSET Flags
  BY <1>2, <1>3 DEF AfterInstalled, Flags
<1>4. Told(f, objects, S) = [i \in 1..Len(ids) |->
          IF ids[i] \in S /\ objects[ids[i]].life = "bound"
          THEN AfterInstalled(f[i], objects[ids[i]].mark, Held(ids[i])) ELSE f[i]]
  BY <1>1 DEF Told
<1>5. \A i \in 1..Len(ids) : Told(f, objects, S)[i] \in SUBSET Flags
  BY <1>2, <1>3, <1>4
<1>6. ASSUME NEW i \in 1..Len(ids), ids[i] \in S, objects[ids[i]].life = "bound"
      PROVE  Tells(Told(f, objects, S)[i], f[i], objects[ids[i]].mark, ids[i])
  <2>1. Told(f, objects, S)[i] = AfterInstalled(f[i], objects[ids[i]].mark, Held(ids[i]))
    BY <1>4, <1>6
  <2> QED BY <2>1, <1>2, AfterInstalledFacts
<1> QED BY <1>1, <1>4, <1>5, <1>6

LEMMA HeldFacts ==
    ASSUME NEW f \in SUBSET Flags, NEW mark \in Marks
    PROVE  LET g == AfterHolding(f, mark, TRUE)
           IN /\ g \in SUBSET Flags
              /\ "removable" \in g <=> "removable" \in f
              /\ "installable" \in g <=> "installable" \in f
              /\ mark.installed =>
                    "removeReady" \notin g /\ ("installReady" \in g <=> "installReady" \in f)
              /\ ~ mark.installed =>
                    "installReady" \notin g /\ ("removeReady" \in g <=> "removeReady" \in f)
<1>1. CASE mark.installed
  BY <1>1 DEF AfterHolding, Flags
<1>2. CASE ~ mark.installed
  BY <1>2 DEF AfterHolding, Flags
<1> QED BY <1>1, <1>2

LEMMA ReleasedFacts ==
    ASSUME NEW f \in SUBSET Flags, NEW mark \in Marks
    PROVE  LET g == AfterHolding(f, mark, FALSE)
           IN /\ g \in SUBSET Flags
              /\ "removable" \in g <=> "removable" \in f
              /\ "installable" \in g <=> "installable" \in f
              /\ "removeReady" \in g <=> mark.installed \/ "removeReady" \in f
              /\ "installReady" \in g <=>
                    (~ mark.installed /\ mark.again) \/ "installReady" \in f
<1>1. CASE mark.installed
  BY <1>1 DEF AfterHolding, Flags
<1>2. CASE ~ mark.installed /\ mark.again
  BY <1>2 DEF AfterHolding, Flags
<1>3. CASE ~ mark.installed /\ ~ mark.again
  BY <1>3 DEF AfterHolding, Flags
<1> QED BY <1>1, <1>2, <1>3

-----------------------------------------------------------------------------
(* The initial states *)

LEMMA InitInvariant == Init => IInv
<1> SUFFICES ASSUME Init PROVE IInv
  OBVIOUS
<1>1. /\ ids \in Seq(Entries) /\ \A i, j \in DOMAIN ids : ids[i] = ids[j] => i = j
      /\ file \in [Entries -> Marks] /\ \A e \in Entries \ Browsable : ~ file[e].again
      /\ Current = installedSet
  BY SavedAssumption DEF Init, Current
<1>2. /\ slots \in Seq(SUBSET Flags) /\ Len(slots) = Len(ids)
      /\ \A i \in DOMAIN ids : slots[i] = IF ids[i] \in installedSet
             THEN {"removable", "removeReady"} ELSE {"installable", "installReady"}
  BY <1>1 DEF Init, Reconciled, Flags
<1>3. NoObject \in Objects /\ NoObject.life = "none" /\ ~ NoObject.mark.again
  BY DEF NoObject, Objects, Marks
<1>4. object \in [Entries -> Objects]
      /\ \A e \in Entries : object[e].life = "none" /\ ~ object[e].mark.again
  BY <1>3 DEF Init
<1>5. ASSUME NEW e \in Entries
      PROVE  holds[e] = 0 /\ ~ Held(e)
  <2>1. holds = [d \in Entries |-> 0]
    BY DEF Init
  <2>2. holds[e] = 0
    BY <2>1
  <2> QED BY <2>2 DEF Held
<1>6. TypeOK
  <2>1. holds \in [Entries -> 0..MaxHolds] /\ changes \in 0..MaxChanges
    BY EntryAssumption DEF Init
  <2>2. loading \in Seq(Entries) /\ Len(loading) = 0 /\ turn = 0
    BY DEF Init
  <2>3. listed \in BOOLEAN /\ installedSet \subseteq Entries /\ writing \in BOOLEAN
        /\ snapshot = {} /\ visits = {}
    BY DEF Init
  <2>4. Len(ids) \in Nat
    BY <1>1
  <2> QED BY <1>1, <1>2, <1>4, <2>1, <2>2, <2>3, <2>4 DEF Init, TypeOK
<1>7. ObjectsKnown
  BY <1>4, <1>5 DEF ObjectsKnown, Init
<1>8. FlagsFollow
  BY <1>1, <1>2 DEF FlagsFollow
<1>9. Fitting
  <2> SUFFICES ASSUME NEW i \in DOMAIN ids PROVE PlaceFits(i)
    BY DEF Fitting
  <2>1. ids[i] \in Entries
    BY <1>1
  <2> QED BY <2>1, <1>1, <1>2, <1>4, <1>5 DEF PlaceFits, Fits
<1>10. MarksFollow
  <2>1. stale = {e \in Entries : file[e].installed # (e \in installedSet)}
    BY DEF Init
  <2>2. ASSUME NEW e \in Entries
        PROVE  /\ e \notin stale => (file[e].installed <=> e \in installedSet)
               /\ object[e].life = "none"
    <3>1. file[e].installed \in BOOLEAN
      BY <1>1 DEF Marks
    <3>2. e \notin stale => file[e].installed = (e \in installedSet)
      BY <2>1
    <3> QED BY <3>1, <3>2, <1>4
  <2> QED BY <2>2, <1>1 DEF MarksFollow
<1> QED BY <1>6, <1>7, <1>8, <1>9, <1>10, FittingMeans DEF IInv

-----------------------------------------------------------------------------
(* Holds *)

LEMMA HoldStep == ASSUME IInv, NEW e \in Entries, Hold(e) PROVE IInv'
<1> USE DEF IInv
<1> DEFINE o == object[e]
           told == ~ Held(e) /\ o.life = "bound"
<1>1. /\ o.life # "none" /\ o \in Objects /\ o.mark \in Marks
      /\ holds[e] \in Nat
  BY ObjectFacts DEF Hold, TypeOK, Objects, ObjectsKnown
<1>2. /\ holds' = [holds EXCEPT ![e] = @ + 1]
      /\ holds \in [Entries -> 0..MaxHolds] /\ holds[e] < MaxHolds
      /\ UNCHANGED <<installedSet, writing, snapshot, visits, listed, ids, file, object,
                     loading, turn, open, stale, misled, changes>>
      /\ Current' = Current
  BY DEF Hold, TypeOK, refreshVars, Current
<1>3. Held(e)' /\ \A d \in Entries : d # e => (Held(d)' <=> Held(d))
  BY <1>1, <1>2 DEF Held
<1>4. \A i \in DOMAIN ids : slots'[i] =
          IF told /\ ids[i] = e THEN AfterHolding(slots[i], o.mark, TRUE) ELSE slots[i]
  BY PlaceFacts DEF Hold
<1>5. ASSUME NEW i \in DOMAIN ids
      PROVE  /\ slots'[i] \in SUBSET Flags
             /\ "removable" \in slots'[i] <=> "removable" \in slots[i]
             /\ "installable" \in slots'[i] <=> "installable" \in slots[i]
  <2>1. slots[i] \in SUBSET Flags
    BY PlaceFacts
  <2>2. CASE told /\ ids[i] = e
    <3>1. slots'[i] = AfterHolding(slots[i], o.mark, TRUE)
      BY <2>2, <1>4
    <3> QED BY <3>1, <2>1 DEF AfterHolding, Flags
  <2>3. CASE ~ (told /\ ids[i] = e)
    BY <2>1, <2>3, <1>4
  <2> QED BY <2>2, <2>3
<1>6. TypeOK'
  <2>1. slots' \in Seq(SUBSET Flags) /\ Len(slots') = Len(ids)
    <3>1. CASE told
      <4>1. slots' = [i \in DOMAIN slots |->
                        IF ids[i] = e THEN AfterHolding(slots[i], o.mark, TRUE) ELSE slots[i]]
        BY <3>1 DEF Hold
      <4>2. DOMAIN slots = 1..Len(ids) /\ DOMAIN ids = 1..Len(ids) /\ Len(ids) \in Nat
        BY PlaceFacts
      <4>3. \A i \in 1..Len(ids) : slots'[i] \in SUBSET Flags
        BY <4>2, <1>5
      <4>4. DOMAIN slots' = 1..Len(ids)
        BY <4>1, <4>2
      <4>5. slots' = [i \in 1..Len(ids) |-> slots'[i]]
        BY <4>1, <4>2
      <4> QED BY <4>2, <4>3, <4>4, <4>5
    <3>2. CASE ~ told
      BY <3>2 DEF Hold, TypeOK
    <3> QED BY <3>1, <3>2
  <2>2. holds' \in [Entries -> 0..MaxHolds]
    BY <1>1, <1>2, EntryAssumption
  <2>3. odd' \subseteq Entries
    BY DEF Hold, TypeOK
  <2> QED BY <1>2, <2>1, <2>2, <2>3 DEF TypeOK
<1>7. odd \subseteq odd' /\ (e \notin odd' =>
          o.life = "bound" /\ e \notin misled /\ (o.mark.installed \/ o.mark.again))
  BY DEF Hold
<1>8. ObjectsKnown'
  BY <1>1, <1>2, <1>3, <1>7 DEF ObjectsKnown
<1>9. FlagsFollow'
  BY <1>2, <1>5 DEF FlagsFollow
<1>10. Fitting'
  <2> SUFFICES ASSUME NEW i \in DOMAIN ids PROVE PlaceFits(i)'
    BY <1>2 DEF Fitting
  <2>1. PlaceFits(i) /\ ids[i] \in Entries /\ ids[i] \in Members /\ slots[i] \in SUBSET Flags
    BY FittingMeans, PlaceFacts DEF Fitting
  <2>2. CASE ids[i] # e
    BY <2>1, <2>2, <1>2, <1>3, <1>4, <1>7 DEF PlaceFits, Fits
  <2>3. CASE ids[i] = e /\ Held(e)
    BY <2>1, <2>3, <1>2, <1>3, <1>4, <1>7 DEF PlaceFits, Fits
  <2>4. CASE ids[i] = e /\ ~ Held(e) /\ e \notin open \cup odd'
    <3>1. /\ o.life = "bound" /\ e \notin misled /\ (o.mark.installed \/ o.mark.again)
          /\ slots'[i] = AfterHolding(slots[i], o.mark, TRUE)
      BY <2>4, <1>4, <1>7
    <3>2. o.mark.installed <=> e \in Current
      BY <3>1, <1>1 DEF MarksFollow
    <3>3. "removable" \in slots[i] <=> e \in Current
      BY <2>4, <2>1 DEF FlagsFollow
    <3>4. Fits(slots[i], e \in Current, o, file[e], FALSE)
      BY <2>1, <2>4, <1>7 DEF PlaceFits, Fits
    <3> DEFINE f == slots[i]
               g == AfterHolding(f, o.mark, TRUE)
               inst == e \in Current
    <3>5. /\ g = slots'[i]
          /\ (Fits(f, inst, o, file[e], FALSE) /\ ("removable" \in f <=> inst)
                /\ (o.mark.installed <=> inst)) /\ (o.mark.installed \/ o.mark.again)
                => Fits(g, inst, o, file[e], TRUE)
      BY <3>1, <1>1, <2>1, HeldFacts DEF Fits
    <3>6. Fits(slots'[i], e \in Current, o, file[e], TRUE)
      BY <3>1, <3>2, <3>3, <3>4, <3>5
    <3> QED BY <3>6, <2>4, <1>2, <1>3 DEF PlaceFits, Fits
  <2>5. CASE ids[i] = e /\ ~ Held(e) /\ e \in open \cup odd'
    BY <2>5, <1>2 DEF PlaceFits
  <2> QED BY <2>2, <2>3, <2>4, <2>5
<1>11. MarksFollow'
  BY <1>2 DEF MarksFollow
<1>12. (OfferedWhenFree /\ InstallableFollows)'
  BY <1>10, FittingMeans, PTL
<1> QED BY <1>6, <1>8, <1>9, <1>11, <1>12

LEMMA ReleaseStep == ASSUME IInv, NEW e \in Entries, Release(e) PROVE IInv'
<1> USE DEF IInv
<1> DEFINE o == object[e]
           told == holds[e] = 1 /\ o.life = "bound"
<1>1. /\ Held(e) /\ o.life # "none" /\ o \in Objects /\ o.mark \in Marks
      /\ holds[e] \in Nat /\ holds[e] > 0
  BY ObjectFacts DEF Release, TypeOK, Objects, ObjectsKnown, Held
<1>2. /\ holds' = [holds EXCEPT ![e] = @ - 1]
      /\ holds \in [Entries -> 0..MaxHolds]
      /\ UNCHANGED <<installedSet, writing, snapshot, visits, listed, ids, file, object,
                     loading, turn, open, stale, misled, changes>>
      /\ Current' = Current
  BY DEF Release, TypeOK, refreshVars, Current
<1>3. (Held(e)' <=> holds[e] # 1) /\ \A d \in Entries : d # e => (Held(d)' <=> Held(d))
  BY <1>1, <1>2 DEF Held
<1>4. \A i \in DOMAIN ids : slots'[i] =
          IF told /\ ids[i] = e THEN AfterHolding(slots[i], o.mark, FALSE) ELSE slots[i]
  BY PlaceFacts DEF Release
<1>5. ASSUME NEW i \in DOMAIN ids
      PROVE  /\ slots'[i] \in SUBSET Flags
             /\ "removable" \in slots'[i] <=> "removable" \in slots[i]
             /\ "installable" \in slots'[i] <=> "installable" \in slots[i]
  <2>1. slots[i] \in SUBSET Flags
    BY PlaceFacts
  <2>2. CASE told /\ ids[i] = e
    <3>1. slots'[i] = AfterHolding(slots[i], o.mark, FALSE)
      BY <2>2, <1>4
    <3> QED BY <3>1, <2>1 DEF AfterHolding, Flags
  <2>3. CASE ~ (told /\ ids[i] = e)
    BY <2>1, <2>3, <1>4
  <2> QED BY <2>2, <2>3
<1>6. TypeOK'
  <2>1. slots' \in Seq(SUBSET Flags) /\ Len(slots') = Len(ids)
    <3>1. CASE told
      <4>1. slots' = [i \in DOMAIN slots |->
                        IF ids[i] = e THEN AfterHolding(slots[i], o.mark, FALSE) ELSE slots[i]]
        BY <3>1 DEF Release
      <4>2. DOMAIN slots = 1..Len(ids) /\ DOMAIN ids = 1..Len(ids) /\ Len(ids) \in Nat
        BY PlaceFacts
      <4>3. \A i \in 1..Len(ids) : slots'[i] \in SUBSET Flags
        BY <4>2, <1>5
      <4>4. DOMAIN slots' = 1..Len(ids)
        BY <4>1, <4>2
      <4>5. slots' = [i \in 1..Len(ids) |-> slots'[i]]
        BY <4>1, <4>2
      <4> QED BY <4>2, <4>3, <4>4, <4>5
    <3>2. CASE ~ told
      BY <3>2 DEF Release, TypeOK
    <3> QED BY <3>1, <3>2
  <2>2. holds' \in [Entries -> 0..MaxHolds]
    BY <1>1, <1>2, EntryAssumption
  <2>3. odd' \subseteq Entries
    BY DEF Release, TypeOK
  <2> QED BY <1>2, <2>1, <2>2, <2>3 DEF TypeOK
<1>7. odd \subseteq odd' /\ (e \notin odd' => e \notin misled)
  BY DEF Release
<1>8. ObjectsKnown'
  BY <1>1, <1>2, <1>3, <1>7 DEF ObjectsKnown
<1>9. FlagsFollow'
  BY <1>2, <1>5 DEF FlagsFollow
<1>10. Fitting'
  <2> SUFFICES ASSUME NEW i \in DOMAIN ids PROVE PlaceFits(i)'
    BY <1>2 DEF Fitting
  <2>1. PlaceFits(i) /\ ids[i] \in Entries /\ ids[i] \in Members /\ slots[i] \in SUBSET Flags
    BY FittingMeans, PlaceFacts DEF Fitting
  <2>2. CASE ids[i] # e
    BY <2>1, <2>2, <1>2, <1>3, <1>4, <1>7 DEF PlaceFits, Fits
  <2>3. CASE ids[i] = e /\ holds[e] # 1
    BY <2>1, <2>3, <1>1, <1>2, <1>3, <1>4, <1>7 DEF PlaceFits, Fits
  <2>4. CASE ids[i] = e /\ holds[e] = 1 /\ e \notin open \cup odd'
    <3>1. /\ o.life = "bound" /\ e \notin misled
          /\ slots'[i] = AfterHolding(slots[i], o.mark, FALSE)
      BY <2>4, <1>1, <1>4, <1>7 DEF ObjectsKnown
    <3>2. o.mark.installed <=> e \in Current
      BY <3>1, <1>1 DEF MarksFollow
    <3>3. "removable" \in slots[i] <=> e \in Current
      BY <2>4, <2>1 DEF FlagsFollow
    <3>4. Fits(slots[i], e \in Current, o, file[e], TRUE)
      BY <2>1, <2>4, <1>1, <1>7 DEF PlaceFits, Fits
    <3> DEFINE f == slots[i]
               g == AfterHolding(f, o.mark, FALSE)
               inst == e \in Current
    <3>5. /\ g = slots'[i]
          /\ (Fits(f, inst, o, file[e], TRUE) /\ ("removable" \in f <=> inst)
                /\ (o.mark.installed <=> inst)) /\ o.life = "bound"
                => Fits(g, inst, o, file[e], FALSE)
      BY <3>1, <1>1, <2>1, ReleasedFacts DEF Fits
    <3>6. Fits(slots'[i], e \in Current, o, file[e], FALSE)
      BY <3>1, <3>2, <3>3, <3>4, <3>5
    <3> QED BY <3>6, <2>4, <1>2, <1>3 DEF PlaceFits, Fits
  <2>5. CASE ids[i] = e /\ e \in open \cup odd'
    BY <2>5, <1>2 DEF PlaceFits
  <2> QED BY <2>2, <2>3, <2>4, <2>5
<1>11. MarksFollow'
  BY <1>2 DEF MarksFollow
<1>12. (OfferedWhenFree /\ InstallableFollows)'
  BY <1>10, FittingMeans, PTL
<1> QED BY <1>6, <1>8, <1>9, <1>11, <1>12

-----------------------------------------------------------------------------
(* Objects *)

LEMMA GetStep == ASSUME IInv, NEW e \in Entries, Get(e) PROVE IInv'
<1> USE DEF IInv
<1>1. /\ object[e].life = "none"
      /\ object \in [Entries -> Objects]
      /\ object' = [object EXCEPT ![e] = Fetched(e)]
      /\ misled' = (misled \ {e}) \cup ({e} \cap stale)
      /\ UNCHANGED <<installedSet, writing, snapshot, visits, listed, ids, slots, file,
                     holds, loading, turn, open, odd, stale, changes>>
      /\ Current' = Current
  BY DEF Get, MisledBy, TypeOK, refreshVars, Current
<1>2. /\ object' \in [Entries -> Objects] /\ object'[e] = Fetched(e)
      /\ Fetched(e).life # "none" /\ Fetched(e).mark = file[e]
      /\ \A d \in Entries : d # e => object'[d] = object[d]
      /\ e \notin Browsable => ~ Fetched(e).mark.again
  BY <1>1, FetchedFacts
<1>3. ~ Held(e) /\ \A d \in Entries : Held(d)' <=> Held(d)
  BY <1>1 DEF ObjectsKnown, Held
<1>4. TypeOK'
  BY <1>1, <1>2 DEF TypeOK
<1>5. ObjectsKnown'
  BY <1>1, <1>2, <1>3 DEF ObjectsKnown, TypeOK, Visit
<1>6. FlagsFollow'
  BY <1>1 DEF FlagsFollow
<1>7. Fitting'
  <2> SUFFICES ASSUME NEW i \in DOMAIN ids PROVE PlaceFits(i)'
    BY <1>1 DEF Fitting
  <2>1. PlaceFits(i) /\ ids[i] \in Entries
    BY FittingMeans, PlaceFacts DEF Fitting
  <2> QED BY <2>1, <1>1, <1>2, <1>3 DEF PlaceFits, Fits
<1>8. MarksFollow'
  BY <1>1, <1>2 DEF MarksFollow
<1>9. (OfferedWhenFree /\ InstallableFollows)'
  BY <1>7, FittingMeans, PTL
<1> QED BY <1>4, <1>5, <1>6, <1>8, <1>9

LEMMA ForgetStep == ASSUME IInv, NEW e \in Entries, Forget(e) PROVE IInv'
<1> USE DEF IInv
<1>1. /\ ~ Held(e)
      /\ object \in [Entries -> Objects]
      /\ object' = [object EXCEPT ![e] = NoObject]
      /\ misled' = misled \ {e}
      /\ UNCHANGED <<installedSet, writing, snapshot, visits, listed, ids, slots, file,
                     holds, loading, turn, open, odd, stale, changes>>
      /\ Current' = Current
      /\ \A v \in visits : v.entry # e /\ v.entry \in Entries
  BY DEF Forget, TypeOK, refreshVars, Current, Visit
<1>2. /\ object' \in [Entries -> Objects] /\ object'[e] = NoObject
      /\ NoObject.life = "none" /\ ~ NoObject.mark.again
      /\ \A d \in Entries : d # e => object'[d] = object[d]
  BY <1>1 DEF NoObject, Objects, Marks
<1>3. ~ Held(e) /\ \A d \in Entries : Held(d)' <=> Held(d)
  BY <1>1 DEF Held
<1>4. TypeOK'
  BY <1>1, <1>2 DEF TypeOK
<1>5. ObjectsKnown'
  BY <1>1, <1>2, <1>3 DEF ObjectsKnown
<1>6. FlagsFollow'
  BY <1>1 DEF FlagsFollow
<1>7. Fitting'
  <2> SUFFICES ASSUME NEW i \in DOMAIN ids PROVE PlaceFits(i)'
    BY <1>1 DEF Fitting
  <2>1. PlaceFits(i) /\ ids[i] \in Entries
    BY FittingMeans, PlaceFacts DEF Fitting
  <2> QED BY <2>1, <1>1, <1>2, <1>3 DEF PlaceFits, Fits
<1>8. MarksFollow'
  BY <1>1, <1>2 DEF MarksFollow
<1>9. (OfferedWhenFree /\ InstallableFollows)'
  BY <1>7, FittingMeans, PTL
<1> QED BY <1>4, <1>5, <1>6, <1>8, <1>9

LEMMA BeginLoadStep == ASSUME IInv, BeginLoad PROVE IInv'
<1> USE DEF IInv
<1>1. /\ loading' = ids /\ ids # <<>> /\ turn = 0
      /\ UNCHANGED <<installedSet, writing, snapshot, visits, listed, ids, slots, file,
                     object, holds, turn, open, odd, stale, misled, changes>>
      /\ Current' = Current
  BY DEF BeginLoad, historyVars, refreshVars, Current, Idle
<1>2. Len(ids) > 0 /\ Len(ids) \in Nat
  BY <1>1 DEF TypeOK
<1>3. TypeOK'
  BY <1>1, <1>2 DEF TypeOK
<1> QED BY <1>1, <1>3 DEF ObjectsKnown, FlagsFollow, OfferedWhenFree, InstallableFollows,
                         MarksFollow, Held

LEMMA UpdateDoneStep == ASSUME IInv, NEW e \in Entries, UpdateDone(e) PROVE IInv'
<1> USE DEF IInv
<1>1. /\ changes' = changes + 1 /\ changes < MaxChanges
      /\ installedSet' = installedSet \cup {e}
      /\ object \in [Entries -> Objects]
      /\ object' = [object EXCEPT ![e] = Fetched(e)]
      /\ open' = open \cup ({e} \ installedSet)
      /\ misled' = MisledBy(e) \cup ({e} \ installedSet)
      /\ stale' = IF Held(e) THEN stale \cup ({e} \ installedSet)
                  ELSE (stale \ {e}) \cup ({e} \cap misled')
      /\ UNCHANGED <<writing, snapshot, visits, listed, ids, slots, holds, loading, turn,
                     odd>>
      /\ Current = installedSet /\ Current' = installedSet'
  BY DEF UpdateDone, Respond, Step, Aside, TypeOK, Current
<1>2. /\ object' \in [Entries -> Objects] /\ object'[e] = Fetched(e)
      /\ Fetched(e).life # "none"
      /\ \A d \in Entries : d # e => object'[d] = object[d]
      /\ e \notin Browsable => ~ Fetched(e).mark.again
  BY <1>1, FetchedFacts
<1>3. \A d \in Entries : Held(d)' <=> Held(d)
  BY <1>1 DEF Held
<1>4. /\ file' \in [Entries -> Marks]
      /\ \A d \in Entries : file'[d] = IF d = e /\ ~ Held(d) THEN object'[d].mark
                                       ELSE file[d]
  <2>1. WriteBack({e}, object')
    BY DEF UpdateDone
  <2> QED BY <2>1, <1>2, WriteBackFacts
<1>5. TypeOK'
  <2>1. misled' \subseteq Entries /\ stale' \subseteq Entries /\ open' \subseteq Entries
    BY <1>1 DEF TypeOK, MisledBy
  <2>2. changes' \in 0..MaxChanges
    BY <1>1, EntryAssumption DEF TypeOK
  <2> QED BY <1>1, <1>2, <1>4, <2>1, <2>2 DEF TypeOK
<1>6. ObjectsKnown'
  BY <1>1, <1>2, <1>3, FetchedFacts DEF ObjectsKnown, TypeOK, Visit
<1>7. FlagsFollow'
  BY <1>1 DEF FlagsFollow
<1>8. Fitting'
  <2> SUFFICES ASSUME NEW i \in DOMAIN ids PROVE PlaceFits(i)'
    BY <1>1 DEF Fitting
  <2>1. PlaceFits(i) /\ ids[i] \in Entries
    BY FittingMeans, PlaceFacts DEF Fitting
  <2>2. CASE ids[i] # e
    BY <2>1, <2>2, <1>1, <1>2, <1>3, <1>4 DEF PlaceFits, Fits
  <2>3. CASE ids[i] = e
    BY <2>1, <2>3, <1>1, <1>3 DEF PlaceFits, Fits
  <2> QED BY <2>2, <2>3
<1>9. MarksFollow'
  <2>2. e \notin misled' => (object'[e].mark.installed <=> e \in installedSet')
    BY <1>1, <1>2, FetchedFacts DEF MarksFollow, MisledBy
  <2>3. e \notin stale' => (file'[e].installed <=> e \in installedSet')
    BY <1>1, <1>2, <1>4, <2>2 DEF MarksFollow
  <2>4. \A d \in Entries : d # e => (d \in misled' <=> d \in misled)
                                     /\ (d \in stale' <=> d \in stale)
    BY <1>1 DEF MisledBy
  <2> QED BY <2>2, <2>3, <2>4, <1>1, <1>2, <1>4 DEF MarksFollow
<1>10. (OfferedWhenFree /\ InstallableFollows)'
  BY <1>8, FittingMeans, PTL
<1> QED BY <1>5, <1>6, <1>7, <1>9, <1>10

-----------------------------------------------------------------------------
(* Notifications *)

\* What the handlers that set the mark of one entry have in common.
LEMMA MarkedStep ==
    ASSUME IInv, NEW e \in Entries, NEW b \in BOOLEAN, ~ writing,
           installedSet' = IF b THEN installedSet \cup {e} ELSE installedSet \ {e},
           object' = Marked(e, b), WriteBack({e}, object'),
           stale' = Written(e), misled' = misled \ {e},
           UNCHANGED <<writing, snapshot, visits, ids, holds>>
    PROVE  /\ installedSet' \subseteq Entries
           /\ \A d \in Entries : d # e => (d \in installedSet' <=> d \in installedSet)
           /\ e \in installedSet' <=> b
           /\ object' \in [Entries -> Objects] /\ file' \in [Entries -> Marks]
           /\ \A d \in Entries \ Browsable : ~ file'[d].again /\ ~ object'[d].mark.again
           /\ \A d \in Entries : d # e => object'[d] = object[d] /\ file'[d] = file[d]
           /\ object'[e].life = Fetched(e).life /\ object'[e].mark.installed = b
           /\ object'[e].mark.again = (Fetched(e).mark.again \/ (~ b /\ e \in Browsable))
           /\ file'[e] = IF Held(e) THEN file[e] ELSE object'[e].mark
           /\ stale' \subseteq Entries /\ misled' \subseteq Entries
           /\ \A d \in Entries : Held(d)' <=> Held(d)
           /\ \A d \in Entries :
                 Held(d) => object'[d].life # "none"
                              /\ (d \in odd \/ object'[d].life = "bound")
           /\ \A v \in visits : object'[v.entry].life # "none"
           /\ Current = installedSet /\ Current' = installedSet'
           /\ MarksFollow'
<1> USE DEF IInv
<1>1. /\ object' \in [Entries -> Objects]
      /\ \A d \in Entries : d # e => object'[d] = object[d]
      /\ object'[e].life = Fetched(e).life /\ object'[e].mark.installed = b
      /\ object'[e].mark.again = (Fetched(e).mark.again \/ (~ b /\ e \in Browsable))
  BY MarkedFacts
<1>2. /\ file' \in [Entries -> Marks]
      /\ \A d \in Entries : file'[d] = IF d = e /\ ~ Held(d) THEN object'[d].mark
                                       ELSE file[d]
  BY <1>1, WriteBackFacts
<1>3. \A d \in Entries : Held(d)' <=> Held(d)
  BY DEF Held
<1>4. /\ e \notin Browsable => ~ object'[e].mark.again
      /\ \A d \in Entries \ Browsable : ~ file[d].again /\ ~ object[d].mark.again
  BY <1>1, FetchedFacts DEF TypeOK
<1>5. \A d \in Entries \ Browsable : ~ file'[d].again /\ ~ object'[d].mark.again
  BY <1>1, <1>2, <1>4
<1>6. stale' \subseteq Entries /\ misled' \subseteq Entries /\ installedSet' \subseteq Entries
  BY DEF TypeOK, Written
<1>7. Current = installedSet /\ Current' = installedSet'
  BY DEF Current
<1>8. ASSUME NEW d \in Entries
      PROVE  /\ object[d].life # "none" => object'[d].life # "none"
             /\ Held(d) => object'[d].life # "none"
                             /\ (d \in odd \/ object'[d].life = "bound")
  BY <1>1, FetchedFacts DEF ObjectsKnown
<1>9. /\ e \in installedSet' <=> b
      /\ \A d \in Entries : d # e => (d \in installedSet' <=> d \in installedSet)
  OBVIOUS
<1>10. MarksFollow'
  <2>1. ASSUME NEW d \in Entries, d # e
        PROVE  /\ d \notin stale' => (file'[d].installed <=> d \in installedSet')
               /\ object'[d].life # "none" /\ d \notin misled'
                     => (object'[d].mark.installed <=> d \in installedSet')
    BY <2>1, <1>1, <1>2, <1>7, <1>9 DEF MarksFollow, Written
  <2>2. e \notin stale' => (file'[e].installed <=> e \in installedSet')
    BY <1>1, <1>2, <1>9 DEF Written
  <2>3. object'[e].mark.installed <=> e \in installedSet'
    BY <1>1, <1>9
  <2> QED BY <2>1, <2>2, <2>3, <1>7 DEF MarksFollow
<1>11. \A v \in visits : object'[v.entry].life # "none"
  BY <1>8 DEF ObjectsKnown, TypeOK, Visit
<1> QED BY <1>1, <1>2, <1>3, <1>5, <1>6, <1>7, <1>8, <1>9, <1>10, <1>11

\* InstallDone and RebaseDone.
LEMMA ToldStep ==
    ASSUME IInv, NEW e \in Entries, NEW b \in BOOLEAN, Respond, Aside,
           installedSet' = IF b THEN installedSet \cup {e} ELSE installedSet \ {e},
           listed' \in BOOLEAN, object' = Marked(e, b), slots' = Told(slots, object', {e}),
           WriteBack({e}, object'), open' = Untold(e),
           stale' = Written(e), misled' = misled \ {e},
           UNCHANGED <<ids, holds, loading, turn, odd>>
    PROVE  IInv'
<1> USE DEF IInv
<1>1. /\ installedSet' \subseteq Entries
      /\ \A d \in Entries : d # e => (d \in installedSet' <=> d \in installedSet)
      /\ e \in installedSet' <=> b
      /\ object' \in [Entries -> Objects] /\ file' \in [Entries -> Marks]
      /\ \A d \in Entries \ Browsable : ~ file'[d].again /\ ~ object'[d].mark.again
      /\ \A d \in Entries : d # e => object'[d] = object[d] /\ file'[d] = file[d]
      /\ object'[e].life = Fetched(e).life /\ object'[e].mark.installed = b
      /\ object'[e].mark.again = (Fetched(e).mark.again \/ (~ b /\ e \in Browsable))
      /\ file'[e] = IF Held(e) THEN file[e] ELSE object'[e].mark
      /\ stale' \subseteq Entries /\ misled' \subseteq Entries
      /\ \A d \in Entries : Held(d)' <=> Held(d)
      /\ \A d \in Entries :
            Held(d) => object'[d].life # "none"
                         /\ (d \in odd \/ object'[d].life = "bound")
      /\ \A v \in visits : object'[v.entry].life # "none"
      /\ Current = installedSet /\ Current' = installedSet'
      /\ MarksFollow'
  BY MarkedStep DEF Respond, Aside
<1>2. /\ slots' \in Seq(SUBSET Flags) /\ Len(slots') = Len(ids)
      /\ \A i \in DOMAIN ids :
            IF ids[i] \in {e} /\ object'[ids[i]].life = "bound"
            THEN Tells(slots'[i], slots[i], object'[ids[i]].mark, ids[i])
            ELSE slots'[i] = slots[i]
  <2>1. slots \in Seq(SUBSET Flags) /\ Len(slots) = Len(ids)
    BY DEF TypeOK
  <2>2. object' \in [Entries -> Objects]
    BY <1>1
  <2>3. LET g == Told(slots, object', {e})
        IN /\ g \in Seq(SUBSET Flags) /\ Len(g) = Len(ids)
           /\ \A i \in DOMAIN ids :
                 IF ids[i] \in {e} /\ object'[ids[i]].life = "bound"
                 THEN Tells(g[i], slots[i], object'[ids[i]].mark, ids[i])
                 ELSE g[i] = slots[i]
    BY <2>1, <2>2, ToldFacts
  <2> QED BY <2>3
<1>3. open \subseteq open' /\ open' \subseteq Entries
      /\ (e \notin open' => object[e].life = "bound")
  BY DEF Untold, TypeOK
<1>4. TypeOK'
  <2>1. changes' \in 0..MaxChanges
    BY EntryAssumption DEF Respond, Step, TypeOK
  <2>2. UNCHANGED <<writing, snapshot, visits>>
    BY DEF Respond, Aside
  <2> QED BY <1>1, <1>2, <1>3, <2>1, <2>2 DEF TypeOK
<1>5. ObjectsKnown'
  BY <1>1 DEF ObjectsKnown, Respond
<1>6. ASSUME NEW i \in DOMAIN ids, ids[i] = e, e \notin open'
      PROVE  /\ object[e].life = "bound" /\ Fetched(e) = object[e]
             /\ Tells(slots'[i], slots[i], object'[e].mark, e)
  <2>1. object[e].life = "bound" /\ Fetched(e) = object[e]
    BY <1>6, <1>3, FetchedFacts
  <2>2. object'[ids[i]].life = "bound"
    BY <2>1, <1>1, <1>6
  <2>3. Tells(slots'[i], slots[i], object'[ids[i]].mark, ids[i])
    BY <2>2, <1>2, <1>6
  <2> QED BY <2>1, <2>3, <1>6
<1>7. FlagsFollow'
  <2> SUFFICES ASSUME NEW i \in DOMAIN ids, ids[i] \notin open'
               PROVE  "removable" \in slots'[i] <=> ids[i] \in installedSet'
    BY <1>1 DEF FlagsFollow
  <2>1. CASE ids[i] # e
    BY <2>1, <1>1, <1>2, <1>3, PlaceFacts DEF FlagsFollow
  <2>2. CASE ids[i] = e
    <3>1. "removable" \in slots'[i] <=> object'[e].mark.installed
      BY <2>2, <1>6 DEF Tells
    <3> QED BY <3>1, <2>2, <1>1
  <2> QED BY <2>1, <2>2
<1>8. Fitting'
  <2> SUFFICES ASSUME NEW i \in DOMAIN ids, ids[i] \notin open' \cup odd PROVE PlaceFits(i)'
    BY DEF Fitting, PlaceFits
  <2>1. PlaceFits(i) /\ ids[i] \in Entries
    BY FittingMeans, PlaceFacts DEF Fitting
  <2>2. CASE ids[i] # e
    BY <2>1, <2>2, <1>1, <1>2, <1>3 DEF PlaceFits, Fits
  <2>3. CASE ids[i] = e
    <3>1. /\ PlaceFits(i) /\ e \notin open /\ e \notin odd /\ object[e].life = "bound"
          /\ Tells(slots'[i], slots[i], object'[e].mark, e)
      BY <2>1, <2>3, <1>3, <1>6
    <3>2. /\ object'[e].mark.again \in BOOLEAN /\ object'[e].mark.installed \in BOOLEAN
          /\ object[e].mark.again => object'[e].mark.again
          /\ e \in installedSet' <=> object'[e].mark.installed
          /\ Held(e)' <=> Held(e)
      BY <2>3, <1>1, <1>6 DEF Objects, Marks
    <3>3. ~ object'[e].mark.installed /\ ~ object'[e].mark.again
              => ~ file'[e].again
      BY <1>1 DEF TypeOK
    <3>4. CASE Held(e)
      BY <2>3, <3>1, <3>2, <3>3, <3>4, <1>1 DEF PlaceFits, Fits, Tells
    <3>5. CASE ~ Held(e)
      BY <2>3, <3>1, <3>2, <3>3, <3>5, <1>1 DEF PlaceFits, Fits, Tells
    <3> QED BY <3>4, <3>5
  <2> QED BY <2>2, <2>3
<1>9. (OfferedWhenFree /\ InstallableFollows)'
  BY <1>8, FittingMeans, PTL
<1> QED BY <1>1, <1>4, <1>5, <1>7, <1>9

LEMMA InstallDoneStep == ASSUME IInv, NEW e \in Entries, InstallDone(e) PROVE IInv'
<1>1. Respond /\ Aside /\ object' = Marked(e, TRUE)
      /\ slots' = Told(slots, object', {e}) /\ WriteBack({e}, object')
      /\ installedSet' = (IF TRUE THEN installedSet \cup {e} ELSE installedSet \ {e})
      /\ listed' \in BOOLEAN /\ open' = Untold(e) /\ stale' = Written(e)
      /\ misled' = misled \ {e} /\ UNCHANGED <<ids, holds, loading, turn, odd>>
  BY DEF InstallDone
<1> QED BY <1>1, ToldStep

LEMMA RebaseDoneStep == ASSUME IInv, NEW e \in Entries, RebaseDone(e) PROVE IInv'
<1>1. Respond /\ Aside /\ object' = Marked(e, FALSE)
      /\ slots' = Told(slots, object', {e}) /\ WriteBack({e}, object')
      /\ installedSet' = (IF FALSE THEN installedSet \cup {e} ELSE installedSet \ {e})
      /\ listed' \in BOOLEAN /\ open' = Untold(e) /\ stale' = Written(e)
      /\ misled' = misled \ {e} /\ UNCHANGED <<ids, holds, loading, turn, odd>>
  BY DEF RebaseDone
<1> QED BY <1>1, ToldStep

LEMMA RemoveDoneStep == ASSUME IInv, NEW e \in Entries, RemoveDone(e) PROVE IInv'
<1> USE DEF IInv
<1>1. /\ Respond /\ Aside /\ object' = Marked(e, FALSE)
      /\ installedSet' = (IF FALSE THEN installedSet \cup {e} ELSE installedSet \ {e})
      /\ slots' = Reconciled(installedSet') /\ WriteBack({e}, object')
      /\ listed' \in BOOLEAN /\ open' = {} /\ odd' = {d \in Entries : Held(d)}
      /\ stale' = Written(e) /\ misled' = misled \ {e}
      /\ UNCHANGED <<ids, holds, loading, turn>>
  BY DEF RemoveDone, TypeOK
<1>2. /\ installedSet' \subseteq Entries
      /\ object' \in [Entries -> Objects] /\ file' \in [Entries -> Marks]
      /\ \A d \in Entries \ Browsable : ~ file'[d].again /\ ~ object'[d].mark.again
      /\ stale' \subseteq Entries /\ misled' \subseteq Entries
      /\ \A d \in Entries : Held(d)' <=> Held(d)
      /\ \A d \in Entries :
            Held(d) => object'[d].life # "none"
      /\ \A v \in visits : object'[v.entry].life # "none"
      /\ Current = installedSet /\ Current' = installedSet'
      /\ MarksFollow'
  BY <1>1, MarkedStep DEF Respond, Aside
<1>3. /\ slots' \in Seq(SUBSET Flags) /\ Len(slots') = Len(ids)
      /\ \A i \in DOMAIN ids : slots'[i] =
            IF ids[i] \in installedSet' THEN {"removable", "removeReady"}
            ELSE {"installable", "installReady"}
  BY <1>1, ReconciledFacts
<1>4. TypeOK'
  <2>1. changes' \in 0..MaxChanges
    BY <1>1, EntryAssumption DEF Respond, Step, TypeOK
  <2>2. UNCHANGED <<writing, snapshot, visits>>
    BY <1>1 DEF Respond, Aside
  <2> QED BY <1>1, <1>2, <1>3, <2>1, <2>2 DEF TypeOK
<1>5. ObjectsKnown'
  BY <1>1, <1>2 DEF ObjectsKnown, Respond
<1>6. FlagsFollow'
  <2>1. ASSUME NEW i \in DOMAIN ids
        PROVE  "removable" \in slots'[i] <=> ids[i] \in installedSet'
    BY <1>3
  <2> QED BY <2>1, <1>1, <1>2 DEF FlagsFollow
<1>7. Fitting'
  <2> SUFFICES ASSUME NEW i \in DOMAIN ids, ids[i] \notin open' \cup odd' PROVE PlaceFits(i)'
    BY <1>1 DEF Fitting, PlaceFits
  <2>1. ids[i] \in Entries /\ ~ Held(ids[i])'
    BY <1>1, <1>2, PlaceFacts
  <2>2. CASE ids[i] \in installedSet'
    <3>1. slots'[i] = {"removable", "removeReady"} /\ ids' = ids
      BY <1>1, <1>3, <2>2
    <3> QED BY <1>2, <2>1, <2>2, <3>1 DEF PlaceFits, Fits
  <2>3. CASE ids[i] \notin installedSet'
    <3>1. slots'[i] = {"installable", "installReady"} /\ ids' = ids
      BY <1>1, <1>3, <2>3
    <3> QED BY <1>2, <2>1, <2>3, <3>1 DEF PlaceFits, Fits
  <2> QED BY <2>2, <2>3
<1>8. (OfferedWhenFree /\ InstallableFollows)'
  BY <1>7, FittingMeans, PTL
<1> QED BY <1>2, <1>4, <1>5, <1>6, <1>8

-----------------------------------------------------------------------------
(* The loop over the entries *)

LEMMA LoadEntryStep ==
    ASSUME IInv, NEW found \in BOOLEAN, NEW caught \in BOOLEAN, LoadEntry(found, caught)
    PROVE  IInv'
<1> USE DEF IInv
<1> DEFINE i == turn + 1
           e == loading[i]
           phantom == found /\ object[e].mark.installed /\ "removable" \notin slots[i]
           fixed == [object EXCEPT ![e].mark.installed = FALSE]
           amiss == phantom /\ (ids[i] # e \/ e \in open)
<1>1. /\ loading # <<>> /\ (found => object[e].life # "none")
      /\ slots' = IF phantom THEN Told(slots, fixed, {e}) ELSE slots
      /\ object' = IF ~ found THEN object
                   ELSE [(IF phantom THEN fixed ELSE object) EXCEPT ![e].life = "bound"]
      /\ IF i = Len(loading) THEN turn' = 0 /\ loading' = <<>>
         ELSE turn' = i /\ UNCHANGED loading
      /\ open' = IF amiss THEN open \cup {e} ELSE open
      /\ misled' = IF amiss THEN misled \cup {e}
                   ELSE IF phantom THEN misled \ {e} ELSE misled
      /\ Caught(e, object', caught)
      /\ stale' = IF amiss /\ caught THEN stale \cup {e} ELSE stale
      /\ UNCHANGED <<installedSet, writing, snapshot, visits, listed, ids, holds, odd, changes>>
      /\ Current' = Current
  BY DEF LoadEntry, refreshVars, Current
<1> HIDE DEF phantom, amiss
<1>2. /\ loading \in Seq(Entries) /\ Len(loading) <= Len(ids) /\ turn \in Nat
      /\ turn < Len(loading) /\ Len(ids) \in Nat /\ Len(loading) \in Nat
  BY <1>1 DEF TypeOK
<1>3. i \in 1..Len(loading) /\ i \in DOMAIN ids /\ e \in Entries /\ DOMAIN ids = 1..Len(ids)
  BY <1>2, PlaceFacts
<1>4. /\ object \in [Entries -> Objects] /\ object[e] \in Objects
      /\ object[e].mark \in Marks
  BY <1>3 DEF TypeOK, Objects
<1>5. /\ fixed \in [Entries -> Objects]
      /\ fixed[e].life = object[e].life /\ ~ fixed[e].mark.installed
      /\ fixed[e].mark.again = object[e].mark.again
      /\ \A d \in Entries : d # e => fixed[d] = object[d]
  BY <1>3, <1>4 DEF Objects, Marks
<1> HIDE DEF fixed
<1>6. /\ object' \in [Entries -> Objects]
      /\ \A d \in Entries : d # e => object'[d] = object[d]
      /\ ~ found => object'[e] = object[e]
      /\ found => object'[e].life = "bound" /\ object[e].life # "none"
      /\ found /\ phantom => object'[e].mark = fixed[e].mark
      /\ found /\ ~ phantom => object'[e].mark = object[e].mark
  <2>1. CASE ~ found
    BY <2>1, <1>1, <1>4
  <2>2. CASE found /\ phantom
    BY <2>2, <1>1, <1>3, <1>5 DEF Objects
  <2>3. CASE found /\ ~ phantom
    BY <2>3, <1>1, <1>3, <1>4 DEF Objects
  <2> QED BY <2>1, <2>2, <2>3
<1>7. /\ phantom => found /\ object[e].mark.installed /\ "removable" \notin slots[i]
      /\ phantom /\ ~ amiss => ids[i] = e /\ e \notin open
      /\ amiss => phantom
  BY DEF phantom, amiss
<1>8. object'[e].mark.again = object[e].mark.again
      /\ (phantom => ~ object'[e].mark.installed)
  BY <1>5, <1>6, <1>7
<1>9. /\ slots' \in Seq(SUBSET Flags) /\ Len(slots') = Len(ids)
      /\ ~ phantom => slots' = slots
      /\ phantom => \A j \in DOMAIN ids :
            IF ids[j] = e /\ object[e].life = "bound"
            THEN Tells(slots'[j], slots[j], fixed[e].mark, e)
            ELSE slots'[j] = slots[j]
  <2>1. slots \in Seq(SUBSET Flags) /\ Len(slots) = Len(ids)
    BY DEF TypeOK
  <2>2. CASE ~ phantom
    BY <2>1, <2>2, <1>1
  <2>3. CASE phantom
    <3>1. LET g == Told(slots, fixed, {e})
          IN /\ g \in Seq(SUBSET Flags) /\ Len(g) = Len(ids)
             /\ \A j \in DOMAIN ids :
                   IF ids[j] \in {e} /\ fixed[ids[j]].life = "bound"
                   THEN Tells(g[j], slots[j], fixed[ids[j]].mark, ids[j])
                   ELSE g[j] = slots[j]
      BY <2>1, <1>5, ToldFacts
    <3>2. slots' = Told(slots, fixed, {e})
      BY <2>3, <1>1
    <3>3. slots' \in Seq(SUBSET Flags) /\ Len(slots') = Len(ids)
      BY <3>1, <3>2
    <3>4. ASSUME NEW j \in DOMAIN ids
          PROVE  IF ids[j] \in {e} /\ fixed[ids[j]].life = "bound"
                 THEN Tells(slots'[j], slots[j], fixed[ids[j]].mark, ids[j])
                 ELSE slots'[j] = slots[j]
      BY <3>1, <3>2
    <3>5. ASSUME NEW j \in DOMAIN ids
          PROVE  IF ids[j] = e /\ object[e].life = "bound"
                 THEN Tells(slots'[j], slots[j], fixed[e].mark, e)
                 ELSE slots'[j] = slots[j]
      <4>1. CASE ids[j] = e
        BY <4>1, <3>4, <1>5
      <4>2. CASE ids[j] # e
        BY <4>2, <3>4
      <4> QED BY <4>1, <4>2
    <3> QED BY <2>3, <3>3, <3>5
  <2> QED BY <2>2, <2>3
<1>10. /\ \A d \in Entries : d # e => (d \in open' <=> d \in open)
                                      /\ (d \in misled' <=> d \in misled)
       /\ open \subseteq open' /\ open' \subseteq Entries /\ misled' \subseteq Entries
       /\ e \notin open' => ~ amiss
       /\ e \notin misled' => ~ amiss /\ (~ phantom => e \notin misled)
  BY <1>1, <1>3 DEF TypeOK
<1>11. \A d \in Entries : (Held(d)' <=> Held(d)) /\ (Held(d) => object'[d].life = object[d].life \/ object'[d].life = "bound")
  BY <1>1, <1>6 DEF Held
<1>12. /\ file' \in [Entries -> Marks]
       /\ \A d \in Entries : d # e => file'[d] = file[d]
       /\ file'[e] \in {file[e], object'[e].mark}
       /\ caught => file'[e] = object'[e].mark
       /\ ~ caught => file'[e] = file[e]
       /\ caught => phantom
  <2>1. CASE ~ caught
    BY <2>1, <1>1 DEF Caught, TypeOK
  <2>2. CASE caught
    <3>1. file' = [file EXCEPT ![e] = object'[e].mark]
          /\ object'[e].mark # object[e].mark
      BY <2>2, <1>1 DEF Caught
    <3>2. object'[e].mark \in Marks /\ file \in [Entries -> Marks]
      BY <1>3, <1>6 DEF Objects, TypeOK
    <3> QED BY <2>2, <3>1, <3>2, <1>3, <1>6
  <2> QED BY <2>1, <2>2
<1>13. TypeOK'
  <2>1. loading' \in Seq(Entries) /\ Len(loading') <= Len(ids) /\ turn' \in Nat
        /\ (loading' = <<>> => turn' = 0) /\ (loading' # <<>> => turn' < Len(loading'))
    <3>1. CASE i = Len(loading)
      <4>1. turn' = 0 /\ loading' = <<>>
        BY <1>1, <3>1
      <4> QED BY <4>1, <1>2
    <3>2. CASE i # Len(loading)
      <4>1. turn' = i /\ loading' = loading
        BY <1>1, <3>2
      <4> QED BY <4>1, <1>2, <3>2
    <3> QED BY <3>1, <3>2
  <2>2. \A d \in Entries \ Browsable : ~ object'[d].mark.again
    BY <1>6, <1>8 DEF TypeOK
  <2>3. \A d \in Entries \ Browsable : ~ file'[d].again
    BY <1>12, <2>2 DEF TypeOK
  <2>4. stale' \subseteq Entries
    BY <1>1, <1>3 DEF TypeOK
  <2> QED BY <1>1, <1>6, <1>9, <1>10, <1>12, <2>1, <2>2, <2>3, <2>4 DEF TypeOK
<1>14. ObjectsKnown'
  <2>2. ASSUME NEW d \in Entries
        PROVE  /\ object[d].life # "none" => object'[d].life # "none"
               /\ Held(d) => object'[d].life # "none"
                               /\ (d \in odd \/ object'[d].life = "bound")
    BY <1>6, <1>11 DEF ObjectsKnown
  <2> QED BY <2>2, <1>1, <1>11 DEF ObjectsKnown, TypeOK, Visit
\* What a phantom is when the loop does not go amiss.
<1>15. ASSUME phantom, ~ amiss
       PROVE  e \notin Current /\ PlaceFits(i) /\ ids[i] = e
  BY <1>15, <1>3, <1>7, PlaceFacts, FittingMeans DEF FlagsFollow, Fitting
<1>16. FlagsFollow'
  <2> SUFFICES ASSUME NEW j \in DOMAIN ids, ids[j] \notin open'
               PROVE  "removable" \in slots'[j] <=> ids[j] \in Current
    BY <1>1 DEF FlagsFollow
  <2>1. "removable" \in slots[j] <=> ids[j] \in Current
    BY <1>10 DEF FlagsFollow
  <2>2. CASE phantom /\ ids[j] = e /\ object[e].life = "bound"
    <3>1. "removable" \notin slots'[j]
      BY <2>2, <1>5, <1>9 DEF Tells
    <3> QED BY <3>1, <2>2, <1>10, <1>15
  <2>3. CASE ~ (phantom /\ ids[j] = e /\ object[e].life = "bound")
    <3>1. slots'[j] = slots[j]
      BY <2>3, <1>9
    <3> QED BY <2>1, <3>1
  <2> QED BY <2>2, <2>3
<1>17. Fitting'
  <2> SUFFICES ASSUME NEW j \in DOMAIN ids, ids[j] \notin open' \cup odd PROVE PlaceFits(j)'
    BY <1>1 DEF Fitting, PlaceFits
  <2>1. /\ PlaceFits(j) /\ ids[j] \in Entries /\ ids[j] \notin open
        /\ (Held(ids[j])' <=> Held(ids[j]))
    <3>1. PlaceFits(j) /\ ids[j] \in Entries /\ ids[j] \notin open
      BY FittingMeans, PlaceFacts, <1>10 DEF Fitting
    <3> QED BY <3>1, <1>1 DEF Held
  <2>2. CASE phantom /\ ids[j] = e /\ object[e].life = "bound"
    <3>1. /\ Tells(slots'[j], slots[j], fixed[e].mark, e) /\ e \notin Current
          /\ object'[e].mark.again = fixed[e].mark.again /\ ~ fixed[e].mark.installed
          /\ object[e].mark.again = fixed[e].mark.again
      BY <2>2, <1>5, <1>8, <1>9, <1>10, <1>15
    <3>2. file'[e].again = file[e].again \/ file'[e].again = object[e].mark.again
      BY <3>1, <1>12
    <3>3. CASE Held(e)
      BY <2>1, <2>2, <3>1, <3>2, <3>3, <1>1 DEF PlaceFits, Fits, Tells
    <3>4. CASE ~ Held(e)
      BY <2>1, <2>2, <3>1, <3>2, <3>4, <1>1 DEF PlaceFits, Fits, Tells
    <3> QED BY <3>3, <3>4
  <2>3. CASE ~ (phantom /\ ids[j] = e /\ object[e].life = "bound")
    <3>1. slots'[j] = slots[j]
      BY <2>3, <1>9
    <3>2. object'[ids[j]].mark.again = object[ids[j]].mark.again
          /\ (object[ids[j]].life = "none" => object'[ids[j]].life = "none")
      BY <2>1, <1>6, <1>8
    <3>3. file'[ids[j]] = file[ids[j]] \/ (object[ids[j]].life # "none"
              /\ file'[ids[j]].again = object[ids[j]].mark.again)
      BY <2>1, <3>2, <1>6, <1>7, <1>12
    <3> QED BY <2>1, <3>1, <3>2, <3>3, <1>1 DEF PlaceFits, Fits
  <2> QED BY <2>2, <2>3
<1>18. MarksFollow'
  <2>2. ASSUME NEW d \in Entries, object'[d].life # "none", d \notin misled'
        PROVE  object'[d].mark.installed <=> d \in Current
    <3>1. CASE d # e
      BY <2>2, <3>1, <1>6, <1>10 DEF MarksFollow
    <3>2. CASE d = e /\ phantom
      BY <2>2, <3>2, <1>8, <1>10, <1>15
    <3>3. CASE d = e /\ ~ phantom
      BY <2>2, <3>3, <1>6, <1>10 DEF MarksFollow
    <3> QED BY <3>1, <3>2, <3>3
  <2>3. ASSUME NEW d \in Entries, d \notin stale'
        PROVE  file'[d].installed <=> d \in Current
    <3>1. d \notin stale
      BY <2>3, <1>1
    <3>2. CASE d = e /\ caught
      <4>1. phantom /\ ~ amiss
        BY <2>3, <3>2, <1>1, <1>12
      <4> QED BY <3>2, <4>1, <1>8, <1>15, <1>12
    <3>3. CASE ~ (d = e /\ caught)
      BY <3>1, <3>3, <1>12 DEF MarksFollow
    <3> QED BY <3>2, <3>3
  <2> QED BY <2>2, <2>3, <1>1 DEF MarksFollow
<1>19. (OfferedWhenFree /\ InstallableFollows)'
  BY <1>17, FittingMeans, PTL
<1> QED BY <1>13, <1>14, <1>16, <1>18, <1>19

-----------------------------------------------------------------------------
(* Additions *)

LEMMA FlagsOfFacts ==
    ASSUME NEW mark \in Marks, NEW held \in BOOLEAN, NEW g, g = FlagsOf(mark, held)
    PROVE  /\ g \in SUBSET Flags
           /\ "removable" \in g <=> mark.installed
           /\ "removeReady" \in g <=> mark.installed /\ ~ held
           /\ "installable" \in g <=> ~ mark.installed /\ mark.again
           /\ "installReady" \in g <=> ~ mark.installed /\ mark.again /\ ~ held
<1> DEFINE main == IF mark.installed THEN {"removable"}
                   ELSE IF mark.again THEN {"installable"} ELSE {}
           ready == IF held THEN {}
                    ELSE {IF f = "removable" THEN "removeReady" ELSE "installReady" : f \in main}
<1>1. g = main \cup ready
  BY DEF FlagsOf
<1>2. mark.installed \in BOOLEAN /\ mark.again \in BOOLEAN
  BY DEF Marks
<1>3. CASE mark.installed
  <2>1. main = {"removable"}
    BY <1>3
  <2>2. ready = IF held THEN {} ELSE {"removeReady"}
    BY <2>1
  <2> HIDE DEF main, ready
  <2> QED BY <1>1, <1>3, <2>1, <2>2 DEF Flags
<1>4. CASE ~ mark.installed /\ mark.again
  <2>1. main = {"installable"}
    BY <1>4
  <2>2. ready = IF held THEN {} ELSE {"installReady"}
    BY <2>1
  <2> HIDE DEF main, ready
  <2> QED BY <1>1, <1>4, <2>1, <2>2 DEF Flags
<1>5. CASE ~ mark.installed /\ ~ mark.again
  <2>1. main = {} /\ ready = {}
    BY <1>5
  <2> HIDE DEF main, ready
  <2> QED BY <1>1, <1>5, <2>1 DEF Flags
<1> QED BY <1>2, <1>3, <1>4, <1>5

LEMMA FirstPutFacts ==
    ASSUME TypeOK, NEW e \in Entries
    PROVE  /\ FirstPut(e) \in Seq(Entries)
           /\ Len(FirstPut(e)) = IF e \in Members THEN Len(ids) ELSE Len(ids) + 1
           /\ \A i, j \in DOMAIN FirstPut(e) : FirstPut(e)[i] = FirstPut(e)[j] => i = j
           /\ {FirstPut(e)[i] : i \in DOMAIN FirstPut(e)} = Members \cup {e}
<1>1. /\ ids \in Seq(Entries) /\ Len(ids) \in Nat /\ DOMAIN ids = 1..Len(ids)
      /\ \A i, j \in 1..Len(ids) : ids[i] = ids[j] => i = j
      /\ \A i \in 1..Len(ids) : ids[i] \in Entries /\ ids[i] \in Members
      /\ \A x \in Members : \E i \in 1..Len(ids) : ids[i] = x
  <2>1. ids \in Seq(Entries) /\ Len(ids) \in Nat /\ DOMAIN ids = 1..Len(ids)
    BY DEF TypeOK
  <2>2. \A i, j \in DOMAIN ids : ids[i] = ids[j] => i = j
    BY DEF TypeOK
  <2>3. \A i \in 1..Len(ids) : ids[i] \in Entries
    BY <2>1
  <2> QED BY <2>1, <2>2, <2>3 DEF Members
<1>2. CASE e \notin Members
  <2>1. FirstPut(e) = <<e>> \o ids
    BY <1>2 DEF FirstPut
  <2>2. /\ FirstPut(e) \in Seq(Entries) /\ Len(FirstPut(e)) = Len(ids) + 1
        /\ DOMAIN FirstPut(e) = 1..(Len(ids) + 1)
        /\ \A i \in 1..(Len(ids) + 1) : FirstPut(e)[i] = IF i = 1 THEN e ELSE ids[i - 1]
    BY <2>1, <1>1
  <2>3. \A i \in 1..Len(ids) : ids[i] # e
    BY <1>1, <1>2 DEF Members
  <2>4. ASSUME NEW i \in 1..(Len(ids) + 1), NEW j \in 1..(Len(ids) + 1),
               FirstPut(e)[i] = FirstPut(e)[j]
        PROVE  i = j
    <3>1. i # 1 => i - 1 \in 1..Len(ids) /\ FirstPut(e)[i] = ids[i - 1]
      BY <1>1, <2>2
    <3>2. j # 1 => j - 1 \in 1..Len(ids) /\ FirstPut(e)[j] = ids[j - 1]
      BY <1>1, <2>2
    <3>3. FirstPut(e)[1] = e
      BY <1>1, <2>2
    <3>4. CASE i = 1 \/ j = 1
      BY <3>1, <3>2, <3>3, <3>4, <2>3, <2>4
    <3>5. CASE i # 1 /\ j # 1
      <4>1. i - 1 = j - 1
        BY <3>1, <3>2, <3>5, <2>4, <1>1
      <4> QED BY <4>1, <1>1
    <3> QED BY <3>4, <3>5
  <2>5. ASSUME NEW i \in 1..(Len(ids) + 1)
        PROVE  FirstPut(e)[i] \in Members \cup {e}
    <3>1. i # 1 => i - 1 \in DOMAIN ids
      BY <1>1
    <3> QED BY <3>1, <2>2 DEF Members
  <2>6. ASSUME NEW i \in 1..Len(ids)
        PROVE  \E j \in 1..(Len(ids) + 1) : FirstPut(e)[j] = ids[i]
    <3>1. i + 1 \in 1..(Len(ids) + 1) /\ i + 1 # 1 /\ (i + 1) - 1 = i
      BY <1>1
    <3> QED BY <3>1, <2>2
  <2>7. \E j \in 1..(Len(ids) + 1) : FirstPut(e)[j] = e
    <3>1. 1 \in 1..(Len(ids) + 1)
      BY <1>1
    <3> QED BY <3>1, <2>2
  <2> HIDE DEF FirstPut
  <2>8. {FirstPut(e)[i] : i \in DOMAIN FirstPut(e)} = Members \cup {e}
    <3>1. ASSUME NEW x \in Members \cup {e}
          PROVE  \E j \in 1..(Len(ids) + 1) : FirstPut(e)[j] = x
      BY <2>6, <2>7, <1>1
    <3> QED BY <2>2, <2>5, <3>1
  <2> QED BY <1>2, <2>2, <2>4, <2>8
<1>3. CASE e \in Members
  <2> DEFINE p == CHOOSE i \in DOMAIN ids : ids[i] = e
  <2>1. p \in 1..Len(ids) /\ ids[p] = e
    BY <1>1, <1>3 DEF Members
  <2>2. FirstPut(e) = [i \in DOMAIN ids |-> IF i = 1 THEN e
                          ELSE IF i <= p THEN ids[i - 1] ELSE ids[i]]
    BY <1>3 DEF FirstPut
  <2> HIDE DEF p
  <2>3. /\ DOMAIN FirstPut(e) = 1..Len(ids)
        /\ \A i \in 1..Len(ids) : FirstPut(e)[i] =
              IF i = 1 THEN ids[p] ELSE IF i <= p THEN ids[i - 1] ELSE ids[i]
    BY <2>1, <2>2, <1>1
  <2>4. ASSUME NEW i \in 1..Len(ids)
        PROVE  /\ i = 1 => FirstPut(e)[i] = ids[p]
               /\ i # 1 /\ i <= p => i - 1 \in 1..Len(ids) /\ FirstPut(e)[i] = ids[i - 1]
               /\ i > p => FirstPut(e)[i] = ids[i]
    BY <2>1, <2>3, <1>1
  <2>5. \A i \in 1..Len(ids) : FirstPut(e)[i] \in Entries
    BY <2>1, <2>4, <1>1
  <2>6. FirstPut(e) \in Seq(Entries) /\ Len(FirstPut(e)) = Len(ids)
    <3>1. FirstPut(e) = [i \in 1..Len(ids) |-> FirstPut(e)[i]]
      BY <2>2, <1>1
    <3> QED BY <3>1, <2>5, <1>1
  <2>7. ASSUME NEW i \in 1..Len(ids), NEW j \in 1..Len(ids),
               FirstPut(e)[i] = FirstPut(e)[j]
        PROVE  i = j
    <3> DEFINE at(k) == IF k = 1 THEN p ELSE IF k <= p THEN k - 1 ELSE k
    <3>1. at(i) \in 1..Len(ids) /\ FirstPut(e)[i] = ids[at(i)]
      BY <2>1, <2>3, <1>1
    <3>2. at(j) \in 1..Len(ids) /\ FirstPut(e)[j] = ids[at(j)]
      BY <2>1, <2>3, <1>1
    <3>3. at(i) = at(j)
      <4> HIDE DEF at
      <4> QED BY <3>1, <3>2, <2>7, <1>1
    <3> QED BY <3>3, <2>1, <1>1
  <2>8. ASSUME NEW i \in 1..Len(ids)
        PROVE  FirstPut(e)[i] \in Members
    BY <2>1, <2>4, <1>1
  <2>9. ASSUME NEW i \in 1..Len(ids)
        PROVE  \E j \in 1..Len(ids) : FirstPut(e)[j] = ids[i]
    <3>1. CASE i = p
      <4>1. 1 \in 1..Len(ids)
        BY <1>1, <2>1
      <4> QED BY <4>1, <3>1, <2>3
    <3>2. CASE i < p
      <4>1. i + 1 \in 1..Len(ids) /\ i + 1 # 1 /\ i + 1 <= p /\ (i + 1) - 1 = i
        BY <1>1, <2>1, <3>2
      <4> QED BY <4>1, <2>3
    <3>3. CASE i > p
      BY <1>1, <2>1, <2>4, <3>3
    <3> QED BY <3>1, <3>2, <3>3, <2>1, <1>1
  <2>10. {FirstPut(e)[i] : i \in DOMAIN FirstPut(e)} = Members \cup {e}
    <3>1. ASSUME NEW x \in Members
          PROVE  \E j \in 1..Len(ids) : FirstPut(e)[j] = x
      BY <2>9, <1>1
    <3>2. Members \cup {e} = Members
      BY <1>3
    <3>3. {FirstPut(e)[i] : i \in 1..Len(ids)} = Members
      <4> HIDE DEF FirstPut, Members
      <4> QED BY <2>8, <3>1
    <3> QED BY <2>3, <3>2, <3>3
  <2> QED BY <1>3, <2>3, <2>6, <2>7, <2>10
<1> QED BY <1>2, <1>3

\* What an addition leaves, wherever it puts the entry.
LEMMA AddedFacts ==
    ASSUME TypeOK, NEW e \in Entries, NEW flags \in SUBSET Flags, Added(e, flags)
    PROVE  /\ ids' \in Seq(Entries) /\ \A i, j \in DOMAIN ids' : ids'[i] = ids'[j] => i = j
           /\ slots' \in Seq(SUBSET Flags) /\ Len(slots') = Len(ids')
           /\ Len(ids) <= Len(ids')
           /\ Members' = Members \cup {e}
           /\ ids' \in {ids, Append(ids, e)} => \A i \in DOMAIN ids' :
                 /\ ids'[i] = e => slots'[i] = flags
                 /\ ids'[i] # e => i \in DOMAIN ids /\ ids'[i] = ids[i] /\ slots'[i] = slots[i]
<1>1. /\ ids \in Seq(Entries) /\ Len(ids) \in Nat /\ DOMAIN ids = 1..Len(ids)
      /\ DOMAIN slots = 1..Len(ids) /\ slots \in Seq(SUBSET Flags) /\ Len(slots) = Len(ids)
  BY DEF TypeOK
<1>2. /\ \A i, j \in DOMAIN ids : ids[i] = ids[j] => i = j
      /\ \A i \in DOMAIN ids : ids[i] \in Entries /\ ids[i] \in Members
  BY PlaceFacts DEF TypeOK
<1>3. /\ slots' = IF e \in Members
                  THEN [i \in DOMAIN slots |-> IF ids[i] = e THEN flags ELSE slots[i]]
                  ELSE Append(slots, flags)
      /\ ids' = FirstPut(e) \/ (ids' = IF e \in Members THEN ids ELSE Append(ids, e))
  BY DEF Added
<1>4. /\ slots' \in Seq(SUBSET Flags)
      /\ Len(slots') = IF e \in Members THEN Len(ids) ELSE Len(ids) + 1
      /\ e \in Members => \A i \in 1..Len(ids) :
                              slots'[i] = IF ids[i] = e THEN flags ELSE slots[i]
      /\ e \notin Members => /\ slots'[Len(ids) + 1] = flags
                             /\ \A i \in 1..Len(ids) : slots'[i] = slots[i]
  <2>1. CASE e \in Members
    <3>1. slots' = [i \in 1..Len(ids) |-> IF ids[i] = e THEN flags ELSE slots[i]]
      BY <1>1, <1>3, <2>1
    <3>2. \A i \in 1..Len(ids) : slots[i] \in SUBSET Flags
      BY <1>1
    <3> QED BY <3>1, <3>2, <2>1, <1>1
  <2>2. CASE e \notin Members
    BY <2>2, <1>1, <1>3
  <2> QED BY <2>1, <2>2
<1>5. CASE ids' = FirstPut(e)
  <2>1. /\ ids' \in Seq(Entries)
        /\ Len(ids') = IF e \in Members THEN Len(ids) ELSE Len(ids) + 1
        /\ \A i, j \in DOMAIN ids' : ids'[i] = ids'[j] => i = j
        /\ Members' = Members \cup {e}
    <3>1. Members' = {ids'[i] : i \in DOMAIN ids'}
      BY DEF Members
    <3> HIDE DEF FirstPut
    <3> QED BY <3>1, <1>5, FirstPutFacts
  <2> QED BY <2>1, <1>1, <1>4
<1>6. CASE ids' = IF e \in Members THEN ids ELSE Append(ids, e)
  BY <1>1, <1>2, <1>4, <1>6 DEF Members
<1> QED BY <1>3, <1>5, <1>6

LEMMA ReplaceEntryStep ==
    ASSUME IInv, NEW e \in Entries, NEW again \in BOOLEAN, ReplaceEntry(e, again)
    PROVE  IInv'
<1> USE DEF IInv
<1> DEFINE new == [installed |-> e \in installedSet, again |-> again]
           flags == FlagsOf(new, FALSE)
<1>1. /\ Respond /\ (again => e \in Browsable) /\ Added(e, flags)
      /\ listed' \in BOOLEAN
      /\ file' = [file EXCEPT ![e] = new]
      /\ open' = IF Unmoved(e) THEN open \ {e} ELSE Entries
      /\ odd' = IF Held(e) \/ (object[e].life # "none" /\ object[e].mark.again # again)
                THEN odd \cup {e} ELSE odd
      /\ stale' = stale \ {e}
      /\ UNCHANGED <<installedSet, writing, snapshot, visits, object, holds, loading, turn,
                     misled>>
      /\ Current = installedSet /\ Current' = installedSet'
  BY DEF ReplaceEntry, Respond, Aside, Current, TypeOK
<1>3. /\ flags \in SUBSET Flags
      /\ "removable" \in flags <=> e \in installedSet
      /\ "removeReady" \in flags <=> e \in installedSet
      /\ "installable" \in flags <=> e \notin installedSet /\ again
      /\ "installReady" \in flags <=> e \notin installedSet /\ again
  <2>1. new \in Marks /\ new.installed = (e \in installedSet) /\ new.again = again
    BY DEF Marks
  <2>2. flags = FlagsOf(new, FALSE)
    OBVIOUS
  <2> HIDE DEF new, flags
  <2> QED BY <2>1, <2>2, FlagsOfFacts
<1> HIDE DEF flags
<1>4. /\ ids' \in Seq(Entries) /\ \A i, j \in DOMAIN ids' : ids'[i] = ids'[j] => i = j
      /\ slots' \in Seq(SUBSET Flags) /\ Len(slots') = Len(ids') /\ Len(ids) <= Len(ids')
      /\ Members' = Members \cup {e}
      /\ ids' \in {ids, Append(ids, e)} => \A i \in DOMAIN ids' :
            /\ ids'[i] = e => slots'[i] = flags
            /\ ids'[i] # e => i \in DOMAIN ids /\ ids'[i] = ids[i] /\ slots'[i] = slots[i]
  BY <1>1, <1>3, AddedFacts
<1>5. /\ file' \in [Entries -> Marks] /\ file'[e].installed = (e \in installedSet)
      /\ file'[e].again = again
      /\ \A d \in Entries : d # e => file'[d] = file[d]
  <2>1. file \in [Entries -> Marks] /\ new \in Marks
    BY DEF TypeOK, Marks
  <2>2. new.installed = (e \in installedSet) /\ new.again = again
    OBVIOUS
  <2> HIDE DEF new
  <2> QED BY <2>1, <2>2, <1>1
<1>6. \A d \in Entries : Held(d)' <=> Held(d)
  BY <1>1 DEF Held
<1>7. TypeOK'
  <2>1. changes' \in 0..MaxChanges
    BY <1>1, EntryAssumption DEF Respond, Step, TypeOK
  <2>2. open' \subseteq Entries /\ odd' \subseteq Entries /\ stale' \subseteq Entries
    BY <1>1 DEF TypeOK
  <2>3. Len(loading) <= Len(ids')
    <3>1. Len(loading) \in Nat /\ Len(ids) \in Nat /\ Len(ids') \in Nat
          /\ Len(loading) <= Len(ids)
      BY <1>4 DEF TypeOK
    <3> QED BY <3>1, <1>4
  <2>4. \A d \in Entries \ Browsable : ~ file'[d].again /\ ~ object'[d].mark.again
    BY <1>1, <1>5 DEF TypeOK
  <2> QED BY <1>1, <1>4, <1>5, <2>1, <2>2, <2>3, <2>4 DEF TypeOK
<1>8. ObjectsKnown'
  <2>1. odd \subseteq odd'
    BY <1>1
  <2> QED BY <1>1, <1>4, <1>6, <2>1 DEF ObjectsKnown
<1>9. FlagsFollow'
  <2> SUFFICES ASSUME NEW i \in DOMAIN ids', ids'[i] \notin open'
               PROVE  "removable" \in slots'[i] <=> ids'[i] \in installedSet
    BY <1>1 DEF FlagsFollow
  <2>1. ids' \in {ids, Append(ids, e)} /\ open' = open \ {e}
    BY <1>1, <1>4 DEF Unmoved
  <2>2. CASE ids'[i] = e
    BY <1>1, <2>1, <2>2, <1>3, <1>4
  <2>3. CASE ids'[i] # e
    BY <1>1, <2>1, <2>3, <1>4 DEF FlagsFollow
  <2> QED BY <2>2, <2>3
<1>10. Fitting'
  <2> SUFFICES ASSUME NEW i \in DOMAIN ids', ids'[i] \notin open' \cup odd'
               PROVE  PlaceFits(i)'
    BY DEF Fitting, PlaceFits
  <2>1. /\ ids' \in {ids, Append(ids, e)} /\ open' = open \ {e} /\ odd \subseteq odd'
        /\ ids'[i] \in Entries
    BY <1>1, <1>4 DEF Unmoved
  <2>2. CASE ids'[i] = e
    <3>1. /\ slots'[i] = flags /\ ~ Held(e)
          /\ object[e].life # "none" => object[e].mark.again = again
      BY <2>1, <2>2, <1>1, <1>4
    <3> QED BY <2>2, <3>1, <1>1, <1>3, <1>5, <1>6 DEF PlaceFits, Fits
  <2>3. CASE ids'[i] # e
    <3>1. i \in DOMAIN ids /\ ids'[i] = ids[i] /\ slots'[i] = slots[i]
      BY <2>1, <2>3, <1>4
    <3>2. PlaceFits(i) /\ ids[i] \notin open \cup odd
      BY <2>1, <2>3, <3>1, FittingMeans DEF Fitting
    <3> QED BY <2>1, <2>3, <3>1, <3>2, <1>1, <1>5, <1>6 DEF PlaceFits, Fits
  <2> QED BY <2>2, <2>3
<1>11. MarksFollow'
  <2>2. ASSUME NEW d \in Entries, d \notin stale'
        PROVE  file'[d].installed <=> d \in installedSet
    BY <2>2, <1>1, <1>5 DEF MarksFollow
  <2>3. ASSUME NEW d \in Entries, object[d].life # "none", d \notin misled
        PROVE  object[d].mark.installed <=> d \in installedSet
    BY <2>3, <1>1 DEF MarksFollow
  <2> QED BY <2>2, <2>3, <1>1 DEF MarksFollow
<1>12. (OfferedWhenFree /\ InstallableFollows)'
  BY <1>10, FittingMeans, PTL
<1> QED BY <1>7, <1>8, <1>9, <1>11, <1>12

-----------------------------------------------------------------------------
(* External changes *)

LEMMA ApplyDiffStep ==
    ASSUME IInv, NEW new \in SUBSET Entries, NEW read \in SUBSET Entries, ApplyDiff(new, read)
    PROVE  IInv'
<1> USE DEF IInv
<1> DEFINE diff == (installedSet \ new) \cup (new \ installedSet)
           gone == read \ new
           come == read \cap new
           recount == listed /\ gone # {}
           next(d) == IF ids = <<>> THEN Marked(d, d \in new)[d]
                      ELSE [Marked(d, d \in new)[d] EXCEPT !.life = "bound"]
           base == IF recount THEN Reconciled(new) ELSE Told(slots, object', gone)
<1>1. /\ Respond /\ read \subseteq diff /\ writing' = TRUE /\ snapshot' = new
      /\ object' = [d \in Entries |-> IF d \in read THEN next(d) ELSE object[d]]
      /\ slots' = Told(base, object', come)
      /\ listed' \in BOOLEAN
      /\ WriteBack(read, object')
      /\ open' = IF recount THEN {} ELSE open \cup (diff \ read)
      /\ odd' = IF recount THEN {d \in Entries : Held(d)} ELSE odd
      /\ stale' = (stale \ read) \cup (diff \ read) \cup {d \in read : Held(d)}
      /\ misled' = (misled \ read) \cup (diff \ read)
      /\ UNCHANGED <<installedSet, visits, ids, holds, loading, turn>>
      /\ Current = installedSet /\ Current' = new
  BY DEF ApplyDiff, Respond, Current, TypeOK
<1>2. \A d \in Entries : Held(d)' <=> Held(d)
  BY <1>1 DEF Held
<1>3. ASSUME NEW d \in Entries
      PROVE  /\ next(d) \in Objects
             /\ next(d).life = IF ids = <<>> THEN Fetched(d).life ELSE "bound"
             /\ next(d).mark.installed = (d \in new)
             /\ next(d).mark.again = (Fetched(d).mark.again \/ (d \notin new /\ d \in Browsable))
  <2>1. CASE d \in new
    <3> DEFINE m == Marked(d, TRUE)[d]
    <3>1. m \in Objects /\ m.life = Fetched(d).life /\ m.mark.installed = TRUE
          /\ m.mark.again = (Fetched(d).mark.again \/ (~ TRUE /\ d \in Browsable))
      BY MarkedFacts
    <3>2. (d \in new) = TRUE
      BY <2>1
    <3>3. next(d) = IF ids = <<>> THEN m ELSE [m EXCEPT !.life = "bound"]
      BY <3>2
    <3> HIDE DEF m, next
    <3> QED BY <2>1, <3>1, <3>3 DEF Objects
  <2>2. CASE d \notin new
    <3> DEFINE m == Marked(d, FALSE)[d]
    <3>1. m \in Objects /\ m.life = Fetched(d).life /\ m.mark.installed = FALSE
          /\ m.mark.again = (Fetched(d).mark.again \/ (~ FALSE /\ d \in Browsable))
      BY MarkedFacts
    <3>2. (d \in new) = FALSE
      BY <2>2
    <3>3. next(d) = IF ids = <<>> THEN m ELSE [m EXCEPT !.life = "bound"]
      BY <3>2
    <3>4. m.mark.again = (Fetched(d).mark.again \/ (d \notin new /\ d \in Browsable))
          /\ m.mark.installed = (d \in new)
      BY <3>1, <3>2
    <3> HIDE DEF m, next
    <3> QED BY <3>1, <3>3, <3>4 DEF Objects
  <2> QED BY <2>1, <2>2
<1> HIDE DEF next
<1>4. /\ object' \in [Entries -> Objects]
      /\ \A d \in Entries \ read : object'[d] = object[d]
      /\ \A d \in read : /\ object'[d].life = IF ids = <<>> THEN Fetched(d).life ELSE "bound"
                         /\ object'[d].mark.installed = (d \in new)
                         /\ object'[d].mark.again =
                               (Fetched(d).mark.again \/ (d \notin new /\ d \in Browsable))
  <2>1. \A d \in Entries : object'[d] = IF d \in read THEN next(d) ELSE object[d]
    BY <1>1
  <2>2. object \in [Entries -> Objects]
    BY DEF TypeOK
  <2>3. object' \in [Entries -> Objects]
    BY <1>1, <1>3, <2>2
  <2> QED BY <1>3, <2>1, <2>3
<1>5. /\ file' \in [Entries -> Marks]
      /\ \A d \in Entries : file'[d] = IF d \in read /\ ~ Held(d) THEN object'[d].mark
                                       ELSE file[d]
  BY <1>1, <1>4, WriteBackFacts
<1>6. /\ base \in Seq(SUBSET Flags) /\ Len(base) = Len(ids)
      /\ recount => \A i \in DOMAIN ids :
            base[i] = IF ids[i] \in new THEN {"removable", "removeReady"}
                      ELSE {"installable", "installReady"}
      /\ ~ recount => \A i \in DOMAIN ids :
            IF ids[i] \in gone /\ object'[ids[i]].life = "bound"
            THEN Tells(base[i], slots[i], object'[ids[i]].mark, ids[i])
            ELSE base[i] = slots[i]
  <2>1. CASE recount
    BY <2>1, ReconciledFacts
  <2>2. CASE ~ recount
    <3>1. slots \in Seq(SUBSET Flags) /\ Len(slots) = Len(ids)
      BY DEF TypeOK
    <3>2. LET g == Told(slots, object', gone)
          IN /\ g \in Seq(SUBSET Flags) /\ Len(g) = Len(ids)
             /\ \A i \in DOMAIN ids :
                   IF ids[i] \in gone /\ object'[ids[i]].life = "bound"
                   THEN Tells(g[i], slots[i], object'[ids[i]].mark, ids[i])
                   ELSE g[i] = slots[i]
      BY <3>1, <1>4, ToldFacts
    <3> QED BY <2>2, <3>2
  <2> QED BY <2>1, <2>2
<1> HIDE DEF base
<1>7. /\ slots' \in Seq(SUBSET Flags) /\ Len(slots') = Len(ids)
      /\ \A i \in DOMAIN ids :
            IF ids[i] \in come /\ object'[ids[i]].life = "bound"
            THEN Tells(slots'[i], base[i], object'[ids[i]].mark, ids[i])
            ELSE slots'[i] = base[i]
  <2>1. LET g == Told(base, object', come)
        IN /\ g \in Seq(SUBSET Flags) /\ Len(g) = Len(ids)
           /\ \A i \in DOMAIN ids :
                 IF ids[i] \in come /\ object'[ids[i]].life = "bound"
                 THEN Tells(g[i], base[i], object'[ids[i]].mark, ids[i])
                 ELSE g[i] = base[i]
    <3>1. base \in Seq(SUBSET Flags) /\ Len(base) = Len(ids) /\ object' \in [Entries -> Objects]
      BY <1>4, <1>6
    <3> HIDE DEF come
    <3> QED BY <3>1, ToldFacts
  <2> QED BY <1>1, <2>1
<1> HIDE DEF recount
\* One place: what the reconciliation left, or what it was before.
<1>8. ASSUME NEW i \in DOMAIN ids
      PROVE  /\ ids[i] \in Entries
             /\ ids[i] \in read => object'[ids[i]].life = "bound"
             /\ ids[i] \in come => Tells(slots'[i], base[i], object'[ids[i]].mark, ids[i])
             /\ ids[i] \notin come => slots'[i] = base[i]
             /\ ids[i] \in come => ids[i] \notin gone
             /\ ~ recount /\ ids[i] \in gone
                   => Tells(base[i], slots[i], object'[ids[i]].mark, ids[i])
             /\ ~ recount /\ ids[i] \notin gone => base[i] = slots[i]
  <2>1. ids # <<>> /\ ids[i] \in Entries
    BY PlaceFacts
  <2>2. ids[i] \in read => object'[ids[i]].life = "bound"
    BY <2>1, <1>4
  <2> QED BY <2>1, <2>2, <1>6, <1>7
<1>9. TypeOK'
  <2>1. changes' \in 0..MaxChanges
    BY <1>1, EntryAssumption DEF Respond, Step, TypeOK
  <2>2. open' \subseteq Entries /\ odd' \subseteq Entries /\ stale' \subseteq Entries
        /\ misled' \subseteq Entries
    BY <1>1 DEF TypeOK
  <2>3. ASSUME NEW d \in Entries \ Browsable
        PROVE  ~ file'[d].again /\ ~ object'[d].mark.again
    <3>1. ~ file[d].again /\ ~ object[d].mark.again /\ ~ Fetched(d).mark.again
      BY FetchedFacts DEF TypeOK
    <3> QED BY <3>1, <1>4, <1>5
  <2> QED BY <1>1, <1>4, <1>5, <1>7, <2>1, <2>2, <2>3 DEF TypeOK
<1>10. ObjectsKnown'
  <2>1. ASSUME NEW d \in Entries
        PROVE  /\ object[d].life # "none" => object'[d].life # "none"
               /\ Held(d) => object'[d].life # "none"
                               /\ (d \in odd' \/ object'[d].life = "bound")
    <3>1. CASE d \in read
      <4>1. Held(d) /\ d \in odd => d \in odd'
        BY <1>1
      <4>2. /\ object'[d].life # "none"
            /\ object[d].life = "bound" => object'[d].life = "bound"
        BY <3>1, <1>4, FetchedFacts
      <4> QED BY <4>1, <4>2 DEF ObjectsKnown
    <3>2. CASE d \notin read
      <4>1. object'[d] = object[d]
        BY <3>2, <1>4
      <4>2. Held(d) /\ d \in odd => d \in odd'
        BY <1>1
      <4> QED BY <4>1, <4>2 DEF ObjectsKnown
    <3> QED BY <3>1, <3>2
  <2> QED BY <2>1, <1>1, <1>2 DEF ObjectsKnown, TypeOK, Visit
<1>11. FlagsFollow'
  <2> SUFFICES ASSUME NEW i \in DOMAIN ids, ids[i] \notin open'
               PROVE  "removable" \in slots'[i] <=> ids[i] \in new
    BY <1>1 DEF FlagsFollow
  <2>1. CASE ids[i] \in read
    <3>1. CASE ids[i] \in new
      BY <2>1, <3>1, <1>4, <1>8 DEF Tells
    <3>2. CASE ids[i] \notin new /\ recount
      BY <2>1, <3>2, <1>6, <1>8
    <3>3. CASE ids[i] \notin new /\ ~ recount
      BY <2>1, <3>3, <1>4, <1>8 DEF Tells
    <3> QED BY <3>1, <3>2, <3>3
  <2>2. CASE ids[i] \notin read /\ recount
    <3>1. slots'[i] = IF ids[i] \in new THEN {"removable", "removeReady"}
                      ELSE {"installable", "installReady"}
      BY <2>2, <1>6, <1>8
    <3> QED BY <3>1
  <2>3. CASE ids[i] \notin read /\ ~ recount
    <3>1. slots'[i] = slots[i] /\ ids[i] \notin open /\ ids[i] \notin diff
      BY <2>3, <1>1, <1>8
    <3>2. ids[i] \in new <=> ids[i] \in Current
      BY <3>1, <1>1, <1>8
    <3> QED BY <3>1, <3>2 DEF FlagsFollow
  <2> QED BY <2>1, <2>2, <2>3
<1>12. Fitting'
  <2> SUFFICES ASSUME NEW i \in DOMAIN ids, ids[i] \notin open' \cup odd' PROVE PlaceFits(i)'
    BY <1>1 DEF Fitting, PlaceFits
  <2> DEFINE e == ids[i]
             o == object'[e]
  <2>1. /\ e \in Entries /\ (Held(e)' <=> Held(e)) /\ ids' = ids /\ Current' = new
        /\ o.mark.again \in BOOLEAN /\ o.mark.installed \in BOOLEAN
    BY <1>1, <1>2, <1>4, <1>8 DEF Objects, Marks
  <2>2. CASE recount
    <3>1. ~ Held(e)
      BY <2>1, <2>2, <1>1
    <3>2. CASE e \in new
      <4>1. base[i] = {"removable", "removeReady"}
        BY <2>2, <3>2, <1>6
      <4>2. "removable" \in slots'[i] /\ "removeReady" \in slots'[i]
            /\ "installable" \notin slots'[i] /\ "installReady" \notin slots'[i]
        <5>1. CASE e \in come
          BY <3>1, <4>1, <5>1, <1>4, <1>8 DEF Tells
        <5>2. CASE e \notin come
          BY <4>1, <5>2, <1>8
        <5> QED BY <5>1, <5>2
      <4> QED BY <2>1, <3>1, <3>2, <4>2 DEF PlaceFits, Fits
    <3>3. CASE e \notin new
      <4>1. slots'[i] = {"installable", "installReady"}
        BY <2>2, <3>3, <1>6, <1>8
      <4> QED BY <2>1, <3>1, <3>3, <4>1 DEF PlaceFits, Fits
    <3> QED BY <3>2, <3>3
  <2>3. CASE ~ recount /\ e \in read
    <3>1. PlaceFits(i) /\ e \notin open \cup odd
      BY <2>3, <1>1, FittingMeans DEF Fitting
    <3>2. /\ Tells(slots'[i], slots[i], o.mark, e) /\ (o.mark.installed <=> e \in new)
          /\ o.mark.again = (Fetched(e).mark.again \/ (e \notin new /\ e \in Browsable))
          /\ o.life = "bound"
      BY <2>3, <1>4, <1>8
    <3>3. Held(e) => Fetched(e) = object[e]
      BY <2>1, FetchedFacts DEF ObjectsKnown
    <3>4. ~ o.mark.installed /\ ~ o.mark.again => ~ file'[e].again
      <4>1. e \notin Browsable => ~ file[e].again
        BY <2>1 DEF TypeOK
      <4> QED BY <2>1, <3>2, <4>1, <1>5
    <3>5. CASE Held(e)
      BY <2>1, <3>1, <3>2, <3>3, <3>4, <3>5 DEF PlaceFits, Fits, Tells
    <3>6. CASE ~ Held(e)
      BY <2>1, <3>1, <3>2, <3>4, <3>6 DEF PlaceFits, Fits, Tells
    <3> QED BY <3>5, <3>6
  <2>4. CASE ~ recount /\ e \notin read
    <3>1. PlaceFits(i) /\ e \notin open \cup odd
      BY <2>4, <1>1, FittingMeans DEF Fitting
    <3>2. slots'[i] = slots[i] /\ o = object[e] /\ file'[e] = file[e]
      BY <2>1, <2>4, <1>4, <1>5, <1>8
    <3>3. e \in new <=> e \in Current
      BY <2>4, <1>1, <1>8
    <3> QED BY <2>1, <3>1, <3>2, <3>3 DEF PlaceFits, Fits
  <2> QED BY <2>2, <2>3, <2>4
<1>13. MarksFollow'
  <2> SUFFICES ASSUME NEW d \in Entries
               PROVE  /\ d \notin stale' => (file'[d].installed <=> d \in new)
                      /\ object'[d].life # "none" /\ d \notin misled'
                            => (object'[d].mark.installed <=> d \in new)
    BY <1>1 DEF MarksFollow
  <2>1. CASE d \in read
    <3>1. object'[d].mark.installed = (d \in new)
      BY <2>1, <1>4
    <3>2. d \notin stale' => file'[d] = object'[d].mark
      BY <2>1, <1>1, <1>5
    <3> QED BY <3>1, <3>2
  <2>2. CASE d \in diff \ read
    BY <2>2, <1>1
  <2>3. CASE d \notin read /\ d \notin diff
    <3>1. /\ object'[d] = object[d] /\ file'[d] = file[d]
          /\ d \in stale' <=> d \in stale
          /\ d \in misled' <=> d \in misled
          /\ d \in new <=> d \in Current
      BY <2>3, <1>1, <1>2, <1>4, <1>5
    <3> QED BY <3>1 DEF MarksFollow
  <2> QED BY <2>1, <2>2, <2>3
<1>14. (OfferedWhenFree /\ InstallableFollows)'
  BY <1>12, FittingMeans, PTL
<1> QED BY <1>9, <1>10, <1>11, <1>13, <1>14

LEMMA AdoptStep == ASSUME IInv, AdoptSet PROVE IInv'
<1> USE DEF IInv
<1>1. /\ writing /\ writing' = FALSE /\ installedSet' = snapshot /\ snapshot' = {}
      /\ UNCHANGED <<visits, listed, ids, slots, file, object, holds, loading, turn, open, odd,
                     stale, misled, changes>>
  BY DEF AdoptSet, historyVars
<1>2. Current' = Current
  BY <1>1 DEF Current
<1>3. TypeOK'
  BY <1>1 DEF TypeOK
<1> QED BY <1>1, <1>2, <1>3 DEF ObjectsKnown, FlagsFollow, OfferedWhenFree,
                               InstallableFollows, MarksFollow, Held

-----------------------------------------------------------------------------
(* Visits *)

LEMMA BeginVisitStep ==
    ASSUME IInv, NEW e \in Entries, NEW caught \in BOOLEAN, BeginVisit(e, caught)
    PROVE  IInv'
<1> USE DEF IInv
<1> DEFINE amiss == (e \in installedSet) # (e \in Current)
           new == [Fetched(e) EXCEPT !.mark.installed = e \in installedSet]
<1>1. /\ Step
      /\ visits' = visits \cup {[entry |-> e, installed |-> e \in installedSet]}
      /\ object' = [object EXCEPT ![e] = new]
      /\ slots' = Told(slots, object', {e})
      /\ Caught(e, object', caught)
      /\ open' = IF amiss /\ object[e].life = "bound" THEN open \cup {e} ELSE open
      /\ stale' = IF amiss /\ caught THEN stale \cup {e} ELSE stale
      /\ misled' = IF amiss THEN misled \cup {e} ELSE misled \ {e}
      /\ UNCHANGED <<installedSet, writing, snapshot, listed, ids, holds, loading, turn, odd>>
      /\ Current' = Current
  BY DEF BeginVisit, Aside, Current
<1>2. /\ new \in Objects /\ new.life = Fetched(e).life
      /\ new.mark.installed = (e \in installedSet)
      /\ new.mark.again = Fetched(e).mark.again
  <2>1. Fetched(e) \in Objects
    BY FetchedFacts
  <2>2. Fetched(e).mark \in Marks
    BY <2>1 DEF Objects
  <2> DEFINE mark == [Fetched(e).mark EXCEPT !.installed = e \in installedSet]
  <2>3. mark \in Marks /\ mark.installed = (e \in installedSet)
        /\ mark.again = Fetched(e).mark.again
    <3>1. \A m \in Marks, b \in BOOLEAN :
              /\ [m EXCEPT !.installed = b] \in Marks
              /\ [m EXCEPT !.installed = b].installed = b
              /\ [m EXCEPT !.installed = b].again = m.again
      BY DEF Marks
    <3>2. (e \in installedSet) \in BOOLEAN
      OBVIOUS
    <3> QED BY <2>2, <3>1, <3>2
  <2>4. new = [Fetched(e) EXCEPT !.mark = mark]
    BY <2>1 DEF Objects
  <2> HIDE DEF new, mark
  <2> QED BY <2>1, <2>3, <2>4 DEF Objects
<1> HIDE DEF new
<1>3. /\ object \in [Entries -> Objects] /\ object' \in [Entries -> Objects]
      /\ object'[e] = new
      /\ \A d \in Entries : d # e => object'[d] = object[d]
  BY <1>1, <1>2 DEF TypeOK
<1>4. /\ object'[e].life # "none"
      /\ object'[e].life = "bound" <=> object[e].life = "bound"
      /\ object'[e].mark.installed = (e \in installedSet)
      /\ object[e].life # "none" => object'[e].mark.again = object[e].mark.again
      /\ object[e].life = "none" => object'[e].mark.again = file[e].again
      /\ e \notin Browsable => ~ object'[e].mark.again
  BY <1>2, <1>3, FetchedFacts
<1>5. /\ file' \in [Entries -> Marks]
      /\ \A d \in Entries : d # e => file'[d] = file[d]
      /\ caught => file'[e] = object'[e].mark /\ object[e].life # "none"
      /\ ~ caught => file'[e] = file[e]
  <2>1. file \in [Entries -> Marks] /\ object'[e].mark \in Marks
    BY <1>3 DEF TypeOK, Objects
  <2> QED BY <2>1, <1>1 DEF Caught
<1>6. \A d \in Entries : Held(d)' <=> Held(d)
  BY <1>1 DEF Held
<1>7. /\ slots' \in Seq(SUBSET Flags) /\ Len(slots') = Len(ids)
      /\ \A i \in DOMAIN ids :
            IF ids[i] = e /\ object[e].life = "bound"
            THEN Tells(slots'[i], slots[i], object'[e].mark, e)
            ELSE slots'[i] = slots[i]
  <2>1. slots \in Seq(SUBSET Flags) /\ Len(slots) = Len(ids)
    BY DEF TypeOK
  <2>2. LET g == Told(slots, object', {e})
        IN /\ g \in Seq(SUBSET Flags) /\ Len(g) = Len(ids)
           /\ \A i \in DOMAIN ids :
                 IF ids[i] \in {e} /\ object'[ids[i]].life = "bound"
                 THEN Tells(g[i], slots[i], object'[ids[i]].mark, ids[i])
                 ELSE g[i] = slots[i]
    BY <2>1, <1>3, ToldFacts
  <2>3. slots' \in Seq(SUBSET Flags) /\ Len(slots') = Len(ids)
    BY <1>1, <2>2
  <2>4. ASSUME NEW i \in DOMAIN ids
        PROVE  IF ids[i] = e /\ object[e].life = "bound"
               THEN Tells(slots'[i], slots[i], object'[e].mark, e)
               ELSE slots'[i] = slots[i]
    <3>1. IF ids[i] \in {e} /\ object'[ids[i]].life = "bound"
          THEN Tells(slots'[i], slots[i], object'[ids[i]].mark, ids[i])
          ELSE slots'[i] = slots[i]
      BY <1>1, <2>2
    <3> QED BY <3>1, <1>4
  <2> QED BY <2>3, <2>4
<1>8. /\ open \subseteq open' /\ open' \subseteq Entries
      /\ stale \subseteq stale' /\ stale' \subseteq Entries /\ misled' \subseteq Entries
      /\ e \notin open' /\ object[e].life = "bound" => ~ amiss
      /\ e \notin misled' => ~ amiss
      /\ \A d \in Entries : d # e => (d \in misled' <=> d \in misled)
  BY <1>1 DEF TypeOK
<1>9. TypeOK'
  <2>1. changes' \in 0..MaxChanges
    BY <1>1, EntryAssumption DEF Step, TypeOK
  <2>2. visits' \subseteq Visit
    <3>1. [entry |-> e, installed |-> e \in installedSet] \in Visit
      BY DEF Visit
    <3> QED BY <3>1, <1>1 DEF TypeOK
  <2>3. ASSUME NEW d \in Entries \ Browsable
        PROVE  ~ file'[d].again /\ ~ object'[d].mark.again
    <3>1. ~ file[d].again /\ ~ object[d].mark.again
      BY DEF TypeOK
    <3> QED BY <3>1, <1>3, <1>4, <1>5
  <2> QED BY <1>1, <1>3, <1>5, <1>7, <1>8, <2>1, <2>2, <2>3 DEF TypeOK
<1>10. ObjectsKnown'
  <2>1. ASSUME NEW d \in Entries
        PROVE  /\ object[d].life # "none" => object'[d].life # "none"
               /\ Held(d) => object'[d].life # "none"
                               /\ (d \in odd \/ object'[d].life = "bound")
    BY <1>3, <1>4 DEF ObjectsKnown
  <2>2. ASSUME NEW v \in visits'
        PROVE  object'[v.entry].life # "none"
    <3>1. CASE v \in visits
      BY <2>1, <3>1 DEF ObjectsKnown, TypeOK, Visit
    <3>2. CASE v \notin visits
      <4>1. v = [entry |-> e, installed |-> e \in installedSet]
        BY <3>2, <1>1
      <4> QED BY <4>1, <1>4
    <3> QED BY <3>1, <3>2
  <2> QED BY <2>1, <2>2, <1>1, <1>6 DEF ObjectsKnown
<1>11. FlagsFollow'
  <2> SUFFICES ASSUME NEW i \in DOMAIN ids, ids[i] \notin open'
               PROVE  "removable" \in slots'[i] <=> ids[i] \in Current
    BY <1>1 DEF FlagsFollow
  <2>1. CASE ids[i] = e /\ object[e].life = "bound"
    <3>1. "removable" \in slots'[i] <=> e \in installedSet
      BY <2>1, <1>4, <1>7 DEF Tells
    <3> QED BY <2>1, <3>1, <1>8
  <2>2. CASE ~ (ids[i] = e /\ object[e].life = "bound")
    BY <2>2, <1>7, <1>8 DEF FlagsFollow
  <2> QED BY <2>1, <2>2
<1>12. Fitting'
  <2> SUFFICES ASSUME NEW i \in DOMAIN ids, ids[i] \notin open' \cup odd PROVE PlaceFits(i)'
    BY <1>1 DEF Fitting, PlaceFits
  <2>1. PlaceFits(i) /\ ids[i] \in Entries /\ ids[i] \notin open \cup odd
    BY <1>8, FittingMeans, PlaceFacts DEF Fitting
  <2>2. Fits(slots[i], ids[i] \in Current, object[ids[i]], file[ids[i]], Held(ids[i]))
    BY <2>1 DEF PlaceFits
  <2>3. CASE ids[i] # e
    BY <2>1, <2>2, <2>3, <1>1, <1>3, <1>5, <1>6, <1>7 DEF PlaceFits, Fits
  <2>4. CASE ids[i] = e /\ object[e].life = "bound"
    <3>1. /\ Tells(slots'[i], slots[i], object'[e].mark, e)
          /\ object'[e].mark.installed <=> e \in Current
          /\ object'[e].mark.again = object[e].mark.again
          /\ file'[e].again = file[e].again \/ file'[e].again = object[e].mark.again
          /\ Fits(slots[i], e \in Current, object[e], file[e], Held(e))
      BY <2>2, <2>4, <1>4, <1>5, <1>7, <1>8
    <3>2. object'[e].mark.again \in BOOLEAN /\ object'[e].mark.installed \in BOOLEAN
      BY <1>3 DEF Objects, Marks
    <3>3. Fits(slots'[i], e \in Current, object'[e], file'[e], Held(e))
      <4>1. CASE Held(e)
        BY <2>4, <3>1, <3>2, <4>1 DEF Fits, Tells
      <4>2. CASE ~ Held(e)
        BY <2>4, <3>1, <3>2, <4>2 DEF Fits, Tells
      <4> QED BY <4>1, <4>2
    <3> QED BY <2>1, <2>4, <3>3, <1>1, <1>6 DEF PlaceFits, Fits
  <2>5. CASE ids[i] = e /\ object[e].life # "bound"
    <3>1. /\ slots'[i] = slots[i]
          /\ Fits(slots[i], e \in Current, object[e], file[e], Held(e))
      BY <2>2, <2>5, <1>7
    <3>2. /\ Held(e) => object[e].life # "none"
          /\ \/ file'[e].again = file[e].again
             \/ object[e].life # "none" /\ file'[e].again = object[e].mark.again
      BY <1>4, <1>5 DEF ObjectsKnown
    <3>3. Fits(slots'[i], e \in Current, object'[e], file'[e], Held(e))
      BY <3>1, <3>2, <1>4 DEF Fits
    <3> QED BY <2>1, <2>5, <3>3, <1>1, <1>6 DEF PlaceFits, Fits
  <2> QED BY <2>3, <2>4, <2>5
<1>13. MarksFollow'
  <2> SUFFICES ASSUME NEW d \in Entries
               PROVE  /\ d \notin stale' => (file'[d].installed <=> d \in Current)
                      /\ object'[d].life # "none" /\ d \notin misled'
                            => (object'[d].mark.installed <=> d \in Current)
    BY <1>1 DEF MarksFollow
  <2>1. CASE d # e
    BY <2>1, <1>3, <1>5, <1>8 DEF MarksFollow
  <2>2. CASE d = e
    <3>1. e \notin misled' => (object'[e].mark.installed <=> e \in Current)
      BY <1>4, <1>8
    <3>2. CASE caught
      <4>1. e \notin stale' => ~ amiss
        BY <3>2, <1>1
      <4>2. file'[e].installed = (e \in installedSet)
        BY <3>2, <1>4, <1>5
      <4> QED BY <2>2, <3>1, <4>1, <4>2
    <3>3. CASE ~ caught
      BY <2>2, <3>1, <3>3, <1>5, <1>8 DEF MarksFollow
    <3> QED BY <3>2, <3>3
  <2> QED BY <2>1, <2>2
<1>14. (OfferedWhenFree /\ InstallableFollows)'
  BY <1>12, FittingMeans, PTL
<1> QED BY <1>9, <1>10, <1>11, <1>13, <1>14

LEMMA EndVisitStep == ASSUME IInv, NEW v \in visits, EndVisit(v) PROVE IInv'
<1> USE DEF IInv
<1> DEFINE e == v.entry
           flags == FlagsOf(object[e].mark, Held(e))
<1>1. /\ visits' = visits \ {v} /\ Added(e, flags)
      /\ listed' \in BOOLEAN
      /\ open' = IF ~ Unmoved(e) THEN Entries
                 ELSE IF e \in misled THEN open \cup {e} ELSE open \ {e}
      /\ odd' = IF file[e].again # object[e].mark.again THEN odd \cup {e} ELSE odd
      /\ UNCHANGED <<installedSet, writing, snapshot, file, object, holds, loading, turn,
                     stale, misled, changes>>
      /\ Current' = Current
  BY DEF EndVisit, Current, TypeOK, Visit
<1>2. e \in Entries /\ object[e].life # "none"
  BY DEF TypeOK, Visit, ObjectsKnown
<1>3. /\ object[e] \in Objects /\ object[e].mark \in Marks
      /\ object[e].mark.installed \in BOOLEAN /\ object[e].mark.again \in BOOLEAN
      /\ Held(e) \in BOOLEAN
  BY <1>2 DEF TypeOK, Objects, Marks, Held
<1>4. /\ flags \in SUBSET Flags
      /\ "removable" \in flags <=> object[e].mark.installed
      /\ "removeReady" \in flags <=> object[e].mark.installed /\ ~ Held(e)
      /\ "installable" \in flags <=> ~ object[e].mark.installed /\ object[e].mark.again
      /\ "installReady" \in flags
            <=> ~ object[e].mark.installed /\ object[e].mark.again /\ ~ Held(e)
  BY <1>3, FlagsOfFacts
<1> HIDE DEF e, flags
<1>5. /\ ids' \in Seq(Entries) /\ \A i, j \in DOMAIN ids' : ids'[i] = ids'[j] => i = j
      /\ slots' \in Seq(SUBSET Flags) /\ Len(slots') = Len(ids') /\ Len(ids) <= Len(ids')
      /\ ids' \in {ids, Append(ids, e)} => \A i \in DOMAIN ids' :
            /\ ids'[i] = e => slots'[i] = flags
            /\ ids'[i] # e => i \in DOMAIN ids /\ ids'[i] = ids[i] /\ slots'[i] = slots[i]
  BY <1>1, <1>2, <1>4, AddedFacts
<1>6. \A d \in Entries : Held(d)' <=> Held(d)
  BY <1>1 DEF Held
<1>7. TypeOK'
  <2>1. open' \subseteq Entries /\ odd' \subseteq Entries /\ visits' \subseteq Visit
    BY <1>1, <1>2 DEF TypeOK
  <2>2. Len(loading) <= Len(ids')
    <3>1. Len(loading) \in Nat /\ Len(ids) \in Nat /\ Len(ids') \in Nat
          /\ Len(loading) <= Len(ids)
      BY <1>5 DEF TypeOK
    <3> QED BY <3>1, <1>5
  <2> QED BY <1>1, <1>5, <2>1, <2>2 DEF TypeOK
<1>8. ObjectsKnown'
  <2>1. odd \subseteq odd' /\ visits' \subseteq visits
    BY <1>1
  <2> QED BY <1>1, <1>6, <2>1 DEF ObjectsKnown
\* The addition only matters where the names have not moved.
<1>9. ASSUME NEW i \in DOMAIN ids', ids'[i] \notin open'
      PROVE  /\ ids' \in {ids, Append(ids, e)} /\ ids'[i] \in Entries
             /\ ids'[i] = e => slots'[i] = flags /\ e \notin misled
             /\ ids'[i] # e => /\ i \in DOMAIN ids /\ ids'[i] = ids[i]
                               /\ slots'[i] = slots[i] /\ ids[i] \notin open
  BY <1>1, <1>5, <1>9 DEF Unmoved
<1>10. e \notin misled => (object[e].mark.installed <=> e \in Current)
  BY <1>2 DEF MarksFollow
<1>11. FlagsFollow'
  <2> SUFFICES ASSUME NEW i \in DOMAIN ids', ids'[i] \notin open'
               PROVE  "removable" \in slots'[i] <=> ids'[i] \in Current
    BY <1>1 DEF FlagsFollow
  <2>1. CASE ids'[i] = e
    BY <2>1, <1>4, <1>9, <1>10
  <2>2. CASE ids'[i] # e
    BY <2>2, <1>9 DEF FlagsFollow
  <2> QED BY <2>1, <2>2
<1>12. Fitting'
  <2> SUFFICES ASSUME NEW i \in DOMAIN ids', ids'[i] \notin open' \cup odd'
               PROVE  PlaceFits(i)'
    BY DEF Fitting, PlaceFits
  <2>1. CASE ids'[i] = e
    <3>1. slots'[i] = flags /\ e \notin misled /\ file[e].again = object[e].mark.again
      BY <2>1, <1>1, <1>9
    <3>2. Fits(flags, e \in Current, object[e], file[e], Held(e))
      BY <3>1, <1>3, <1>4, <1>10 DEF Fits
    <3> QED BY <2>1, <3>1, <3>2, <1>1, <1>2, <1>6 DEF PlaceFits, Fits
  <2>2. CASE ids'[i] # e
    <3>1. /\ i \in DOMAIN ids /\ ids'[i] = ids[i] /\ slots'[i] = slots[i]
          /\ ids[i] \notin open \cup odd /\ ids[i] \in Entries
      BY <2>2, <1>1, <1>9
    <3>2. PlaceFits(i)
      BY <3>1, FittingMeans DEF Fitting
    <3>3. Held(ids[i])' <=> Held(ids[i])
      BY <3>1, <1>6
    <3>4. Fits(slots[i], ids[i] \in Current, object[ids[i]], file[ids[i]], Held(ids[i]))
      BY <3>1, <3>2 DEF PlaceFits
    <3> QED BY <3>1, <3>3, <3>4, <1>1 DEF PlaceFits, Held
  <2> QED BY <2>1, <2>2
<1>13. MarksFollow'
  BY <1>1 DEF MarksFollow
<1>14. (OfferedWhenFree /\ InstallableFollows)'
  BY <1>12, FittingMeans, PTL
<1> QED BY <1>7, <1>8, <1>11, <1>13, <1>14

-----------------------------------------------------------------------------
(* The theorems *)

LEMMA StepInvariant == IInv /\ [Next]_vars => IInv'
<1> SUFFICES ASSUME IInv, [Next]_vars PROVE IInv'
  OBVIOUS
<1>1. CASE UNCHANGED vars
  BY <1>1 DEF vars, historyVars, refreshVars, IInv, TypeOK, ObjectsKnown, FlagsFollow, OfferedWhenFree,
              InstallableFollows, MarksFollow, Current, Held
<1>2. ASSUME NEW e \in Entries, Hold(e) PROVE IInv'
  BY <1>2, HoldStep
<1>3. ASSUME NEW e \in Entries, Release(e) PROVE IInv'
  BY <1>3, ReleaseStep
<1>4. ASSUME NEW e \in Entries, Get(e) PROVE IInv'
  BY <1>4, GetStep
<1>5. ASSUME NEW e \in Entries, Forget(e) PROVE IInv'
  BY <1>5, ForgetStep
<1>6. ASSUME NEW e \in Entries, InstallDone(e) PROVE IInv'
  BY <1>6, InstallDoneStep
<1>7. ASSUME NEW e \in Entries, UpdateDone(e) PROVE IInv'
  BY <1>7, UpdateDoneStep
<1>8. ASSUME NEW e \in Entries, RemoveDone(e) PROVE IInv'
  BY <1>8, RemoveDoneStep
<1>9. ASSUME NEW e \in Entries, RebaseDone(e) PROVE IInv'
  BY <1>9, RebaseDoneStep
<1>10. ASSUME NEW e \in Entries, NEW again \in BOOLEAN, ReplaceEntry(e, again) PROVE IInv'
  BY <1>10, ReplaceEntryStep
<1>11. CASE BeginLoad
  BY <1>11, BeginLoadStep
<1>12. ASSUME NEW found \in BOOLEAN, NEW caught \in BOOLEAN, LoadEntry(found, caught)
       PROVE  IInv'
  BY <1>12, LoadEntryStep
<1>13. ASSUME NEW new \in SUBSET Entries, NEW read \in SUBSET Entries, ApplyDiff(new, read)
       PROVE  IInv'
  BY <1>13, ApplyDiffStep
<1>14. CASE AdoptSet
  BY <1>14, AdoptStep
<1>15. ASSUME NEW e \in Entries, NEW caught \in BOOLEAN, BeginVisit(e, caught) PROVE IInv'
  BY <1>15, BeginVisitStep
<1>16. ASSUME NEW v \in visits, EndVisit(v) PROVE IInv'
  BY <1>16, EndVisitStep
<1> QED BY <1>1, <1>2, <1>3, <1>4, <1>5, <1>6, <1>7, <1>8, <1>9, <1>10, <1>11, <1>12, <1>13,
           <1>14, <1>15, <1>16 DEF Next

\* Every reachable state satisfies the inductive invariant.
THEOREM GroupInvariant == Spec => []IInv
BY InitInvariant, StepInvariant, PTL DEF Spec

\* Whatever order loads, holds, visits and notifications come in, and though
\* the enumeration runs while a refresh is writing, the removable flag of an
\* entry follows the installed set where the history allows it: the handlers,
\* the loop, additions and reconcile of bz-entry-group.c keep each other right.
THEOREM FlagsTheorem == Spec => []FlagsFollow
<1>1. IInv => FlagsFollow
  BY DEF IInv
<1> QED BY <1>1, GroupInvariant, PTL

\* An entry is offered for a transaction exactly while none holds it, where
\* the history allows it (bz-entry-group.c:1404-1466).
THEOREM OfferTheorem == Spec => []OfferedWhenFree
<1>1. IInv => OfferedWhenFree
  BY DEF IInv
<1> QED BY <1>1, GroupInvariant, PTL

\* The files and living objects of the entries agree with the installed set,
\* but for the writes and reads that the cache refused and the entries that
\* the enumeration looked up in the old set while a refresh was writing.
THEOREM MarksTheorem == Spec => []MarksFollow
<1>1. IInv => MarksFollow
  BY DEF IInv
<1> QED BY <1>1, GroupInvariant, PTL
=============================================================================
