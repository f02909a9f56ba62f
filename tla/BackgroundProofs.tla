-------------------------- MODULE BackgroundProofs --------------------------
(***************************************************************************)
(* Theorems about what the program does unasked: the synchronization of    *)
(* the catalog (CatalogSync), for any number of synchronizations, starts   *)
(* and changes of the network, and the process that stays when no window   *)
(* is left (Daemon), for any number of applications.                      *)
(***************************************************************************)
EXTENDS CatalogSync, Daemon, TLAPS

-----------------------------------------------------------------------------
(* Types of CatalogSync.  Zenon deals with Boolean variables and records of *)
(* Booleans, SMT with the rest of TypeOK.                                   *)

FlagsOK ==
    /\ opened \in BOOLEAN /\ loaded \in BOOLEAN /\ fresh \in BOOLEAN
    /\ dropped \in BOOLEAN /\ masked \in BOOLEAN

RecordsOK ==
    /\ state \in [busy : BOOLEAN, syncing : BOOLEAN, manual : BOOLEAN,
                  connected : BOOLEAN, metered : BOOLEAN]
    /\ disk \in [outdated : BOOLEAN, filled : BOOLEAN, groups : BOOLEAN]

LEMMA MakeTyped ==
    ASSUME TypeOK, NEW S \in SUBSET Syncs, MakeSync(S),
           phase' \in Phases, timers' \in 0..flips,
           UNCHANGED <<opened, shown, loaded, disk, fresh, masked, flips, launches>>
    PROVE  TypeOK'
<1>1. FlagsOK'
  BY Zenon DEF FlagsOK, TypeOK, MakeSync
<1>2. RecordsOK'
  BY Zenon DEF RecordsOK, TypeOK, MakeSync
<1> QED
  BY <1>1, <1>2, BoundsAssumption DEF FlagsOK, RecordsOK, TypeOK, MakeSync,
     Syncs

LEMMA DropTyped ==
    ASSUME TypeOK, DropSync,
           phase' \in Phases, timers' \in 0..flips, dropped' \in BOOLEAN,
           UNCHANGED <<state, opened, shown, loaded, disk, fresh, masked, flips,
                       launches>>
    PROVE  TypeOK'
<1>1. FlagsOK'
  BY Zenon DEF FlagsOK, TypeOK
<1>2. RecordsOK'
  BY Zenon DEF RecordsOK, TypeOK
<1> QED
  BY <1>1, <1>2, BoundsAssumption
     DEF FlagsOK, RecordsOK, TypeOK, DropSync, Dropped, NoSync

LEMMA TypeStep == TypeOK /\ [Next]_vars => TypeOK'
<1> SUFFICES ASSUME TypeOK, [Next]_vars PROVE TypeOK'
  OBVIOUS
<1> USE BoundsAssumption
<1>1. CASE ProcessEnds
  <2>1. FlagsOK'
    BY Zenon, <1>1 DEF FlagsOK, TypeOK, ProcessEnds, Dark
  <2>2. RecordsOK'
    BY Zenon, <1>1 DEF RecordsOK, TypeOK, ProcessEnds, Dark
  <2> QED
    BY <1>1, <2>1, <2>2 DEF FlagsOK, RecordsOK, TypeOK, Phases, Blank, Syncs,
       NoSync, ProcessEnds, Dark
<1>2. CASE Age
  <2>1. FlagsOK'
    BY Zenon, <1>2 DEF FlagsOK, TypeOK, Age, memory
  <2>2. RecordsOK'
    BY Zenon, <1>2 DEF RecordsOK, TypeOK, Age, memory
  <2> QED
    BY <1>2, <2>1, <2>2 DEF FlagsOK, RecordsOK, TypeOK, Phases, Blank, Syncs,
       NoSync, Age, memory
<1>3. CASE Wipe
  <2>1. FlagsOK'
    BY Zenon, <1>3 DEF FlagsOK, TypeOK, Wipe, InitStep
  <2>2. RecordsOK'
    BY Zenon, <1>3 DEF RecordsOK, TypeOK, Wipe, InitStep
  <2> QED
    BY <1>3, <2>1, <2>2 DEF FlagsOK, RecordsOK, TypeOK, Phases, Blank, Syncs,
       NoSync, Wipe, InitStep
<1>4. CASE InitFails
  <2>1. FlagsOK'
    BY Zenon, <1>4 DEF FlagsOK, TypeOK, InitFails
  <2>2. RecordsOK'
    BY Zenon, <1>4 DEF RecordsOK, TypeOK, InitFails
  <2> QED
    BY <1>4, <2>1, <2>2 DEF FlagsOK, RecordsOK, TypeOK, Phases, Blank, Syncs,
       NoSync, InitFails
<1>5. CASE InitSync
  BY <1>5, MakeTyped DEF InitSync, TypeOK, Phases
<1>6. CASE InitSkip
  <2>1. FlagsOK'
    BY Zenon, <1>6 DEF FlagsOK, TypeOK, InitSkip
  <2>2. RecordsOK'
    BY Zenon, <1>6 DEF RecordsOK, TypeOK, InitSkip
  <2> QED
    BY <1>6, <2>1, <2>2 DEF FlagsOK, RecordsOK, TypeOK, Phases, Blank, Syncs,
       NoSync, InitSkip
<1>7. CASE Manual
  BY <1>7, MakeTyped DEF Manual, Dropped, TypeOK
<1>8. CASE Periodic
  <2>1. CASE MakeSync(Dropped(live))
    BY <1>8, <2>1, MakeTyped DEF Periodic, Dropped, TypeOK
  <2>2. CASE DropSync /\ UNCHANGED <<state, dropped>>
    BY <1>8, <2>2, DropTyped DEF Periodic, TypeOK
  <2> QED BY <1>8, <2>1, <2>2 DEF Periodic
<1>9. CASE Scheduled
  <2>1. timers' \in 0..flips
    BY <1>9 DEF Scheduled, TypeOK
  <2>2. CASE MakeSync(Dropped(live))
    BY <1>9, <2>1, <2>2, MakeTyped DEF Scheduled, Dropped, TypeOK
  <2>3. CASE DropSync /\ dropped' = (dropped \/ Pending) /\ UNCHANGED state
    BY <1>9, <2>1, <2>3, DropTyped DEF Scheduled, TypeOK
  <2> QED BY <1>9, <2>2, <2>3 DEF Scheduled
<1>10. ASSUME NEW w \in BOOLEAN, CheckVersion(w)
      PROVE  TypeOK'
  <2>1. FlagsOK'
    BY Zenon, <1>10 DEF FlagsOK, TypeOK, CheckVersion, InitStep
  <2>2. RecordsOK'
    BY Zenon, <1>10 DEF RecordsOK, TypeOK, CheckVersion, InitStep
  <2> QED
    BY <1>10, <2>1, <2>2 DEF FlagsOK, RecordsOK, TypeOK, Phases, Blank, Syncs,
       NoSync, CheckVersion, InitStep
<1>11. ASSUME NEW w \in BOOLEAN, WriteVersion(w)
      PROVE  TypeOK'
  <2>1. FlagsOK'
    BY Zenon, <1>11 DEF FlagsOK, TypeOK, WriteVersion, InitStep
  <2>2. RecordsOK'
    BY Zenon, <1>11 DEF RecordsOK, TypeOK, WriteVersion, InitStep
  <2> QED
    BY <1>11, <2>1, <2>2 DEF FlagsOK, RecordsOK, TypeOK, Phases, Blank, Syncs,
       NoSync, WriteVersion, InitStep
<1>12. ASSUME NEW g \in BOOLEAN, NEW f \in BOOLEAN, LoadGroups(g, f)
      PROVE  TypeOK'
  <2>1. FlagsOK'
    BY Zenon, <1>12 DEF FlagsOK, TypeOK, LoadGroups, InitStep
  <2>2. RecordsOK'
    BY Zenon, <1>12 DEF RecordsOK, TypeOK, LoadGroups, InitStep
  <2> QED
    BY <1>12, <2>1, <2>2 DEF FlagsOK, RecordsOK, TypeOK, Phases, Blank, Syncs,
       NoSync, LoadGroups, InitStep
<1>13. ASSUME NEW n \in BOOLEAN, NEW c \in BOOLEAN, NEW m \in BOOLEAN,
              StartUp(n, c, m)
      PROVE  TypeOK'
  <2>1. FlagsOK'
    BY Zenon, <1>13 DEF FlagsOK, TypeOK, StartUp, Dark
  <2>2. RecordsOK'
    BY Zenon, <1>13 DEF RecordsOK, TypeOK, StartUp, Dark
  <2> QED
    BY <1>13, <2>1, <2>2 DEF FlagsOK, RecordsOK, TypeOK, Phases, Blank, Syncs,
       NoSync, StartUp, Dark
<1>14. ASSUME NEW c \in BOOLEAN, NEW m \in BOOLEAN, NetworkChanges(c, m)
      PROVE  TypeOK'
  <2>1. FlagsOK'
    BY Zenon, <1>14 DEF FlagsOK, TypeOK, NetworkChanges
  <2>2. RecordsOK'
    BY Zenon, <1>14 DEF RecordsOK, TypeOK, NetworkChanges
  <2> QED
    BY <1>14, <2>1, <2>2 DEF FlagsOK, RecordsOK, TypeOK, Phases, Blank, Syncs,
       NoSync, NetworkChanges
<1>15. ASSUME NEW k \in Syncs, NEW r \in {"good", "bad"}, WorkerExits(k, r)
      PROVE  TypeOK'
  <2>1. FlagsOK'
    BY Zenon, <1>15 DEF FlagsOK, TypeOK, WorkerExits, memory
  <2>2. RecordsOK'
    BY Zenon, <1>15 DEF RecordsOK, TypeOK, WorkerExits, memory
  <2> QED
    BY <1>15, <2>1, <2>2 DEF FlagsOK, RecordsOK, TypeOK, Phases, Blank, Syncs,
       NoSync, WorkerExits, memory
<1>16. ASSUME NEW k \in Syncs, FlathubUpdated(k)
      PROVE  TypeOK'
  <2>1. FlagsOK'
    BY Zenon, <1>16 DEF FlagsOK, TypeOK, FlathubUpdated
  <2>2. RecordsOK'
    BY Zenon, <1>16 DEF RecordsOK, TypeOK, FlathubUpdated
  <2> QED
    BY <1>16, <2>1, <2>2 DEF FlagsOK, RecordsOK, TypeOK, Phases, Blank, Syncs,
       NoSync, FlathubUpdated
<1>17. ASSUME NEW k \in Syncs, FlathubFails(k)
      PROVE  TypeOK'
  <2>1. FlagsOK'
    BY Zenon, <1>17 DEF FlagsOK, TypeOK, FlathubFails
  <2>2. RecordsOK'
    BY Zenon, <1>17 DEF RecordsOK, TypeOK, FlathubFails
  <2> QED
    BY <1>17, <2>1, <2>2 DEF FlagsOK, RecordsOK, TypeOK, Phases, Blank, Syncs,
       NoSync, FlathubFails
<1>18. ASSUME NEW k \in Syncs, CacheFlathub(k)
      PROVE  TypeOK'
  <2>1. FlagsOK'
    BY Zenon, <1>18 DEF FlagsOK, TypeOK, CacheFlathub
  <2>2. RecordsOK'
    BY Zenon, <1>18 DEF RecordsOK, TypeOK, CacheFlathub
  <2> QED
    BY <1>18, <2>1, <2>2 DEF FlagsOK, RecordsOK, TypeOK, Phases, Blank, Syncs,
       NoSync, CacheFlathub
<1>19. ASSUME NEW k \in Syncs, BackendSync(k)
      PROVE  TypeOK'
  <2>1. FlagsOK'
    BY Zenon, <1>19 DEF FlagsOK, TypeOK, BackendSync, BackStep
  <2>2. RecordsOK'
    BY Zenon, <1>19 DEF RecordsOK, TypeOK, BackendSync, BackStep
  <2> QED
    BY <1>19, <2>1, <2>2 DEF FlagsOK, RecordsOK, TypeOK, Phases, Blank, Syncs,
       NoSync, BackendSync, BackStep
<1>20. ASSUME NEW k \in Syncs, NEW w \in BOOLEAN, EnumerateEntries(k, w)
      PROVE  TypeOK'
  <2>1. FlagsOK'
    BY Zenon, <1>20 DEF FlagsOK, TypeOK, EnumerateEntries, BackStep
  <2>2. RecordsOK'
    BY Zenon, <1>20 DEF RecordsOK, TypeOK, EnumerateEntries, BackStep
  <2> QED
    BY <1>20, <2>1, <2>2 DEF FlagsOK, RecordsOK, TypeOK, Phases, Blank, Syncs,
       NoSync, EnumerateEntries, BackStep
<1>21. ASSUME NEW k \in Syncs, NEW w \in BOOLEAN, SaveGroups(k, w)
      PROVE  TypeOK'
  <2>1. FlagsOK'
    BY Zenon, <1>21 DEF FlagsOK, TypeOK, SaveGroups, BackStep
  <2>2. RecordsOK'
    BY Zenon, <1>21 DEF RecordsOK, TypeOK, SaveGroups, BackStep
  <2> QED
    BY <1>21, <2>1, <2>2 DEF FlagsOK, RecordsOK, TypeOK, Phases, Blank, Syncs,
       NoSync, SaveGroups, BackStep
<1>22. ASSUME NEW k \in Syncs, SyncFinally(k)
      PROVE  TypeOK'
  <2>1. FlagsOK'
    BY Zenon, <1>22 DEF FlagsOK, TypeOK, SyncFinally, SyncEnd, Succeeded,
       Settled
  <2>2. RecordsOK'
    BY Zenon, <1>22 DEF RecordsOK, TypeOK, SyncFinally, SyncEnd, Succeeded,
       Settled
  <2> QED
    BY <1>22, <2>1, <2>2 DEF FlagsOK, RecordsOK, TypeOK, Phases, Blank, Syncs,
       NoSync, SyncFinally, SyncEnd, Succeeded, Settled
<1>23. CASE UNCHANGED vars
  <2>1. FlagsOK'
    BY Zenon, <1>23 DEF FlagsOK, TypeOK, vars, memory
  <2>2. RecordsOK'
    BY Zenon, <1>23 DEF RecordsOK, TypeOK, vars, memory
  <2> QED
    BY <1>23, <2>1, <2>2 DEF FlagsOK, RecordsOK, TypeOK, Phases, Blank, Syncs,
       NoSync, vars, memory
<1> QED
  BY <1>1, <1>2, <1>3, <1>4, <1>5, <1>6, <1>7, <1>8, <1>9, <1>10, <1>11,
     <1>12, <1>13, <1>14, <1>15, <1>16, <1>17, <1>18, <1>19, <1>20, <1>21,
     <1>22, <1>23 DEF Next, Initialize, External, Callback

-----------------------------------------------------------------------------
(* The invariant of CatalogSync *)

LEMMA InitInvariant == Init => IInv
<1> SUFFICES ASSUME Init PROVE IInv
  OBVIOUS
<1> USE BoundsAssumption DEF Init
<1>1. TypeOK
  <2>1. FlagsOK
    BY Zenon DEF FlagsOK
  <2>2. RecordsOK
    BY Zenon DEF RecordsOK, Dark
  <2> QED
    BY <2>1, <2>2 DEF FlagsOK, RecordsOK, TypeOK, Phases, Blank, Syncs, NoSync
<1>2. Single
  BY DEF Single, Blank, NoSync
<1>3. BusyUntilReady
  BY DEF BusyUntilReady, Dark
<1>4. DroppedGone /\ ReadBack
  BY DEF DroppedGone, ReadBack
<1>5. OwnCatalog /\ SyncingShown /\ RefreshKept
  BY DEF OwnCatalog, SyncingShown, RefreshKept
<1> QED BY <1>1, <1>2, <1>3, <1>4, <1>5 DEF IInv

\* A synchronization begins, when no other is referred to.
LEMMA MakeStep ==
    ASSUME IInv, TypeOK', NEW S, S = {}, MakeSync(S),
           phase' \in {"ready", "failed"}, phase' = "failed" => phase = "failed",
           UNCHANGED <<opened, shown, loaded, disk, fresh, masked, flips, launches>>
    PROVE  IInv'
<1> USE BoundsAssumption DEF IInv, MakeSync
<1>1. /\ used' \in Syncs /\ used' # NoSync /\ used' = used + 1
      /\ live' = {used'} /\ sync' = used'
  BY DEF TypeOK, Syncs, NoSync
<1>2. Single'
  BY <1>1 DEF Single, TypeOK, Syncs, NoSync
<1>3. BusyUntilReady' /\ DroppedGone'
  BY DEF BusyUntilReady, DroppedGone
<1>4. ReadBack'
  BY <1>1 DEF ReadBack, TypeOK
<1>5. OwnCatalog'
  BY <1>1 DEF OwnCatalog, TypeOK, Single, Syncs, NoSync
<1>6. SyncingShown' /\ RefreshKept'
  BY <1>1 DEF SyncingShown, RefreshKept, TypeOK
<1> QED BY <1>2, <1>3, <1>4, <1>5, <1>6

\* A synchronization is dropped, and no other is begun.
LEMMA DropStep ==
    ASSUME IInv, TypeOK', DropSync, dropped' <=> dropped \/ Pending,
           phase \in {"ready", "failed"},
           UNCHANGED <<phase, state, opened, shown, loaded, disk, fresh, masked,
                       flips, launches>>
    PROVE  IInv'
<1> USE BoundsAssumption DEF IInv, DropSync, Dropped, Pending
<1>1. live' = {}
  BY DEF Single
<1>2. Single'
  BY <1>1 DEF Single, TypeOK, Syncs, NoSync
<1>3. BusyUntilReady' /\ DroppedGone' /\ ReadBack'
  BY <1>1 DEF BusyUntilReady, DroppedGone, ReadBack
<1>4. OwnCatalog'
  BY <1>1 DEF OwnCatalog, TypeOK, Single, Syncs, NoSync
<1>5. SyncingShown' /\ RefreshKept'
  BY <1>1 DEF SyncingShown, RefreshKept, TypeOK, Single
<1> QED BY <1>2, <1>3, <1>4, <1>5

LEMMA StepInvariant == IInv /\ [Next]_vars => IInv'
<1> SUFFICES ASSUME IInv, [Next]_vars PROVE IInv'
  OBVIOUS
<1> USE BoundsAssumption DEF IInv
<1> TypeOK'
  BY TypeStep
<1>1. CASE ProcessEnds
  <2>1. Single' /\ BusyUntilReady' /\ DroppedGone'
    BY <1>1 DEF TypeOK, Syncs, NoSync, ProcessEnds, Dark, Blank, Single,
       BusyUntilReady, DroppedGone
  <2>2. ReadBack'
    BY <1>1 DEF TypeOK, Syncs, NoSync, ProcessEnds, Dark, Blank, ReadBack,
       Single, BusyUntilReady
  <2>3. OwnCatalog'
    BY <1>1 DEF TypeOK, Syncs, NoSync, ProcessEnds, Dark, Blank, OwnCatalog,
       Single, BusyUntilReady
  <2>4. SyncingShown' /\ RefreshKept'
    BY <1>1 DEF TypeOK, Syncs, NoSync, ProcessEnds, Dark, Blank, SyncingShown,
       RefreshKept, Single, BusyUntilReady, DroppedGone, ReadBack
  <2> QED BY <2>1, <2>2, <2>3, <2>4
<1>2. CASE Age
  <2>1. Single' /\ BusyUntilReady' /\ DroppedGone'
    BY <1>2 DEF TypeOK, Syncs, NoSync, Age, memory, Single, BusyUntilReady,
       DroppedGone
  <2>2. ReadBack'
    BY <1>2 DEF TypeOK, Syncs, NoSync, Age, memory, ReadBack, Single,
       BusyUntilReady
  <2>3. OwnCatalog'
    BY <1>2 DEF TypeOK, Syncs, NoSync, Age, memory, OwnCatalog, Single,
       BusyUntilReady
  <2>4. SyncingShown' /\ RefreshKept'
    BY <1>2 DEF TypeOK, Syncs, NoSync, Age, memory, SyncingShown, RefreshKept,
       Single, BusyUntilReady, DroppedGone, ReadBack
  <2> QED BY <2>1, <2>2, <2>3, <2>4
<1>3. CASE Wipe
  <2>1. Single' /\ BusyUntilReady' /\ DroppedGone'
    BY <1>3 DEF TypeOK, Syncs, NoSync, Wipe, InitStep, Single, BusyUntilReady,
       DroppedGone
  <2>2. ReadBack'
    BY <1>3 DEF TypeOK, Syncs, NoSync, Wipe, InitStep, ReadBack, Single,
       BusyUntilReady
  <2>3. OwnCatalog'
    BY <1>3 DEF TypeOK, Syncs, NoSync, Wipe, InitStep, OwnCatalog, Single,
       BusyUntilReady
  <2>4. SyncingShown' /\ RefreshKept'
    BY <1>3 DEF TypeOK, Syncs, NoSync, Wipe, InitStep, SyncingShown,
       RefreshKept, Single, BusyUntilReady, DroppedGone, ReadBack
  <2> QED BY <2>1, <2>2, <2>3, <2>4
<1>4. CASE InitFails
  <2>1. Single' /\ BusyUntilReady' /\ DroppedGone'
    BY <1>4 DEF TypeOK, Syncs, NoSync, InitFails, Single, BusyUntilReady,
       DroppedGone
  <2>2. ReadBack'
    BY <1>4 DEF TypeOK, Syncs, NoSync, InitFails, ReadBack, Single,
       BusyUntilReady
  <2>3. OwnCatalog'
    BY <1>4 DEF TypeOK, Syncs, NoSync, InitFails, OwnCatalog, Single,
       BusyUntilReady
  <2>4. SyncingShown' /\ RefreshKept'
    BY <1>4 DEF TypeOK, Syncs, NoSync, InitFails, SyncingShown, RefreshKept,
       Single, BusyUntilReady, DroppedGone, ReadBack
  <2> QED BY <2>1, <2>2, <2>3, <2>4
<1>5. CASE InitSync
  BY <1>5, MakeStep DEF InitSync, BusyUntilReady
<1>6. CASE InitSkip
  <2>1. Single' /\ BusyUntilReady' /\ DroppedGone'
    BY <1>6 DEF TypeOK, Syncs, NoSync, InitSkip, Single, BusyUntilReady,
       DroppedGone
  <2>2. ReadBack'
    BY <1>6 DEF TypeOK, Syncs, NoSync, InitSkip, ReadBack, Single,
       BusyUntilReady
  <2>3. OwnCatalog'
    BY <1>6 DEF TypeOK, Syncs, NoSync, InitSkip, OwnCatalog, Single,
       BusyUntilReady
  <2>4. SyncingShown' /\ RefreshKept'
    BY <1>6 DEF TypeOK, Syncs, NoSync, InitSkip, SyncingShown, RefreshKept,
       Single, BusyUntilReady, DroppedGone, ReadBack
  <2> QED BY <2>1, <2>2, <2>3, <2>4
<1>7. CASE Manual
  BY <1>7, MakeStep DEF Manual, Dropped, Single, BusyUntilReady
<1>8. CASE Periodic
  <2>1. Dropped(live) = {}
    BY DEF Dropped, Single
  <2>2. CASE MakeSync(Dropped(live))
    BY <1>8, <2>1, <2>2, MakeStep DEF Periodic
  <2>3. CASE DropSync /\ UNCHANGED <<state, dropped>>
    BY <1>8, <2>3, DropStep DEF Periodic, Pending, BusyUntilReady
  <2> QED BY <1>8, <2>2, <2>3 DEF Periodic
<1>9. CASE Scheduled
  <2>1. Dropped(live) = {} /\ phase \in {"ready", "failed"}
    BY <1>9 DEF Dropped, Single, Scheduled, BusyUntilReady
  <2>2. CASE MakeSync(Dropped(live))
    BY <1>9, <2>1, <2>2, MakeStep DEF Scheduled
  <2>3. CASE DropSync /\ dropped' = (dropped \/ Pending) /\ UNCHANGED state
    BY <1>9, <2>1, <2>3, DropStep DEF Scheduled
  <2> QED BY <1>9, <2>2, <2>3 DEF Scheduled
<1>10. ASSUME NEW w \in BOOLEAN, CheckVersion(w)
      PROVE  IInv'
  <2>1. Single' /\ BusyUntilReady' /\ DroppedGone'
    BY <1>10 DEF TypeOK, Syncs, NoSync, CheckVersion, InitStep, Single,
       BusyUntilReady, DroppedGone
  <2>2. ReadBack'
    BY <1>10 DEF TypeOK, Syncs, NoSync, CheckVersion, InitStep, ReadBack,
       Single, BusyUntilReady
  <2>3. OwnCatalog'
    BY <1>10 DEF TypeOK, Syncs, NoSync, CheckVersion, InitStep, OwnCatalog,
       Single, BusyUntilReady
  <2>4. SyncingShown' /\ RefreshKept'
    BY <1>10 DEF TypeOK, Syncs, NoSync, CheckVersion, InitStep, SyncingShown,
       RefreshKept, Single, BusyUntilReady, DroppedGone, ReadBack
  <2> QED BY <2>1, <2>2, <2>3, <2>4
<1>11. ASSUME NEW w \in BOOLEAN, WriteVersion(w)
      PROVE  IInv'
  <2>1. Single' /\ BusyUntilReady' /\ DroppedGone'
    BY <1>11 DEF TypeOK, Syncs, NoSync, WriteVersion, InitStep, Single,
       BusyUntilReady, DroppedGone
  <2>2. ReadBack'
    BY <1>11 DEF TypeOK, Syncs, NoSync, WriteVersion, InitStep, ReadBack,
       Single, BusyUntilReady
  <2>3. OwnCatalog'
    BY <1>11 DEF TypeOK, Syncs, NoSync, WriteVersion, InitStep, OwnCatalog,
       Single, BusyUntilReady
  <2>4. SyncingShown' /\ RefreshKept'
    BY <1>11 DEF TypeOK, Syncs, NoSync, WriteVersion, InitStep, SyncingShown,
       RefreshKept, Single, BusyUntilReady, DroppedGone, ReadBack
  <2> QED BY <2>1, <2>2, <2>3, <2>4
<1>12. ASSUME NEW g \in BOOLEAN, NEW f \in BOOLEAN, LoadGroups(g, f)
      PROVE  IInv'
  <2>1. Single' /\ BusyUntilReady' /\ DroppedGone'
    BY <1>12 DEF TypeOK, Syncs, NoSync, LoadGroups, InitStep, Single,
       BusyUntilReady, DroppedGone
  <2>2. ReadBack'
    BY <1>12 DEF TypeOK, Syncs, NoSync, LoadGroups, InitStep, ReadBack,
       Single, BusyUntilReady
  <2>3. OwnCatalog'
    BY <1>12 DEF TypeOK, Syncs, NoSync, LoadGroups, InitStep, OwnCatalog,
       Single, BusyUntilReady
  <2>4. SyncingShown' /\ RefreshKept'
    BY <1>12 DEF TypeOK, Syncs, NoSync, LoadGroups, InitStep, SyncingShown,
       RefreshKept, Single, BusyUntilReady, DroppedGone, ReadBack
  <2> QED BY <2>1, <2>2, <2>3, <2>4
<1>13. ASSUME NEW n \in BOOLEAN, NEW c \in BOOLEAN, NEW m \in BOOLEAN,
              StartUp(n, c, m)
      PROVE  IInv'
  <2>1. Single' /\ BusyUntilReady' /\ DroppedGone'
    BY <1>13 DEF TypeOK, Syncs, NoSync, StartUp, Dark, Single, BusyUntilReady,
       DroppedGone
  <2>2. ReadBack'
    BY <1>13 DEF TypeOK, Syncs, NoSync, StartUp, Dark, ReadBack, Single,
       BusyUntilReady
  <2>3. OwnCatalog'
    BY <1>13 DEF TypeOK, Syncs, NoSync, StartUp, Dark, OwnCatalog, Single,
       BusyUntilReady
  <2>4. SyncingShown' /\ RefreshKept'
    BY <1>13 DEF TypeOK, Syncs, NoSync, StartUp, Dark, SyncingShown,
       RefreshKept, Single, BusyUntilReady, DroppedGone, ReadBack
  <2> QED BY <2>1, <2>2, <2>3, <2>4
<1>14. ASSUME NEW c \in BOOLEAN, NEW m \in BOOLEAN, NetworkChanges(c, m)
      PROVE  IInv'
  <2>1. Single' /\ BusyUntilReady' /\ DroppedGone'
    BY <1>14 DEF TypeOK, Syncs, NoSync, NetworkChanges, Single,
       BusyUntilReady, DroppedGone
  <2>2. ReadBack'
    BY <1>14 DEF TypeOK, Syncs, NoSync, NetworkChanges, ReadBack, Single,
       BusyUntilReady
  <2>3. OwnCatalog'
    BY <1>14 DEF TypeOK, Syncs, NoSync, NetworkChanges, OwnCatalog, Single,
       BusyUntilReady
  <2>4. SyncingShown' /\ RefreshKept'
    BY <1>14 DEF TypeOK, Syncs, NoSync, NetworkChanges, SyncingShown,
       RefreshKept, Single, BusyUntilReady, DroppedGone, ReadBack
  <2> QED BY <2>1, <2>2, <2>3, <2>4
<1>15. ASSUME NEW k \in Syncs, NEW r \in {"good", "bad"}, WorkerExits(k, r)
      PROVE  IInv'
  <2>1. Single' /\ BusyUntilReady' /\ DroppedGone'
    BY <1>15 DEF TypeOK, Syncs, NoSync, WorkerExits, memory, Single,
       BusyUntilReady, DroppedGone
  <2>2. ReadBack'
    BY <1>15 DEF TypeOK, Syncs, NoSync, WorkerExits, memory, ReadBack, Single,
       BusyUntilReady
  <2>3. OwnCatalog'
    BY <1>15 DEF TypeOK, Syncs, NoSync, WorkerExits, memory, OwnCatalog,
       Single, BusyUntilReady
  <2>4. SyncingShown' /\ RefreshKept'
    BY <1>15 DEF TypeOK, Syncs, NoSync, WorkerExits, memory, SyncingShown,
       RefreshKept, Single, BusyUntilReady, DroppedGone, ReadBack
  <2> QED BY <2>1, <2>2, <2>3, <2>4
<1>16. ASSUME NEW k \in Syncs, FlathubUpdated(k)
      PROVE  IInv'
  <2>1. Single' /\ BusyUntilReady' /\ DroppedGone'
    BY <1>16 DEF TypeOK, Syncs, NoSync, FlathubUpdated, Single,
       BusyUntilReady, DroppedGone
  <2>2. ReadBack'
    BY <1>16 DEF TypeOK, Syncs, NoSync, FlathubUpdated, ReadBack, Single,
       BusyUntilReady
  <2>3. OwnCatalog'
    BY <1>16 DEF TypeOK, Syncs, NoSync, FlathubUpdated, OwnCatalog, Single,
       BusyUntilReady
  <2>4. SyncingShown' /\ RefreshKept'
    BY <1>16 DEF TypeOK, Syncs, NoSync, FlathubUpdated, SyncingShown,
       RefreshKept, Single, BusyUntilReady, DroppedGone, ReadBack
  <2> QED BY <2>1, <2>2, <2>3, <2>4
<1>17. ASSUME NEW k \in Syncs, FlathubFails(k)
      PROVE  IInv'
  <2>1. Single' /\ BusyUntilReady' /\ DroppedGone'
    BY <1>17 DEF TypeOK, Syncs, NoSync, FlathubFails, Single, BusyUntilReady,
       DroppedGone
  <2>2. ReadBack'
    BY <1>17 DEF TypeOK, Syncs, NoSync, FlathubFails, ReadBack, Single,
       BusyUntilReady
  <2>3. OwnCatalog'
    BY <1>17 DEF TypeOK, Syncs, NoSync, FlathubFails, OwnCatalog, Single,
       BusyUntilReady
  <2>4. SyncingShown' /\ RefreshKept'
    BY <1>17 DEF TypeOK, Syncs, NoSync, FlathubFails, SyncingShown,
       RefreshKept, Single, BusyUntilReady, DroppedGone, ReadBack
  <2> QED BY <2>1, <2>2, <2>3, <2>4
<1>18. ASSUME NEW k \in Syncs, CacheFlathub(k)
      PROVE  IInv'
  <2>1. Single' /\ BusyUntilReady' /\ DroppedGone'
    BY <1>18 DEF TypeOK, Syncs, NoSync, CacheFlathub, Single, BusyUntilReady,
       DroppedGone
  <2>2. ReadBack'
    BY <1>18 DEF TypeOK, Syncs, NoSync, CacheFlathub, ReadBack, Single,
       BusyUntilReady
  <2>3. OwnCatalog'
    BY <1>18 DEF TypeOK, Syncs, NoSync, CacheFlathub, OwnCatalog, Single,
       BusyUntilReady
  <2>4. SyncingShown' /\ RefreshKept'
    BY <1>18 DEF TypeOK, Syncs, NoSync, CacheFlathub, SyncingShown,
       RefreshKept, Single, BusyUntilReady, DroppedGone, ReadBack
  <2> QED BY <2>1, <2>2, <2>3, <2>4
<1>19. ASSUME NEW k \in Syncs, BackendSync(k)
      PROVE  IInv'
  <2>1. Single' /\ BusyUntilReady' /\ DroppedGone'
    BY <1>19 DEF TypeOK, Syncs, NoSync, BackendSync, BackStep, Single,
       BusyUntilReady, DroppedGone
  <2>2. ReadBack'
    BY <1>19 DEF TypeOK, Syncs, NoSync, BackendSync, BackStep, ReadBack,
       Single, BusyUntilReady
  <2>3. OwnCatalog'
    BY <1>19 DEF TypeOK, Syncs, NoSync, BackendSync, BackStep, OwnCatalog,
       Single, BusyUntilReady
  <2>4. SyncingShown' /\ RefreshKept'
    BY <1>19 DEF TypeOK, Syncs, NoSync, BackendSync, BackStep, SyncingShown,
       RefreshKept, Single, BusyUntilReady, DroppedGone, ReadBack
  <2> QED BY <2>1, <2>2, <2>3, <2>4
<1>20. ASSUME NEW k \in Syncs, NEW w \in BOOLEAN, EnumerateEntries(k, w)
      PROVE  IInv'
  <2>1. Single' /\ BusyUntilReady' /\ DroppedGone'
    BY <1>20 DEF TypeOK, Syncs, NoSync, EnumerateEntries, BackStep, Single,
       BusyUntilReady, DroppedGone
  <2>2. ReadBack'
    BY <1>20 DEF TypeOK, Syncs, NoSync, EnumerateEntries, BackStep, ReadBack,
       Single, BusyUntilReady
  <2>3. OwnCatalog'
    BY <1>20 DEF TypeOK, Syncs, NoSync, EnumerateEntries, BackStep,
       OwnCatalog, Single, BusyUntilReady
  <2>4. SyncingShown' /\ RefreshKept'
    BY <1>20 DEF TypeOK, Syncs, NoSync, EnumerateEntries, BackStep,
       SyncingShown, RefreshKept, Single, BusyUntilReady, DroppedGone,
       ReadBack
  <2> QED BY <2>1, <2>2, <2>3, <2>4
<1>21. ASSUME NEW k \in Syncs, NEW w \in BOOLEAN, SaveGroups(k, w)
      PROVE  IInv'
  <2>1. Single' /\ BusyUntilReady' /\ DroppedGone'
    BY <1>21 DEF TypeOK, Syncs, NoSync, SaveGroups, BackStep, Single,
       BusyUntilReady, DroppedGone
  <2>2. ReadBack'
    BY <1>21 DEF TypeOK, Syncs, NoSync, SaveGroups, BackStep, ReadBack,
       Single, BusyUntilReady
  <2>3. OwnCatalog'
    BY <1>21 DEF TypeOK, Syncs, NoSync, SaveGroups, BackStep, OwnCatalog,
       Single, BusyUntilReady
  <2>4. SyncingShown' /\ RefreshKept'
    BY <1>21 DEF TypeOK, Syncs, NoSync, SaveGroups, BackStep, SyncingShown,
       RefreshKept, Single, BusyUntilReady, DroppedGone, ReadBack
  <2> QED BY <2>1, <2>2, <2>3, <2>4
<1>22. ASSUME NEW k \in Syncs, SyncFinally(k)
      PROVE  IInv'
  <2>1. Single' /\ BusyUntilReady' /\ DroppedGone'
    BY <1>22 DEF TypeOK, Syncs, NoSync, SyncFinally, SyncEnd, Succeeded,
       Settled, Single, BusyUntilReady, DroppedGone
  <2>2. ReadBack'
    BY <1>22 DEF TypeOK, Syncs, NoSync, SyncFinally, SyncEnd, Succeeded,
       Settled, ReadBack, Single, BusyUntilReady
  <2>3. OwnCatalog'
    BY <1>22 DEF TypeOK, Syncs, NoSync, SyncFinally, SyncEnd, Succeeded,
       Settled, OwnCatalog, Single, BusyUntilReady
  <2>4. SyncingShown' /\ RefreshKept'
    BY <1>22 DEF TypeOK, Syncs, NoSync, SyncFinally, SyncEnd, Succeeded,
       Settled, SyncingShown, RefreshKept, Single, BusyUntilReady,
       DroppedGone, ReadBack
  <2> QED BY <2>1, <2>2, <2>3, <2>4
<1>23. CASE UNCHANGED vars
  <2>1. Single' /\ BusyUntilReady' /\ DroppedGone'
    BY <1>23 DEF TypeOK, Syncs, NoSync, vars, memory, Single, BusyUntilReady,
       DroppedGone
  <2>2. ReadBack'
    BY <1>23 DEF TypeOK, Syncs, NoSync, vars, memory, ReadBack, Single,
       BusyUntilReady
  <2>3. OwnCatalog'
    BY <1>23 DEF TypeOK, Syncs, NoSync, vars, memory, OwnCatalog, Single,
       BusyUntilReady
  <2>4. SyncingShown' /\ RefreshKept'
    BY <1>23 DEF TypeOK, Syncs, NoSync, vars, memory, SyncingShown,
       RefreshKept, Single, BusyUntilReady, DroppedGone, ReadBack
  <2> QED BY <2>1, <2>2, <2>3, <2>4
<1> QED
  BY <1>1, <1>2, <1>3, <1>4, <1>5, <1>6, <1>7, <1>8, <1>9, <1>10, <1>11,
     <1>12, <1>13, <1>14, <1>15, <1>16, <1>17, <1>18, <1>19, <1>20, <1>21,
     <1>22, <1>23 DEF Next, Initialize, External, Callback

\* The inductive invariant of the synchronization: at most one is referred to,
\* none while the application is initialized, and what was read back is stored,
\* make_sync_future and its callers.
THEOREM CatalogInvariant == Spec => []IInv
BY InitInvariant, StepInvariant, PTL DEF Spec

\* What a synchronization shows of Flathub is what it fetched itself,
\* flathub_update_finally, whoever of the four callers began it and when.
THEOREM CatalogOwned == Spec => []OwnCatalog
BY CatalogInvariant, PTL DEF IInv

\* The application shows that it is synchronizing exactly when it is, but for a
\* synchronization that scheduled_timeout_cb dropped, sync_finally.
THEOREM SyncingTold == Spec => []SyncingShown
BY CatalogInvariant, PTL DEF IInv

\* A refresh that last-refresh-time vouches for is on the disk, through
\* crashes, restarts and upgrades, init_fiber and sync_finally.
THEOREM RefreshStored == Spec => []RefreshKept
BY CatalogInvariant, PTL DEF IInv

-----------------------------------------------------------------------------
(* Daemon *)

LEMMA DaemonInitInvariant == DaemonInit => DaemonIInv
<1> SUFFICES ASSUME DaemonInit PROVE DaemonIInv
  OBVIOUS
<1>1. DaemonTypeOK
  <2>1. workers \in 0..MaxWorkers /\ searches \in 0..MaxSearches
    BY DaemonBounds DEF DaemonInit
  <2>2. app \in [Apps -> {"none", "running", "zombie", "reaped"}]
    BY DEF DaemonInit
  <2>3. /\ daemon \in {"starting", "running", "idle", "quit"}
        /\ childPid \in Apps \cup {NoApp}
    BY DEF DaemonInit
  <2>4. /\ idleTimer \in BOOLEAN /\ auto \in BOOLEAN
        /\ overlap \in BOOLEAN /\ stayed \in BOOLEAN
    BY Zenon DEF DaemonInit
  <2> QED BY <2>1, <2>2, <2>3, <2>4 DEF DaemonTypeOK
<1>2. Unreaped = {}
  BY DEF DaemonInit, Unreaped
<1>3. childPid = NoApp /\ ~ idleTimer /\ daemon = "starting"
  BY DEF DaemonInit
<1> QED
  BY <1>1, <1>2, <1>3 DEF DaemonIInv, KillsOwnChild, NeverStranded,
     IdleMeansIdle

LEMMA LaunchAppStep ==
    ASSUME DaemonIInv, Launch,
           daemon \in {"starting", "running"}, daemon' = "running",
           UNCHANGED auto, workers' = workers, searches' \in 0..MaxSearches
    PROVE  DaemonIInv'
<1> USE NoAppAssumption, DaemonBounds
<1>1. CASE LaunchFails
  BY <1>1 DEF LaunchFails, Arm, DaemonIInv, DaemonTypeOK, KillsOwnChild,
     Unreaped, NeverStranded, IdleMeansIdle
<1>2. ASSUME NEW a \in Apps, LaunchApp(a)
      PROVE  DaemonIInv'
  <2> USE <1>2 DEF LaunchApp, DaemonIInv
  <2>1. DaemonTypeOK'
    BY DEF DaemonTypeOK
  <2>2. childPid' # NoApp /\ childPid' \in Unreaped'
    BY DEF DaemonTypeOK, KillsOwnChild, Unreaped
  <2>3. ~ overlap' => \A b \in Unreaped' : b = childPid'
    <3>1. CASE Unreaped = {}
      <4>1. childPid = NoApp
        BY <3>1 DEF KillsOwnChild
      <4>2. \A b \in Unreaped' : b = a
        BY <3>1 DEF Unreaped, DaemonTypeOK
      <4> QED BY <4>1, <4>2
    <3>2. CASE Unreaped # {}
      BY <3>2
    <3> QED BY <3>1, <3>2
  <2> QED
    BY <2>1, <2>2, <2>3 DEF KillsOwnChild, NeverStranded, IdleMeansIdle
<1> QED BY <1>1, <1>2 DEF Launch

LEMMA DaemonStepInvariant == DaemonIInv /\ [DaemonNext]_daemonVars => DaemonIInv'
<1> SUFFICES ASSUME DaemonIInv, [DaemonNext]_daemonVars PROVE DaemonIInv'
  OBVIOUS
<1> USE NoAppAssumption, DaemonBounds
<1>1. CASE Start
  <2>1. CASE Launch
    BY <1>1, <2>1, LaunchAppStep DEF Start, DaemonIInv, DaemonTypeOK
  <2>2. CASE Arm(childPid) /\ UNCHANGED <<childPid, app, overlap>>
    BY <1>1, <2>2 DEF Start, Arm, DaemonIInv, DaemonTypeOK, KillsOwnChild,
       Unreaped, NeverStranded, IdleMeansIdle
  <2> QED BY <1>1, <2>1, <2>2 DEF Start
<1>2. CASE Search
  BY <1>2 DEF Search, Arm, DaemonIInv, DaemonTypeOK, KillsOwnChild, Unreaped,
              NeverStranded, IdleMeansIdle
<1>3. CASE Relaunch
  <2>1. searches' \in 0..MaxSearches
    BY <1>3 DEF Relaunch, DaemonIInv, DaemonTypeOK
  <2> QED BY <1>3, <2>1, LaunchAppStep DEF Relaunch
<1>4. CASE IdleTimeout
  BY <1>4 DEF IdleTimeout, DaemonIInv, DaemonTypeOK, KillsOwnChild, Unreaped,
              NeverStranded, IdleMeansIdle
<1>5. CASE UpdateTimer
  BY <1>5 DEF UpdateTimer, DaemonIInv, DaemonTypeOK, KillsOwnChild, Unreaped,
              NeverStranded, IdleMeansIdle
<1>6. CASE WorkerEnds
  BY <1>6 DEF WorkerEnds, DaemonIInv, DaemonTypeOK, KillsOwnChild, Unreaped,
              NeverStranded, IdleMeansIdle
<1>7. CASE Quit
  BY <1>7 DEF Quit, DaemonIInv, DaemonTypeOK, KillsOwnChild, Unreaped,
              NeverStranded, IdleMeansIdle
<1>8. CASE SetAuto
  BY <1>8 DEF SetAuto, DaemonIInv, DaemonTypeOK, KillsOwnChild, Unreaped,
              NeverStranded, IdleMeansIdle
<1>9. ASSUME NEW a \in Apps, AppEnds(a)
      PROVE  DaemonIInv'
  BY <1>9 DEF AppEnds, DaemonIInv, DaemonTypeOK, KillsOwnChild, Unreaped,
              NeverStranded, IdleMeansIdle
<1>10. ASSUME NEW a \in Apps, ChildExit(a)
       PROVE  DaemonIInv'
  BY <1>10 DEF ChildExit, Arm, DaemonIInv, DaemonTypeOK, KillsOwnChild,
     Unreaped, NeverStranded, IdleMeansIdle
<1>11. CASE UNCHANGED daemonVars
  BY <1>11 DEF daemonVars, DaemonIInv, DaemonTypeOK, KillsOwnChild, Unreaped,
               NeverStranded, IdleMeansIdle
<1> QED
  BY <1>1, <1>2, <1>3, <1>4, <1>5, <1>6, <1>7, <1>8, <1>9, <1>10, <1>11 DEF
     DaemonNext

\* The inductive invariant of the daemon, bazaar-daemon.c:222-276, 449-508.
THEOREM DaemonInvariant == DaemonSpec => []DaemonIInv
BY DaemonInitInvariant, DaemonStepInvariant, PTL DEF DaemonSpec

\* A daemon that leaves because it is idle leaves no application behind,
\* unless two of them overlapped, on_idle_timeout and on_child_exit.
THEOREM DaemonIdle == DaemonSpec => []IdleMeansIdle
BY DaemonInvariant, PTL DEF DaemonIInv

\* A daemon without an armed idle timer has a child or auto-update kept it,
\* arm_idle_timer and its callers.
THEOREM DaemonStays == DaemonSpec => []NeverStranded
BY DaemonInvariant, PTL DEF DaemonIInv

\* The process that is killed when the daemon quits is a child it has not
\* waited for, so its number belongs to no other process, method_quit.
THEOREM DaemonKillsOwn == DaemonSpec => []KillsOwnChild
BY DaemonInvariant, PTL DEF DaemonIInv
=============================================================================
