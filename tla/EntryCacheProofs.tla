-------------------------- MODULE EntryCacheProofs --------------------------
(***************************************************************************)
(* Proofs about EntryCache for any number of fibers, checksums, records,   *)
(* entries and slots: IInv is inductive, and FileExclusion,                *)
(* RecordAgreement, OneLivingObject and SweepNeverWaits follow from it;    *)
(* with Accounts, so do OwnerOfAwaited, QueuedCount, WriteLimit and the    *)
(* implementation of CacheService; with Lines, NoCircularWait.             *)
(***************************************************************************)
EXTENDS EntryCache, SequenceTheorems, FiniteSetTheorems, TLAPS

\* Clearing guards leaves sequences of fibers.
LEMMA ClearedType ==
    ASSUME TypeOK, NEW p, NEW G
    PROVE  Cleared(p, G) \in [Gates -> Seq(Processes)]
  BY HeadTailProperties DEF TypeOK, Cleared, First

\* Clearing the guards of p on the gates of G lets nobody else lose a gate.
LEMMA ClearedFacts ==
    ASSUME TypeOK, Queues, NEW p \in Processes, NEW G, queue' = Cleared(p, G)
    PROVE  /\ \A u \in Processes, g \in Gates :
                    (u # p \/ g \notin G) /\ First(u, g) => First(u, g)'
           /\ \A g \in Gates : g \notin G => queue'[g] = queue[g]
           /\ \A u \in Processes, g \in Gates : InQueue(u, g)' => InQueue(u, g)
           /\ \A g \in Gates : g \in G /\ First(p, g) => ~ InQueue(p, g)'
           /\ \A g \in Gates : \A i, j \in 1..Len(queue[g])' :
                    queue'[g][i] = queue'[g][j] => i = j
<1>1. ASSUME NEW g \in Gates
      PROVE  \/ queue'[g] = queue[g] /\ ~ (g \in G /\ First(p, g))
             \/ /\ g \in G /\ First(p, g)
                /\ queue[g] \in Seq(Processes) /\ queue[g] # <<>>
                /\ queue'[g] = Tail(queue[g])
                /\ Head(queue[g]) = p /\ queue[g][1] = p
  BY <1>1 DEF TypeOK, Cleared, First
<1>2. ASSUME NEW g \in Gates, queue[g] \in Seq(Processes), queue[g] # <<>>
      PROVE  /\ Len(queue[g]) \in Nat
             /\ Len(Tail(queue[g])) = Len(queue[g]) - 1
             /\ \A i \in 1..Len(Tail(queue[g])) :
                    Tail(queue[g])[i] = queue[g][i + 1]
  BY <1>2, HeadTailProperties, LenProperties
<1>3. \A g \in Gates : queue[g] \in Seq(Processes) /\ Len(queue[g]) \in Nat
  BY LenProperties DEF TypeOK
<1>4. \A u \in Processes, g \in Gates :
        (u # p \/ g \notin G) /\ First(u, g) => First(u, g)'
  BY <1>1 DEF First
<1>5. \A g \in Gates : g \notin G => queue'[g] = queue[g]
  BY <1>1
<1>6. ASSUME NEW u \in Processes, NEW g \in Gates, InQueue(u, g)'
      PROVE  InQueue(u, g)
  <2>1. CASE queue'[g] = queue[g]
    BY <1>6, <2>1 DEF InQueue
  <2>2. CASE queue'[g] = Tail(queue[g]) /\ queue[g] # <<>>
    <3>1. PICK i \in 1..Len(Tail(queue[g])) : Tail(queue[g])[i] = u
      BY <1>6, <2>2 DEF InQueue
    <3>2. i + 1 \in 1..Len(queue[g]) /\ queue[g][i + 1] = u
      BY <3>1, <1>2, <1>3, <2>2
    <3> QED
      BY <3>2 DEF InQueue
  <2> QED
    BY <1>1, <2>1, <2>2
<1>7. ASSUME NEW g \in Gates, g \in G, First(p, g)
      PROVE  ~ InQueue(p, g)'
  <2> SUFFICES ASSUME InQueue(p, g)' PROVE FALSE
    OBVIOUS
  <2>1. PICK i \in 1..Len(Tail(queue[g])) : Tail(queue[g])[i] = p
    BY <1>1, <1>7 DEF InQueue
  <2>2. /\ 1 \in 1..Len(queue[g]) /\ i + 1 \in 1..Len(queue[g])
        /\ queue[g][i + 1] = queue[g][1]
    BY <2>1, <1>1, <1>2, <1>3, <1>7
  <2> QED
    BY <2>2 DEF Queues
<1>8. ASSUME NEW g \in Gates, NEW i \in 1..Len(queue[g])', NEW j \in 1..Len(queue[g])',
             queue'[g][i] = queue'[g][j]
      PROVE  i = j
  <2>1. CASE queue'[g] = queue[g]
    BY <1>8, <2>1 DEF Queues
  <2>2. CASE queue'[g] = Tail(queue[g]) /\ queue[g] # <<>>
    <3>1. /\ i + 1 \in 1..Len(queue[g]) /\ j + 1 \in 1..Len(queue[g])
          /\ queue[g][i + 1] = queue[g][j + 1]
      BY <1>8, <1>2, <1>3, <2>2
    <3>2. i + 1 = j + 1
      BY <3>1 DEF Queues
    <3> QED
      BY <3>2
  <2> QED
    BY <1>1, <2>1, <2>2
<1> QED
  BY <1>4, <1>5, <1>6, <1>7, <1>8

\* Beginning a guard puts p last: who was first stays first.
LEMMA ArriveFacts ==
    ASSUME TypeOK, Queues, NEW p \in Processes, NEW h \in Gates, ~ InQueue(p, h),
           queue' = [queue EXCEPT ![h] = Append(@, p)]
    PROVE  /\ \A u \in Processes, g \in Gates : First(u, g) => First(u, g)'
           /\ \A u \in Processes, g \in Gates :
                    InQueue(u, g)' => InQueue(u, g) \/ (u = p /\ g = h)
           /\ \A g \in Gates : \A i, j \in 1..Len(queue[g])' :
                    queue'[g][i] = queue'[g][j] => i = j
<1>1. \A g \in Gates : queue[g] \in Seq(Processes) /\ Len(queue[g]) \in Nat
  BY LenProperties DEF TypeOK
<1>2. /\ queue'[h] = Append(queue[h], p)
      /\ Len(queue'[h]) = Len(queue[h]) + 1
      /\ queue'[h] # <<>>
      /\ \A i \in 1..Len(queue[h]) : queue'[h][i] = queue[h][i]
      /\ queue'[h][Len(queue[h]) + 1] = p
  BY <1>1, AppendProperties DEF TypeOK
<1>3. \A g \in Gates : g # h => queue'[g] = queue[g]
  BY DEF TypeOK
<1>4. ASSUME NEW u \in Processes, NEW g \in Gates, First(u, g)
      PROVE  First(u, g)'
  BY <1>1, <1>2, <1>3, <1>4 DEF First
<1>5. ASSUME NEW u \in Processes, NEW g \in Gates, InQueue(u, g)'
      PROVE  InQueue(u, g) \/ (u = p /\ g = h)
  BY <1>1, <1>2, <1>3, <1>5 DEF InQueue
<1>6. ASSUME NEW g \in Gates, NEW i \in 1..Len(queue[g])', NEW j \in 1..Len(queue[g])',
             queue'[g][i] = queue'[g][j]
      PROVE  i = j
  <2>1. CASE g # h
    BY <1>3, <1>6, <2>1 DEF Queues
  <2>2. CASE g = h
    BY <1>1, <1>2, <1>6, <2>2 DEF Queues, InQueue
  <2> QED
    BY <2>1, <2>2
<1> QED
  BY <1>4, <1>5, <1>6

\* A step that leaves the queues alone changes nobody's place.
LEMMA SameFacts ==
    ASSUME queue' = queue
    PROVE  /\ \A u, g : First(u, g)' <=> First(u, g)
           /\ \A u, g : InQueue(u, g)' <=> InQueue(u, g)
           /\ \A g : queue'[g] = queue[g]
  BY DEF First, InQueue

\* When a call clears guards and moves to label, all others keep their gates;
\* it remains to say what becomes of the gate of its own record.
LEMMA ClearedGuarded ==
    ASSUME IInv, NEW t \in Tasks, NEW G, NEW label,
           queue' = Cleared(t, G), pc' = [pc EXCEPT ![t] = label],
           \A u \in Tasks \ {t} : living'[u] = living[u],
           label \in RecordHolder =>
                living'[t] \in Records \ G /\ First(t, living'[t])
    PROVE  Guarded'
<1>1. /\ \A u \in Processes, g \in Gates :
            (u # t \/ g \notin G) /\ First(u, g) => First(u, g)'
  BY ClearedFacts DEF IInv, Processes
<1>2. /\ \A u \in Processes : pc'[u] = IF u = t THEN label ELSE pc[u]
      /\ t # Sweeper /\ Sweeper \in Processes /\ Tasks \subseteq Processes
      /\ {"alive", "reading", "writing"} \subseteq Gates /\ Records \subseteq Gates
  BY ProcessesAssumption DEF IInv, TypeOK, Processes, Gates, GlobalGates
<1>3. ASSUME NEW u \in Tasks, pc'[u] \in RecordHolder
      PROVE  First(u, living[u])'
  <2>1. CASE u = t
    BY <1>1, <1>2, <1>3, <2>1 DEF First
  <2>2. CASE u # t
    <3>1. living'[u] = living[u] /\ living[u] \in Records /\ First(u, living[u])
      BY <1>2, <1>3, <2>2 DEF IInv, TypeOK, Located, Guarded, RecordHolder, RecordUser
    <3> QED
      BY <1>1, <1>2, <2>2, <3>1 DEF First
  <2> QED
    BY <2>1, <2>2
<1>4. /\ pc'[Sweeper] \in {"greading", "gwriting", "scan", "sprune"} => First(Sweeper, "alive")'
      /\ pc'[Sweeper] \in {"gwriting", "scan", "sprune"} => First(Sweeper, "reading")'
      /\ pc'[Sweeper] \in {"scan", "sprune"} => First(Sweeper, "writing")'
  BY <1>1, <1>2 DEF IInv, Guarded
<1> QED
  BY <1>3, <1>4 DEF Guarded

\* When a call clears guards, the queues keep naming each fiber once.
LEMMA ClearedQueues ==
    ASSUME IInv, NEW t \in Tasks, NEW G, NEW label,
           queue' = Cleared(t, G), pc' = [pc EXCEPT ![t] = label],
           \A u \in Tasks \ {t} : living'[u] = living[u],
           \A r \in Records : InQueue(t, r)' => label \in RecordQueuer /\ living'[t] = r
    PROVE  Queues'
<1>1. /\ \A u \in Processes, g \in Gates : InQueue(u, g)' => InQueue(u, g)
      /\ \A g \in Gates : \A i, j \in 1..Len(queue[g])' :
            queue'[g][i] = queue'[g][j] => i = j
  BY ClearedFacts DEF IInv, Processes
<1>2. /\ \A u \in Tasks : pc'[u] = IF u = t THEN label ELSE pc[u]
      /\ Tasks \subseteq Processes /\ Records \subseteq Gates
  BY DEF IInv, TypeOK, Processes, Gates
<1>3. ASSUME NEW r \in Records, NEW u \in Tasks, InQueue(u, r)'
      PROVE  pc'[u] \in RecordQueuer /\ living'[u] = r
  <2>1. CASE u = t
    BY <1>2, <1>3, <2>1
  <2>2. CASE u # t
    BY <1>1, <1>2, <1>3, <2>2 DEF IInv, Queues
  <2> QED
    BY <2>1, <2>2
<1> QED
  BY <1>1, <1>3 DEF Queues

\* A call that returns is in no queue of a record: if it was in one, it was
\* the first, and that guard is cleared.
LEMMA ReturnGuards ==
    ASSUME IInv, NEW t \in Tasks, pc[t] \notin {"wliving", "rfound", "rfresh"},
           Return(t)
    PROVE  Guarded' /\ Queues'
<1>1. /\ queue' = Cleared(t, Gates) /\ pc' = [pc EXCEPT ![t] = "idle"]
      /\ \A u \in Tasks \ {t} : living'[u] = living[u]
  BY DEF Return, Goto, IInv, TypeOK
<1>2. Guarded'
  BY <1>1, ClearedGuarded DEF RecordHolder
<1>3. ASSUME NEW r \in Records PROVE ~ InQueue(t, r)'
  <2> SUFFICES ASSUME InQueue(t, r)' PROVE FALSE
    OBVIOUS
  <2>1. r \in Gates /\ t \in Processes
    BY DEF Gates, Processes
  <2>2. InQueue(t, r) /\ ~ First(t, r)
    BY <1>1, <2>1, ClearedFacts DEF IInv
  <2>3. pc[t] \in RecordHolder /\ living[t] = r
    BY <2>2 DEF IInv, Queues, RecordQueuer
  <2> QED
    BY <2>2, <2>3 DEF IInv, Guarded
<1> QED
  BY <1>1, <1>2, <1>3, ClearedQueues

\* A slot is no record, so the guard on the record is kept.
LEMMA EndFileGuarded ==
    ASSUME IInv, NEW t \in Tasks, EndFile(t) PROVE Guarded'
<1>1. /\ living' = living /\ living[t] \in Records \ {slot[t]}
      /\ First(t, living[t])
  BY GatesAssumption DEF EndFile, IInv, TypeOK, Located, Guarded, RecordHolder, RecordUser, WriterLabels, locals
<1> QED
  BY <1>1, ClearedGuarded DEF EndFile, Goto

\* The guard on the record is cleared, and the fiber leaves its queue.
LEMMA TakeLivingGuards ==
    ASSUME IInv, NEW t \in Tasks, TakeLiving(t) PROVE Guarded' /\ Queues'
<1>1. /\ living' = living /\ pc[t] = "rfound" /\ First(t, living[t])
      /\ queue' = Cleared(t, {living[t]}) /\ pc' = [pc EXCEPT ![t] = "rdrop"]
  BY DEF TakeLiving, Inside, Goto, GateOf
<1>2. ASSUME NEW r \in Records PROVE ~ InQueue(t, r)'
  <2> SUFFICES ASSUME InQueue(t, r)' PROVE FALSE
    OBVIOUS
  <2>1. r \in Gates /\ t \in Processes
    BY DEF Gates, Processes
  <2>2. InQueue(t, r)
    BY <1>1, <2>1, ClearedFacts DEF IInv
  <2>3. living[t] = r
    BY <2>2 DEF IInv, Queues
  <2> QED
    BY <1>1, <2>1, <2>3, ClearedFacts DEF IInv
<1>3. Guarded'
  BY <1>1, ClearedGuarded DEF RecordHolder
<1> QED
  BY <1>1, <1>2, <1>3, ClearedQueues

\* A fiber gets in line for a record only when it is its own.
LEMMA ArriveGuards ==
    ASSUME IInv, NEW p \in Processes, Arrive(p) PROVE Guarded' /\ Queues'
<1>1. /\ pc' = pc /\ living' = living /\ cs' = cs
      /\ queue' = [queue EXCEPT ![GateOf(p)] = Append(@, p)]
      /\ ~ InQueue(p, GateOf(p)) /\ pc[p] \in GateLabels
  BY DEF Arrive, locals
<1>2. CASE GateOf(p) \notin Gates
  <2>1. queue' = queue
    BY <1>1, <1>2 DEF IInv, TypeOK
  <2> QED
    BY <1>1, <2>1, SameFacts DEF IInv, Guarded, Queues
<1>3. CASE GateOf(p) \in Gates
  <2>1. /\ \A u \in Processes, g \in Gates : First(u, g) => First(u, g)'
        /\ \A u \in Processes, g \in Gates :
                InQueue(u, g)' => InQueue(u, g) \/ (u = p /\ g = GateOf(p))
        /\ \A g \in Gates : \A i, j \in 1..Len(queue[g])' :
                queue'[g][i] = queue'[g][j] => i = j
    <3> DEFINE h == GateOf(p)
    <3>1. h \in Gates /\ ~ InQueue(p, h) /\ queue' = [queue EXCEPT ![h] = Append(@, p)]
      BY <1>1, <1>3
    <3> HIDE DEF h
    <3>2. /\ \A u \in Processes, g \in Gates : First(u, g) => First(u, g)'
          /\ \A u \in Processes, g \in Gates :
                InQueue(u, g)' => InQueue(u, g) \/ (u = p /\ g = h)
          /\ \A g \in Gates : \A i, j \in 1..Len(queue[g])' :
                queue'[g][i] = queue'[g][j] => i = j
      BY <3>1, ArriveFacts DEF IInv
    <3> QED
      BY <3>2 DEF h
  <2>2. Guarded'
    <3>1. /\ {"alive", "reading", "writing"} \subseteq Gates /\ Records \subseteq Gates
          /\ Sweeper \in Processes /\ Tasks \subseteq Processes
      BY DEF Gates, GlobalGates, Processes
    <3>2. \A u \in Tasks : pc[u] \in RecordHolder => living[u] \in Records /\ First(u, living[u])
      BY DEF IInv, TypeOK, Located, Guarded, RecordHolder, RecordUser
    <3>3. \A u \in Tasks : pc'[u] \in RecordHolder => First(u, living[u])'
      BY <1>1, <2>1, <3>1, <3>2 DEF First
    <3> QED
      BY <1>1, <2>1, <3>1, <3>3 DEF IInv, Guarded
  <2>3. ASSUME NEW r \in Records, p \in Tasks, r = GateOf(p)
        PROVE  pc[p] \in RecordQueuer /\ living[p] = r
    BY <1>1, <2>3, GatesAssumption, NothingAssumption DEF GateOf, GateLabels, RecordQueuer, RecordHolder,
      IInv, TypeOK, Located, WriterLabels, ReaderLabels, GlobalLabels
  <2> QED
    BY <1>1, <2>1, <2>2, <2>3 DEF IInv, Queues, Gates, Processes
<1> QED
  BY <1>2, <1>3

\* The sweep gives up the guard on a record, or all it holds.
LEMMA SweeperCleared ==
    ASSUME IInv, NEW G, queue' = Cleared(Sweeper, G), living' = living,
           \A t \in Tasks : pc'[t] = pc[t],
           pc'[Sweeper] = "idle" \/ (pc'[Sweeper] = "scan" /\ pc[Sweeper] = "sprune"
                                     /\ G \cap GlobalGates = {})
    PROVE  Guarded' /\ Queues'
<1>1. /\ \A u \in Processes, g \in Gates :
            (u # Sweeper \/ g \notin G) /\ First(u, g) => First(u, g)'
      /\ \A u \in Processes, g \in Gates : InQueue(u, g)' => InQueue(u, g)
      /\ \A g \in Gates : \A i, j \in 1..Len(queue[g])' :
            queue'[g][i] = queue'[g][j] => i = j
  BY ClearedFacts DEF IInv, Processes
<1>2. /\ {"alive", "reading", "writing"} \subseteq Gates /\ Records \subseteq Gates
      /\ Sweeper \in Processes /\ Tasks \subseteq Processes /\ Sweeper \notin Tasks
  BY ProcessesAssumption DEF Gates, GlobalGates, Processes
<1>3. \A u \in Tasks : pc[u] \in RecordHolder => living[u] \in Records /\ First(u, living[u])
  BY DEF IInv, TypeOK, Located, Guarded, RecordHolder, RecordUser
<1>4. \A u \in Tasks : pc'[u] \in RecordHolder => First(u, living[u])'
  BY <1>1, <1>2, <1>3 DEF First
<1>5. /\ pc'[Sweeper] \in {"greading", "gwriting", "scan", "sprune"} => First(Sweeper, "alive")'
      /\ pc'[Sweeper] \in {"gwriting", "scan", "sprune"} => First(Sweeper, "reading")'
      /\ pc'[Sweeper] \in {"scan", "sprune"} => First(Sweeper, "writing")'
  BY <1>1, <1>2 DEF IInv, Guarded, GlobalGates
<1> QED
  BY <1>1, <1>2, <1>4, <1>5 DEF IInv, Guarded, Queues

\* A sweep that leaves a record keeps the tables.
LEMMA PruneGuards ==
    ASSUME IInv, Prune PROVE Guarded' /\ Queues'
<1>1. /\ queue' = Cleared(Sweeper, {alive[cs[Sweeper]]}) /\ living' = living
      /\ \A t \in Tasks : pc'[t] = pc[t]
      /\ pc[Sweeper] = "sprune" /\ pc'[Sweeper] = "scan"
  BY ProcessesAssumption DEF Prune, Inside, Goto, IInv, TypeOK, Processes
<1>2. alive[cs[Sweeper]] \in Records
  BY <1>1 DEF IInv, TypeOK, SweepStable
<1> QED
  BY <1>1, <1>2, SweeperCleared, GatesAssumption DEF GlobalGates

\* A sweep that ends keeps nothing.
LEMMA EndScanGuards ==
    ASSUME IInv, EndScan PROVE Guarded' /\ Queues'
<1>1. /\ queue' = Cleared(Sweeper, Gates) /\ living' = living
      /\ \A t \in Tasks : pc'[t] = pc[t] /\ pc'[Sweeper] = "idle"
      /\ pc'[Sweeper] = "idle"
  BY ProcessesAssumption DEF EndScan, Goto, locals, IInv, TypeOK, Processes
<1> QED
  BY <1>1, SweeperCleared


-----------------------------------------------------------------------------
\* Types are preserved.
LEMMA TypeStep == IInv /\ [Next]_vars => TypeOK'
<1> SUFFICES ASSUME IInv, [Next]_vars PROVE TypeOK'
  OBVIOUS
<1> USE DEF TypeOK, IInv, Processes, Labels, locals, tables, objects, WriterLabels, ReaderLabels, GlobalLabels
<1>1. ASSUME Start PROVE TypeOK'
  BY <1>1 DEF Start, Located, RecordUser
<1>2. ASSUME NEW p \in Processes, Arrive(p) PROVE TypeOK'
  BY <1>2, AppendProperties DEF Arrive, Located, RecordUser
<1>3. ASSUME NEW p \in Processes, HoldNext(p) PROVE TypeOK'
  BY <1>3 DEF HoldNext, Goto, Inside, Located, RecordUser
<1>4. ASSUME NEW t \in Tasks, NEW c \in Checksums, Add(t, c) PROVE TypeOK'
  BY <1>4 DEF Add, Goto, Located, RecordUser
<1>5. ASSUME NEW t \in Tasks, NEW c \in Checksums, Get(t, c) PROVE TypeOK'
  BY <1>5 DEF Get, Goto, Located, RecordUser
<1>6. ASSUME NEW t \in Tasks, EnumerateDisk(t) PROVE TypeOK'
  BY <1>6 DEF EnumerateDisk, Goto, Located, RecordUser
<1>7. ASSUME NEW t \in Tasks, EnterSlot(t) PROVE TypeOK'
  BY <1>7 DEF EnterSlot, Goto, Inside, Located, RecordUser
<1>8. ASSUME NEW t \in Tasks, RegisterRejected(t) PROVE TypeOK'
  BY <1>8, ClearedType DEF RegisterRejected, Goto, Return, Inside, Located,
    RecordUser
<1>9. ASSUME NEW t \in Tasks, RegisterWrite(t) PROVE TypeOK'
  BY <1>9, ClearedType DEF RegisterWrite, Goto, Inside, Located, RecordUser
<1>10. ASSUME NEW t \in Tasks, BeginFile(t) PROVE TypeOK'
  BY <1>10 DEF BeginFile, Goto, Inside, Located, RecordUser
<1>11. ASSUME NEW t \in Tasks, EndFile(t) PROVE TypeOK'
  BY <1>11, ClearedType DEF EndFile, Goto, Located, RecordUser
<1>12. ASSUME NEW t \in Tasks, FinishWrite(t) PROVE TypeOK'
  BY <1>12, ClearedType DEF FinishWrite, Goto, Return, Settle, Inside, Located,
    RecordUser
<1>13. ASSUME NEW t \in Tasks, WriterAlive(t), LookUp(t) PROVE TypeOK'
  BY <1>13, ClearedType DEF WriterAlive, Goto, Inside, LookUp, Located, RecordUser
<1>14. ASSUME NEW t \in Tasks, WriterAlive(t), Make(t) PROVE TypeOK'
  BY <1>14, ClearedType DEF WriterAlive, Goto, Inside, Make, Unused, Located,
    RecordUser
<1>15. ASSUME NEW t \in Tasks, CheckWriting(t) PROVE TypeOK'
  BY <1>15, ClearedType DEF CheckWriting, Goto, Inside, Located, RecordUser
<1>16. ASSUME NEW t \in Tasks, WriteAwaited(t) PROVE TypeOK'
  BY <1>16 DEF WriteAwaited, Goto, Located, RecordUser
<1>17. ASSUME NEW t \in Tasks, JoinRead(t) PROVE TypeOK'
  BY <1>17, ClearedType DEF JoinRead, Goto, Inside, Located, RecordUser
<1>18. ASSUME NEW t \in Tasks, RegisterRead(t) PROVE TypeOK'
  BY <1>18, ClearedType DEF RegisterRead, Goto, Inside, Located, RecordUser
<1>19. ASSUME NEW t \in Tasks, ReaderAlive(t), LookUp(t), Goto(t, "rfound") PROVE TypeOK'
  BY <1>19, ClearedType DEF ReaderAlive, Goto, Inside, LookUp, Located, RecordUser
<1>20. ASSUME NEW t \in Tasks, ReaderAlive(t), Make(t), Goto(t, "rfresh") PROVE TypeOK'
  BY <1>20, ClearedType DEF ReaderAlive, Goto, Inside, Make, Unused, Located,
    RecordUser
<1>21. ASSUME NEW t \in Tasks, TakeLiving(t) PROVE TypeOK'
  BY <1>21, ClearedType DEF TakeLiving, Goto, Inside, Located, RecordUser
<1>22. ASSUME NEW t \in Tasks, BeginLoad(t) PROVE TypeOK'
  BY <1>22 DEF BeginLoad, Goto, Inside, Located, RecordUser
<1>23. ASSUME NEW t \in Tasks, Loaded(t) PROVE TypeOK'
  BY <1>23 DEF Loaded, Goto, Located, RecordUser
<1>24. ASSUME NEW t \in Tasks, LoadFailed(t) PROVE TypeOK'
  BY <1>24 DEF LoadFailed, Goto, Located, RecordUser
<1>25. ASSUME NEW t \in Tasks, FinishRead(t) PROVE TypeOK'
  BY <1>25, ClearedType DEF FinishRead, Goto, Return, Settle, Deliver, Inside,
    Located, RecordUser
<1>26. ASSUME NEW t \in Tasks, DropReading(t) PROVE TypeOK'
  BY <1>26, ClearedType DEF DropReading, Goto, Inside, Located, RecordUser
<1>27. ASSUME NEW t \in Tasks, ResolveLiving(t) PROVE TypeOK'
  BY <1>27, ClearedType DEF ResolveLiving, Goto, Return, Settle, Deliver, Located,
    RecordUser
<1>28. ASSUME NEW t \in Tasks, ReadFollowed(t) PROVE TypeOK'
  BY <1>28, ClearedType DEF ReadFollowed, Goto, Return, Located, RecordUser
<1>29. ASSUME NEW t \in Tasks, Enumerated(t) PROVE TypeOK'
  BY <1>29, ClearedType DEF Enumerated, Goto, Return, Inside, Located, RecordUser
<1>30. ASSUME NEW o \in Objects, Forget(o) PROVE TypeOK'
  BY <1>30 DEF Forget, Located, RecordUser
<1>31. ASSUME Wake PROVE TypeOK'
  BY <1>31 DEF Wake, Goto, Located, RecordUser
<1>32. ASSUME BeginScan PROVE TypeOK'
  BY <1>32 DEF BeginScan, Goto, Inside, Located, RecordUser
<1>33. ASSUME NEW c \in Checksums, SkipActive(c) PROVE TypeOK'
  BY <1>33 DEF SkipActive, Located, RecordUser
<1>34. ASSUME NEW c \in Checksums, Consider(c) PROVE TypeOK'
  BY <1>34 DEF Consider, Goto, Located, RecordUser
<1>35. ASSUME Prune PROVE TypeOK'
  BY <1>35, ClearedType DEF Prune, Goto, Inside, Located, RecordUser
<1>36. ASSUME EndScan PROVE TypeOK'
  BY <1>36, ClearedType DEF EndScan, Goto, Located, RecordUser
<1>37. CASE UNCHANGED vars
  BY <1>37 DEF vars, First, InQueue
<1> QED
  BY <1>1, <1>2, <1>3, <1>4, <1>5, <1>6, <1>7, <1>8, <1>9, <1>10, <1>11, <1>12,
    <1>13, <1>14, <1>15, <1>16, <1>17, <1>18, <1>19, <1>20, <1>21, <1>22, <1>23,
    <1>24, <1>25, <1>26, <1>27, <1>28, <1>29, <1>30, <1>31, <1>32, <1>33, <1>34,
    <1>35, <1>36, <1>37
    DEF Next, SweepStep, Sweep, Call, Step, Writer, Reader, WriterAlive, ReaderAlive

\* Labels keep telling where the fiber is.
LEMMA LocatedStep == IInv /\ [Next]_vars => Located'
<1> SUFFICES ASSUME IInv, [Next]_vars PROVE Located'
  OBVIOUS
<1> USE DEF TypeOK, IInv, Located, Processes, RecordUser, locals, tables, objects, WriterLabels, ReaderLabels, GlobalLabels
<1>1. ASSUME Start PROVE Located'
  BY <1>1, ProcessesAssumption, NothingAssumption DEF Start
<1>2. ASSUME NEW p \in Processes, Arrive(p) PROVE Located'
  BY <1>2, ProcessesAssumption, NothingAssumption DEF Arrive
<1>3. ASSUME NEW p \in Processes, HoldNext(p) PROVE Located'
  <2>1. p \in Tasks \/ p = Sweeper
    BY DEF Processes
  <2>2. CASE Inside(p, "galive") /\ Goto(p, "greading")
    BY <1>3, <2>1, <2>2, ProcessesAssumption, NothingAssumption DEF HoldNext, Inside, Goto
  <2>3. CASE Inside(p, "greading") /\ Goto(p, "gwriting")
    BY <1>3, <2>1, <2>3, ProcessesAssumption, NothingAssumption DEF HoldNext, Inside, Goto
  <2> QED
    BY <1>3, <2>2, <2>3 DEF HoldNext
<1>4. ASSUME NEW t \in Tasks, NEW c \in Checksums, Add(t, c) PROVE Located'
  BY <1>4, ProcessesAssumption, NothingAssumption DEF Add, Goto
<1>5. ASSUME NEW t \in Tasks, NEW c \in Checksums, Get(t, c) PROVE Located'
  BY <1>5, ProcessesAssumption, NothingAssumption DEF Get, Goto
<1>6. ASSUME NEW t \in Tasks, EnumerateDisk(t) PROVE Located'
  BY <1>6, ProcessesAssumption, NothingAssumption DEF EnumerateDisk, Goto
<1>7. ASSUME NEW t \in Tasks, EnterSlot(t) PROVE Located'
  BY <1>7, ProcessesAssumption, NothingAssumption DEF EnterSlot, Goto, Inside
<1>8. ASSUME NEW t \in Tasks, RegisterRejected(t) PROVE Located'
  BY <1>8, ProcessesAssumption, NothingAssumption DEF RegisterRejected, Goto,
    Return, Inside
<1>9. ASSUME NEW t \in Tasks, RegisterWrite(t) PROVE Located'
  BY <1>9, ProcessesAssumption, NothingAssumption DEF RegisterWrite, Goto, Inside
<1>10. ASSUME NEW t \in Tasks, BeginFile(t) PROVE Located'
  BY <1>10, ProcessesAssumption, NothingAssumption DEF BeginFile, Goto, Inside
<1>11. ASSUME NEW t \in Tasks, EndFile(t) PROVE Located'
  BY <1>11, ProcessesAssumption, NothingAssumption DEF EndFile, Goto
<1>12. ASSUME NEW t \in Tasks, FinishWrite(t) PROVE Located'
  BY <1>12, ProcessesAssumption, NothingAssumption DEF FinishWrite, Goto, Return,
    Settle, Inside
<1>13. ASSUME NEW t \in Tasks, WriterAlive(t), LookUp(t) PROVE Located'
  BY <1>13, ProcessesAssumption, NothingAssumption DEF WriterAlive, Goto, Inside,
    LookUp
<1>14. ASSUME NEW t \in Tasks, WriterAlive(t), Make(t) PROVE Located'
  BY <1>14, ProcessesAssumption, NothingAssumption DEF WriterAlive, Goto, Inside,
    Make, Unused
<1>15. ASSUME NEW t \in Tasks, CheckWriting(t) PROVE Located'
  BY <1>15, ProcessesAssumption, NothingAssumption DEF CheckWriting, Goto, Inside
<1>16. ASSUME NEW t \in Tasks, WriteAwaited(t) PROVE Located'
  BY <1>16, ProcessesAssumption, NothingAssumption DEF WriteAwaited, Goto
<1>17. ASSUME NEW t \in Tasks, JoinRead(t) PROVE Located'
  BY <1>17, ProcessesAssumption, NothingAssumption DEF JoinRead, Goto, Inside
<1>18. ASSUME NEW t \in Tasks, RegisterRead(t) PROVE Located'
  BY <1>18, ProcessesAssumption, NothingAssumption DEF RegisterRead, Goto, Inside
<1>19. ASSUME NEW t \in Tasks, ReaderAlive(t), LookUp(t), Goto(t, "rfound") PROVE Located'
  BY <1>19, ProcessesAssumption, NothingAssumption DEF ReaderAlive, Goto, Inside,
    LookUp
<1>20. ASSUME NEW t \in Tasks, ReaderAlive(t), Make(t), Goto(t, "rfresh") PROVE Located'
  <2>1. PICK r \in Records : living' = [living EXCEPT ![t] = r]
    BY <1>20 DEF Make
  <2>2. /\ pc[t] = "ralive" /\ pc' = [pc EXCEPT ![t] = "rfresh"]
        /\ UNCHANGED <<cs, slot, awaiting>>
    BY <1>20 DEF ReaderAlive, Inside, Goto
  <2> QED
    BY <2>1, <2>2, ProcessesAssumption, NothingAssumption
<1>21. ASSUME NEW t \in Tasks, TakeLiving(t) PROVE Located'
  BY <1>21, ProcessesAssumption, NothingAssumption DEF TakeLiving, Goto, Inside
<1>22. ASSUME NEW t \in Tasks, BeginLoad(t) PROVE Located'
  BY <1>22, ProcessesAssumption, NothingAssumption DEF BeginLoad, Goto, Inside
<1>23. ASSUME NEW t \in Tasks, Loaded(t) PROVE Located'
  BY <1>23, ProcessesAssumption, NothingAssumption DEF Loaded, Goto
<1>24. ASSUME NEW t \in Tasks, LoadFailed(t) PROVE Located'
  BY <1>24, ProcessesAssumption, NothingAssumption DEF LoadFailed, Goto
<1>25. ASSUME NEW t \in Tasks, FinishRead(t) PROVE Located'
  BY <1>25, ProcessesAssumption, NothingAssumption DEF FinishRead, Goto, Return,
    Settle, Deliver, Inside
<1>26. ASSUME NEW t \in Tasks, DropReading(t) PROVE Located'
  BY <1>26, ProcessesAssumption, NothingAssumption DEF DropReading, Goto, Inside
<1>27. ASSUME NEW t \in Tasks, ResolveLiving(t) PROVE Located'
  BY <1>27, ProcessesAssumption, NothingAssumption DEF ResolveLiving, Goto, Return,
    Settle, Deliver
<1>28. ASSUME NEW t \in Tasks, ReadFollowed(t) PROVE Located'
  BY <1>28, ProcessesAssumption, NothingAssumption DEF ReadFollowed, Goto, Return
<1>29. ASSUME NEW t \in Tasks, Enumerated(t) PROVE Located'
  BY <1>29, ProcessesAssumption, NothingAssumption DEF Enumerated, Goto, Return,
    Inside
<1>30. ASSUME NEW o \in Objects, Forget(o) PROVE Located'
  BY <1>30, ProcessesAssumption, NothingAssumption DEF Forget
<1>31. ASSUME Wake PROVE Located'
  BY <1>31, ProcessesAssumption, NothingAssumption DEF Wake, Goto
<1>32. ASSUME BeginScan PROVE Located'
  BY <1>32, ProcessesAssumption, NothingAssumption DEF BeginScan, Goto, Inside
<1>33. ASSUME NEW c \in Checksums, SkipActive(c) PROVE Located'
  BY <1>33, ProcessesAssumption, NothingAssumption DEF SkipActive
<1>34. ASSUME NEW c \in Checksums, Consider(c) PROVE Located'
  BY <1>34, ProcessesAssumption, NothingAssumption DEF Consider, Goto
<1>35. ASSUME Prune PROVE Located'
  BY <1>35, ProcessesAssumption, NothingAssumption DEF Prune, Goto, Inside
<1>36. ASSUME EndScan PROVE Located'
  BY <1>36, ProcessesAssumption, NothingAssumption DEF EndScan, Goto
<1>37. CASE UNCHANGED vars
  BY <1>37 DEF vars, First, InQueue
<1> QED
  BY <1>1, <1>2, <1>3, <1>4, <1>5, <1>6, <1>7, <1>8, <1>9, <1>10, <1>11, <1>12,
    <1>13, <1>14, <1>15, <1>16, <1>17, <1>18, <1>19, <1>20, <1>21, <1>22, <1>23,
    <1>24, <1>25, <1>26, <1>27, <1>28, <1>29, <1>30, <1>31, <1>32, <1>33, <1>34,
    <1>35, <1>36, <1>37
    DEF Next, SweepStep, Sweep, Call, Step, Writer, Reader, WriterAlive, ReaderAlive

\* The tables keep knowing their owners.
LEMMA RegisteredStep == IInv /\ [Next]_vars => Registered'
<1> SUFFICES ASSUME IInv, [Next]_vars PROVE Registered'
  OBVIOUS
<1> USE DEF TypeOK, IInv, Located, Registered, Processes, locals, tables, WriteOwner, ReadOwner, WriterLabels, ReaderLabels, GlobalLabels
<1>1. ASSUME Start PROVE Registered'
  BY <1>1, ProcessesAssumption DEF Start
<1>2. ASSUME NEW p \in Processes, Arrive(p) PROVE Registered'
  BY <1>2, ProcessesAssumption DEF Arrive
<1>3. ASSUME NEW p \in Processes, HoldNext(p) PROVE Registered'
  BY <1>3, ProcessesAssumption DEF HoldNext, Goto, Inside
<1>4. ASSUME NEW t \in Tasks, NEW c \in Checksums, Add(t, c) PROVE Registered'
  BY <1>4, ProcessesAssumption DEF Add, Goto
<1>5. ASSUME NEW t \in Tasks, NEW c \in Checksums, Get(t, c) PROVE Registered'
  BY <1>5, ProcessesAssumption DEF Get, Goto
<1>6. ASSUME NEW t \in Tasks, EnumerateDisk(t) PROVE Registered'
  BY <1>6, ProcessesAssumption DEF EnumerateDisk, Goto
<1>7. ASSUME NEW t \in Tasks, EnterSlot(t) PROVE Registered'
  BY <1>7, ProcessesAssumption DEF EnterSlot, Goto, Inside
<1>8. ASSUME NEW t \in Tasks, RegisterRejected(t) PROVE Registered'
  BY <1>8, ProcessesAssumption DEF RegisterRejected, Goto, Return, Inside
<1>9. ASSUME NEW t \in Tasks, RegisterWrite(t) PROVE Registered'
  BY <1>9, ProcessesAssumption DEF RegisterWrite, Goto, Inside
<1>10. ASSUME NEW t \in Tasks, BeginFile(t) PROVE Registered'
  BY <1>10, ProcessesAssumption DEF BeginFile, Goto, Inside
<1>11. ASSUME NEW t \in Tasks, EndFile(t) PROVE Registered'
  BY <1>11, ProcessesAssumption DEF EndFile, Goto
<1>12. ASSUME NEW t \in Tasks, FinishWrite(t) PROVE Registered'
  BY <1>12, ProcessesAssumption DEF FinishWrite, Goto, Return, Settle, Inside
<1>13. ASSUME NEW t \in Tasks, WriterAlive(t), LookUp(t) PROVE Registered'
  BY <1>13, ProcessesAssumption DEF WriterAlive, Goto, Inside, LookUp
<1>14. ASSUME NEW t \in Tasks, WriterAlive(t), Make(t) PROVE Registered'
  BY <1>14, ProcessesAssumption DEF WriterAlive, Goto, Inside, Make, Unused
<1>15. ASSUME NEW t \in Tasks, CheckWriting(t) PROVE Registered'
  BY <1>15, ProcessesAssumption DEF CheckWriting, Goto, Inside
<1>16. ASSUME NEW t \in Tasks, WriteAwaited(t) PROVE Registered'
  BY <1>16, ProcessesAssumption DEF WriteAwaited, Goto
<1>17. ASSUME NEW t \in Tasks, JoinRead(t) PROVE Registered'
  BY <1>17, ProcessesAssumption DEF JoinRead, Goto, Inside
<1>18. ASSUME NEW t \in Tasks, RegisterRead(t) PROVE Registered'
  BY <1>18, ProcessesAssumption DEF RegisterRead, Goto, Inside
<1>19. ASSUME NEW t \in Tasks, ReaderAlive(t), LookUp(t), Goto(t, "rfound") PROVE Registered'
  BY <1>19, ProcessesAssumption DEF ReaderAlive, Goto, Inside, LookUp
<1>20. ASSUME NEW t \in Tasks, ReaderAlive(t), Make(t), Goto(t, "rfresh") PROVE Registered'
  BY <1>20, ProcessesAssumption DEF ReaderAlive, Goto, Inside, Make, Unused
<1>21. ASSUME NEW t \in Tasks, TakeLiving(t) PROVE Registered'
  BY <1>21, ProcessesAssumption DEF TakeLiving, Goto, Inside
<1>22. ASSUME NEW t \in Tasks, BeginLoad(t) PROVE Registered'
  BY <1>22, ProcessesAssumption DEF BeginLoad, Goto, Inside
<1>23. ASSUME NEW t \in Tasks, Loaded(t) PROVE Registered'
  BY <1>23, ProcessesAssumption DEF Loaded, Goto
<1>24. ASSUME NEW t \in Tasks, LoadFailed(t) PROVE Registered'
  BY <1>24, ProcessesAssumption DEF LoadFailed, Goto
<1>25. ASSUME NEW t \in Tasks, FinishRead(t) PROVE Registered'
  BY <1>25, ProcessesAssumption DEF FinishRead, Goto, Return, Settle, Deliver,
    Inside
<1>26. ASSUME NEW t \in Tasks, DropReading(t) PROVE Registered'
  BY <1>26, ProcessesAssumption DEF DropReading, Goto, Inside
<1>27. ASSUME NEW t \in Tasks, ResolveLiving(t) PROVE Registered'
  BY <1>27, ProcessesAssumption DEF ResolveLiving, Goto, Return, Settle, Deliver
<1>28. ASSUME NEW t \in Tasks, ReadFollowed(t) PROVE Registered'
  BY <1>28, ProcessesAssumption DEF ReadFollowed, Goto, Return
<1>29. ASSUME NEW t \in Tasks, Enumerated(t) PROVE Registered'
  BY <1>29, ProcessesAssumption DEF Enumerated, Goto, Return, Inside
<1>30. ASSUME NEW o \in Objects, Forget(o) PROVE Registered'
  BY <1>30, ProcessesAssumption DEF Forget
<1>31. ASSUME Wake PROVE Registered'
  BY <1>31, ProcessesAssumption DEF Wake, Goto
<1>32. ASSUME BeginScan PROVE Registered'
  BY <1>32, ProcessesAssumption DEF BeginScan, Goto, Inside
<1>33. ASSUME NEW c \in Checksums, SkipActive(c) PROVE Registered'
  BY <1>33, ProcessesAssumption DEF SkipActive
<1>34. ASSUME NEW c \in Checksums, Consider(c) PROVE Registered'
  BY <1>34, ProcessesAssumption DEF Consider, Goto
<1>35. ASSUME Prune PROVE Registered'
  BY <1>35, ProcessesAssumption DEF Prune, Goto, Inside
<1>36. ASSUME EndScan PROVE Registered'
  BY <1>36, ProcessesAssumption DEF EndScan, Goto
<1>37. CASE UNCHANGED vars
  BY <1>37 DEF vars, First, InQueue
<1> QED
  BY <1>1, <1>2, <1>3, <1>4, <1>5, <1>6, <1>7, <1>8, <1>9, <1>10, <1>11, <1>12,
    <1>13, <1>14, <1>15, <1>16, <1>17, <1>18, <1>19, <1>20, <1>21, <1>22, <1>23,
    <1>24, <1>25, <1>26, <1>27, <1>28, <1>29, <1>30, <1>31, <1>32, <1>33, <1>34,
    <1>35, <1>36, <1>37
    DEF Next, SweepStep, Sweep, Call, Step, Writer, Reader, WriterAlive, ReaderAlive

\* A gate is left by its first fiber only, on its own account.
LEMMA GuardedStep == IInv /\ [Next]_vars => Guarded'
<1> SUFFICES ASSUME IInv, [Next]_vars PROVE Guarded'
  OBVIOUS
<1> USE DEF TypeOK, IInv, Located, Guarded, Processes, Gates, GlobalGates, RecordUser, RecordHolder, locals, tables, objects, WriterLabels, ReaderLabels, GlobalLabels
<1>1. ASSUME Start PROVE Guarded'
  BY <1>1, SameFacts, ProcessesAssumption, NothingAssumption, GatesAssumption DEF
    Start, GateOf
<1>2. ASSUME NEW p \in Processes, Arrive(p) PROVE Guarded'
  BY <1>2, ArriveGuards
<1>3. ASSUME NEW p \in Processes, HoldNext(p) PROVE Guarded'
  <2>1. p \in Tasks \/ p = Sweeper
    BY DEF Processes
  <2>2. CASE Inside(p, "galive") /\ Goto(p, "greading")
    BY <1>3, <2>1, <2>2, SameFacts, ProcessesAssumption, NothingAssumption, GatesAssumption DEF HoldNext, Inside, Goto, GateOf
  <2>3. CASE Inside(p, "greading") /\ Goto(p, "gwriting")
    BY <1>3, <2>1, <2>3, SameFacts, ProcessesAssumption, NothingAssumption, GatesAssumption DEF HoldNext, Inside, Goto, GateOf
  <2> QED
    BY <1>3, <2>2, <2>3 DEF HoldNext
<1>4. ASSUME NEW t \in Tasks, NEW c \in Checksums, Add(t, c) PROVE Guarded'
  BY <1>4, SameFacts, ProcessesAssumption, NothingAssumption, GatesAssumption DEF
    Add, Goto, GateOf
<1>5. ASSUME NEW t \in Tasks, NEW c \in Checksums, Get(t, c) PROVE Guarded'
  BY <1>5, SameFacts, ProcessesAssumption, NothingAssumption, GatesAssumption DEF
    Get, Goto, GateOf
<1>6. ASSUME NEW t \in Tasks, EnumerateDisk(t) PROVE Guarded'
  BY <1>6, SameFacts, ProcessesAssumption, NothingAssumption, GatesAssumption DEF
    EnumerateDisk, Goto, GateOf
<1>7. ASSUME NEW t \in Tasks, EnterSlot(t) PROVE Guarded'
  BY <1>7, SameFacts, ProcessesAssumption, NothingAssumption, GatesAssumption DEF
    EnterSlot, Goto, Inside, GateOf
<1>8. ASSUME NEW t \in Tasks, RegisterRejected(t) PROVE Guarded'
  BY <1>8, ReturnGuards DEF RegisterRejected, Inside
<1>9. ASSUME NEW t \in Tasks, RegisterWrite(t) PROVE Guarded'
  BY <1>9, ClearedFacts, ProcessesAssumption, NothingAssumption, GatesAssumption DEF
    RegisterWrite, Goto, Inside, GateOf
<1>10. ASSUME NEW t \in Tasks, BeginFile(t) PROVE Guarded'
  BY <1>10, SameFacts, ProcessesAssumption, NothingAssumption, GatesAssumption DEF
    BeginFile, Goto, Inside, GateOf
<1>11. ASSUME NEW t \in Tasks, EndFile(t) PROVE Guarded'
  BY <1>11, EndFileGuarded
<1>12. ASSUME NEW t \in Tasks, FinishWrite(t) PROVE Guarded'
  BY <1>12, ReturnGuards DEF FinishWrite, Inside
<1>13. ASSUME NEW t \in Tasks, WriterAlive(t), LookUp(t) PROVE Guarded'
  BY <1>13, ClearedFacts, ProcessesAssumption, NothingAssumption, GatesAssumption DEF
    WriterAlive, Goto, Inside, LookUp, GateOf
<1>14. ASSUME NEW t \in Tasks, WriterAlive(t), Make(t) PROVE Guarded'
  BY <1>14, ClearedFacts, ProcessesAssumption, NothingAssumption, GatesAssumption DEF
    WriterAlive, Goto, Inside, Make, Unused, GateOf
<1>15. ASSUME NEW t \in Tasks, CheckWriting(t) PROVE Guarded'
  BY <1>15, ClearedFacts, ProcessesAssumption, NothingAssumption, GatesAssumption DEF
    CheckWriting, Goto, Inside, GateOf
<1>16. ASSUME NEW t \in Tasks, WriteAwaited(t) PROVE Guarded'
  BY <1>16, SameFacts, ProcessesAssumption, NothingAssumption, GatesAssumption DEF
    WriteAwaited, Goto, GateOf
<1>17. ASSUME NEW t \in Tasks, JoinRead(t) PROVE Guarded'
  BY <1>17, ClearedFacts, ProcessesAssumption, NothingAssumption, GatesAssumption DEF
    JoinRead, Goto, Inside, GateOf
<1>18. ASSUME NEW t \in Tasks, RegisterRead(t) PROVE Guarded'
  BY <1>18, ClearedFacts, ProcessesAssumption, NothingAssumption, GatesAssumption DEF
    RegisterRead, Goto, Inside, GateOf
<1>19. ASSUME NEW t \in Tasks, ReaderAlive(t), LookUp(t), Goto(t, "rfound") PROVE Guarded'
  BY <1>19, ClearedFacts, ProcessesAssumption, NothingAssumption, GatesAssumption DEF
    ReaderAlive, Goto, Inside, LookUp, GateOf
<1>20. ASSUME NEW t \in Tasks, ReaderAlive(t), Make(t), Goto(t, "rfresh") PROVE Guarded'
  BY <1>20, ClearedFacts, ProcessesAssumption, NothingAssumption, GatesAssumption DEF
    ReaderAlive, Goto, Inside, Make, Unused, GateOf
<1>21. ASSUME NEW t \in Tasks, TakeLiving(t) PROVE Guarded'
  BY <1>21, TakeLivingGuards
<1>22. ASSUME NEW t \in Tasks, BeginLoad(t) PROVE Guarded'
  BY <1>22, SameFacts, ProcessesAssumption, NothingAssumption, GatesAssumption DEF
    BeginLoad, Goto, Inside, GateOf
<1>23. ASSUME NEW t \in Tasks, Loaded(t) PROVE Guarded'
  BY <1>23, SameFacts, ProcessesAssumption, NothingAssumption, GatesAssumption DEF
    Loaded, Goto, GateOf
<1>24. ASSUME NEW t \in Tasks, LoadFailed(t) PROVE Guarded'
  BY <1>24, SameFacts, ProcessesAssumption, NothingAssumption, GatesAssumption DEF
    LoadFailed, Goto, GateOf
<1>25. ASSUME NEW t \in Tasks, FinishRead(t) PROVE Guarded'
  BY <1>25, ReturnGuards DEF FinishRead, Inside
<1>26. ASSUME NEW t \in Tasks, DropReading(t) PROVE Guarded'
  BY <1>26, ClearedFacts, ProcessesAssumption, NothingAssumption, GatesAssumption DEF
    DropReading, Goto, Inside, GateOf
<1>27. ASSUME NEW t \in Tasks, ResolveLiving(t) PROVE Guarded'
  BY <1>27, ReturnGuards DEF ResolveLiving
<1>28. ASSUME NEW t \in Tasks, ReadFollowed(t) PROVE Guarded'
  BY <1>28, ReturnGuards DEF ReadFollowed
<1>29. ASSUME NEW t \in Tasks, Enumerated(t) PROVE Guarded'
  BY <1>29, ReturnGuards DEF Enumerated, Inside
<1>30. ASSUME NEW o \in Objects, Forget(o) PROVE Guarded'
  BY <1>30, SameFacts, ProcessesAssumption, NothingAssumption, GatesAssumption DEF
    Forget, GateOf
<1>31. ASSUME Wake PROVE Guarded'
  BY <1>31, SameFacts, ProcessesAssumption, NothingAssumption, GatesAssumption DEF
    Wake, Goto, GateOf
<1>32. ASSUME BeginScan PROVE Guarded'
  BY <1>32, SameFacts, ProcessesAssumption, NothingAssumption, GatesAssumption DEF
    BeginScan, Goto, Inside, GateOf
<1>33. ASSUME NEW c \in Checksums, SkipActive(c) PROVE Guarded'
  BY <1>33, SameFacts, ProcessesAssumption, NothingAssumption, GatesAssumption DEF
    SkipActive, GateOf
<1>34. ASSUME NEW c \in Checksums, Consider(c) PROVE Guarded'
  BY <1>34, SameFacts, ProcessesAssumption, NothingAssumption, GatesAssumption DEF
    Consider, Goto, GateOf
<1>35. ASSUME Prune PROVE Guarded'
  BY <1>35, PruneGuards
<1>36. ASSUME EndScan PROVE Guarded'
  BY <1>36, EndScanGuards
<1>37. CASE UNCHANGED vars
  BY <1>37 DEF vars, First, InQueue
<1> QED
  BY <1>1, <1>2, <1>3, <1>4, <1>5, <1>6, <1>7, <1>8, <1>9, <1>10, <1>11, <1>12,
    <1>13, <1>14, <1>15, <1>16, <1>17, <1>18, <1>19, <1>20, <1>21, <1>22, <1>23,
    <1>24, <1>25, <1>26, <1>27, <1>28, <1>29, <1>30, <1>31, <1>32, <1>33, <1>34,
    <1>35, <1>36, <1>37
    DEF Next, SweepStep, Sweep, Call, Step, Writer, Reader, WriterAlive, ReaderAlive

\* The queues keep naming each fiber once.
LEMMA QueuesStep == IInv /\ [Next]_vars => Queues'
<1> SUFFICES ASSUME IInv, [Next]_vars PROVE Queues'
  OBVIOUS
<1> USE DEF TypeOK, IInv, Located, Queues, Processes, Gates, GlobalGates, RecordUser, RecordHolder, RecordQueuer, locals, tables, objects, WriterLabels, ReaderLabels, GlobalLabels
<1>1. ASSUME Start PROVE Queues'
  BY <1>1, SameFacts, ProcessesAssumption, NothingAssumption, GatesAssumption DEF
    Start, GateOf
<1>2. ASSUME NEW p \in Processes, Arrive(p) PROVE Queues'
  BY <1>2, ArriveGuards
<1>3. ASSUME NEW p \in Processes, HoldNext(p) PROVE Queues'
  <2>1. p \in Tasks \/ p = Sweeper
    BY DEF Processes
  <2>2. CASE Inside(p, "galive") /\ Goto(p, "greading")
    BY <1>3, <2>1, <2>2, SameFacts, ProcessesAssumption, NothingAssumption, GatesAssumption DEF HoldNext, Inside, Goto, GateOf
  <2>3. CASE Inside(p, "greading") /\ Goto(p, "gwriting")
    BY <1>3, <2>1, <2>3, SameFacts, ProcessesAssumption, NothingAssumption, GatesAssumption DEF HoldNext, Inside, Goto, GateOf
  <2> QED
    BY <1>3, <2>2, <2>3 DEF HoldNext
<1>4. ASSUME NEW t \in Tasks, NEW c \in Checksums, Add(t, c) PROVE Queues'
  BY <1>4, SameFacts, ProcessesAssumption, NothingAssumption, GatesAssumption DEF
    Add, Goto, GateOf
<1>5. ASSUME NEW t \in Tasks, NEW c \in Checksums, Get(t, c) PROVE Queues'
  BY <1>5, SameFacts, ProcessesAssumption, NothingAssumption, GatesAssumption DEF
    Get, Goto, GateOf
<1>6. ASSUME NEW t \in Tasks, EnumerateDisk(t) PROVE Queues'
  BY <1>6, SameFacts, ProcessesAssumption, NothingAssumption, GatesAssumption DEF
    EnumerateDisk, Goto, GateOf
<1>7. ASSUME NEW t \in Tasks, EnterSlot(t) PROVE Queues'
  BY <1>7, SameFacts, ProcessesAssumption, NothingAssumption, GatesAssumption DEF
    EnterSlot, Goto, Inside, GateOf
<1>8. ASSUME NEW t \in Tasks, RegisterRejected(t) PROVE Queues'
  BY <1>8, ReturnGuards DEF RegisterRejected, Inside
<1>9. ASSUME NEW t \in Tasks, RegisterWrite(t) PROVE Queues'
  BY <1>9, ClearedFacts, ProcessesAssumption, NothingAssumption, GatesAssumption DEF
    RegisterWrite, Goto, Inside, GateOf
<1>10. ASSUME NEW t \in Tasks, BeginFile(t) PROVE Queues'
  BY <1>10, SameFacts, ProcessesAssumption, NothingAssumption, GatesAssumption DEF
    BeginFile, Goto, Inside, GateOf
<1>11. ASSUME NEW t \in Tasks, EndFile(t) PROVE Queues'
  BY <1>11, ClearedFacts, ProcessesAssumption, NothingAssumption, GatesAssumption DEF
    EndFile, Goto, GateOf
<1>12. ASSUME NEW t \in Tasks, FinishWrite(t) PROVE Queues'
  BY <1>12, ReturnGuards DEF FinishWrite, Inside
<1>13. ASSUME NEW t \in Tasks, WriterAlive(t), LookUp(t) PROVE Queues'
  BY <1>13, ClearedFacts, ProcessesAssumption, NothingAssumption, GatesAssumption DEF
    WriterAlive, Goto, Inside, LookUp, GateOf
<1>14. ASSUME NEW t \in Tasks, WriterAlive(t), Make(t) PROVE Queues'
  BY <1>14, ClearedFacts, ProcessesAssumption, NothingAssumption, GatesAssumption DEF
    WriterAlive, Goto, Inside, Make, Unused, GateOf
<1>15. ASSUME NEW t \in Tasks, CheckWriting(t) PROVE Queues'
  BY <1>15, ClearedFacts, ProcessesAssumption, NothingAssumption, GatesAssumption DEF
    CheckWriting, Goto, Inside, GateOf
<1>16. ASSUME NEW t \in Tasks, WriteAwaited(t) PROVE Queues'
  BY <1>16, SameFacts, ProcessesAssumption, NothingAssumption, GatesAssumption DEF
    WriteAwaited, Goto, GateOf
<1>17. ASSUME NEW t \in Tasks, JoinRead(t) PROVE Queues'
  BY <1>17, ClearedFacts, ProcessesAssumption, NothingAssumption, GatesAssumption DEF
    JoinRead, Goto, Inside, GateOf
<1>18. ASSUME NEW t \in Tasks, RegisterRead(t) PROVE Queues'
  BY <1>18, ClearedFacts, ProcessesAssumption, NothingAssumption, GatesAssumption DEF
    RegisterRead, Goto, Inside, GateOf
<1>19. ASSUME NEW t \in Tasks, ReaderAlive(t), LookUp(t), Goto(t, "rfound") PROVE Queues'
  BY <1>19, ClearedFacts, ProcessesAssumption, NothingAssumption, GatesAssumption DEF
    ReaderAlive, Goto, Inside, LookUp, GateOf
<1>20. ASSUME NEW t \in Tasks, ReaderAlive(t), Make(t), Goto(t, "rfresh") PROVE Queues'
  BY <1>20, ClearedFacts, ProcessesAssumption, NothingAssumption, GatesAssumption DEF
    ReaderAlive, Goto, Inside, Make, Unused, GateOf
<1>21. ASSUME NEW t \in Tasks, TakeLiving(t) PROVE Queues'
  BY <1>21, TakeLivingGuards
<1>22. ASSUME NEW t \in Tasks, BeginLoad(t) PROVE Queues'
  BY <1>22, SameFacts, ProcessesAssumption, NothingAssumption, GatesAssumption DEF
    BeginLoad, Goto, Inside, GateOf
<1>23. ASSUME NEW t \in Tasks, Loaded(t) PROVE Queues'
  BY <1>23, SameFacts, ProcessesAssumption, NothingAssumption, GatesAssumption DEF
    Loaded, Goto, GateOf
<1>24. ASSUME NEW t \in Tasks, LoadFailed(t) PROVE Queues'
  BY <1>24, SameFacts, ProcessesAssumption, NothingAssumption, GatesAssumption DEF
    LoadFailed, Goto, GateOf
<1>25. ASSUME NEW t \in Tasks, FinishRead(t) PROVE Queues'
  BY <1>25, ReturnGuards DEF FinishRead, Inside
<1>26. ASSUME NEW t \in Tasks, DropReading(t) PROVE Queues'
  BY <1>26, ClearedFacts, ProcessesAssumption, NothingAssumption, GatesAssumption DEF
    DropReading, Goto, Inside, GateOf
<1>27. ASSUME NEW t \in Tasks, ResolveLiving(t) PROVE Queues'
  BY <1>27, ReturnGuards DEF ResolveLiving
<1>28. ASSUME NEW t \in Tasks, ReadFollowed(t) PROVE Queues'
  BY <1>28, ReturnGuards DEF ReadFollowed
<1>29. ASSUME NEW t \in Tasks, Enumerated(t) PROVE Queues'
  BY <1>29, ReturnGuards DEF Enumerated, Inside
<1>30. ASSUME NEW o \in Objects, Forget(o) PROVE Queues'
  BY <1>30, SameFacts, ProcessesAssumption, NothingAssumption, GatesAssumption DEF
    Forget, GateOf
<1>31. ASSUME Wake PROVE Queues'
  BY <1>31, SameFacts, ProcessesAssumption, NothingAssumption, GatesAssumption DEF
    Wake, Goto, GateOf
<1>32. ASSUME BeginScan PROVE Queues'
  BY <1>32, SameFacts, ProcessesAssumption, NothingAssumption, GatesAssumption DEF
    BeginScan, Goto, Inside, GateOf
<1>33. ASSUME NEW c \in Checksums, SkipActive(c) PROVE Queues'
  BY <1>33, SameFacts, ProcessesAssumption, NothingAssumption, GatesAssumption DEF
    SkipActive, GateOf
<1>34. ASSUME NEW c \in Checksums, Consider(c) PROVE Queues'
  BY <1>34, SameFacts, ProcessesAssumption, NothingAssumption, GatesAssumption DEF
    Consider, Goto, GateOf
<1>35. ASSUME Prune PROVE Queues'
  BY <1>35, PruneGuards
<1>36. ASSUME EndScan PROVE Queues'
  BY <1>36, EndScanGuards
<1>37. CASE UNCHANGED vars
  BY <1>37 DEF vars, First, InQueue
<1> QED
  BY <1>1, <1>2, <1>3, <1>4, <1>5, <1>6, <1>7, <1>8, <1>9, <1>10, <1>11, <1>12,
    <1>13, <1>14, <1>15, <1>16, <1>17, <1>18, <1>19, <1>20, <1>21, <1>22, <1>23,
    <1>24, <1>25, <1>26, <1>27, <1>28, <1>29, <1>30, <1>31, <1>32, <1>33, <1>34,
    <1>35, <1>36, <1>37
    DEF Next, SweepStep, Sweep, Call, Step, Writer, Reader, WriterAlive, ReaderAlive

\* Fibers keep agreeing on records: only a sweep prunes, and only the record
\* of a checksum nobody works on.
LEMMA RecordsStep == IInv /\ [Next]_vars => RecordsAgree'
<1> SUFFICES ASSUME IInv, [Next]_vars PROVE RecordsAgree'
  OBVIOUS
<1> USE DEF TypeOK, IInv, Located, Processes, Gates, GlobalGates, RecordUser, RecordHolder, locals, tables, objects, WriterLabels, ReaderLabels, GlobalLabels, RecordsAgree, RecordAgreement
<1>1. ASSUME Start PROVE RecordsAgree'
  BY <1>1, ProcessesAssumption, NothingAssumption, GatesAssumption DEF Start, GateOf
<1>2. ASSUME NEW p \in Processes, Arrive(p) PROVE RecordsAgree'
  BY <1>2, ProcessesAssumption, NothingAssumption, GatesAssumption DEF Arrive,
    GateOf
<1>3. ASSUME NEW p \in Processes, HoldNext(p) PROVE RecordsAgree'
  <2>1. p \in Tasks \/ p = Sweeper
    BY DEF Processes
  <2>2. CASE Inside(p, "galive") /\ Goto(p, "greading")
    BY <1>3, <2>1, <2>2, ProcessesAssumption, NothingAssumption, GatesAssumption DEF HoldNext, Inside, Goto
  <2>3. CASE Inside(p, "greading") /\ Goto(p, "gwriting")
    BY <1>3, <2>1, <2>3, ProcessesAssumption, NothingAssumption, GatesAssumption DEF HoldNext, Inside, Goto
  <2> QED
    BY <1>3, <2>2, <2>3 DEF HoldNext
<1>4. ASSUME NEW t \in Tasks, NEW c \in Checksums, Add(t, c) PROVE RecordsAgree'
  BY <1>4, ProcessesAssumption, NothingAssumption, GatesAssumption DEF Add, Goto,
    GateOf
<1>5. ASSUME NEW t \in Tasks, NEW c \in Checksums, Get(t, c) PROVE RecordsAgree'
  BY <1>5, ProcessesAssumption, NothingAssumption, GatesAssumption DEF Get, Goto,
    GateOf
<1>6. ASSUME NEW t \in Tasks, EnumerateDisk(t) PROVE RecordsAgree'
  BY <1>6, ProcessesAssumption, NothingAssumption, GatesAssumption DEF
    EnumerateDisk, Goto, GateOf
<1>7. ASSUME NEW t \in Tasks, EnterSlot(t) PROVE RecordsAgree'
  BY <1>7, ProcessesAssumption, NothingAssumption, GatesAssumption DEF EnterSlot,
    Goto, Inside, GateOf
<1>8. ASSUME NEW t \in Tasks, RegisterRejected(t) PROVE RecordsAgree'
  BY <1>8, ProcessesAssumption, NothingAssumption, GatesAssumption DEF
    RegisterRejected, Goto, Return, Inside, GateOf
<1>9. ASSUME NEW t \in Tasks, RegisterWrite(t) PROVE RecordsAgree'
  BY <1>9, ProcessesAssumption, NothingAssumption, GatesAssumption DEF
    RegisterWrite, Goto, Inside, GateOf
<1>10. ASSUME NEW t \in Tasks, BeginFile(t) PROVE RecordsAgree'
  BY <1>10, ProcessesAssumption, NothingAssumption, GatesAssumption DEF BeginFile,
    Goto, Inside, GateOf
<1>11. ASSUME NEW t \in Tasks, EndFile(t) PROVE RecordsAgree'
  BY <1>11, ProcessesAssumption, NothingAssumption, GatesAssumption DEF EndFile,
    Goto, GateOf
<1>12. ASSUME NEW t \in Tasks, FinishWrite(t) PROVE RecordsAgree'
  BY <1>12, ProcessesAssumption, NothingAssumption, GatesAssumption DEF
    FinishWrite, Goto, Return, Settle, Inside, GateOf
<1>13. ASSUME NEW t \in Tasks, WriterAlive(t), LookUp(t) PROVE RecordsAgree'
  BY <1>13, ProcessesAssumption, NothingAssumption, GatesAssumption DEF
    WriterAlive, Goto, Inside, LookUp, GateOf
<1>14. ASSUME NEW t \in Tasks, WriterAlive(t), Make(t) PROVE RecordsAgree'
  BY <1>14, ProcessesAssumption, NothingAssumption, GatesAssumption DEF
    WriterAlive, Goto, Inside, Make, Unused, GateOf
<1>15. ASSUME NEW t \in Tasks, CheckWriting(t) PROVE RecordsAgree'
  BY <1>15, ProcessesAssumption, NothingAssumption, GatesAssumption DEF
    CheckWriting, Goto, Inside, GateOf
<1>16. ASSUME NEW t \in Tasks, WriteAwaited(t) PROVE RecordsAgree'
  BY <1>16, ProcessesAssumption, NothingAssumption, GatesAssumption DEF
    WriteAwaited, Goto, GateOf
<1>17. ASSUME NEW t \in Tasks, JoinRead(t) PROVE RecordsAgree'
  BY <1>17, ProcessesAssumption, NothingAssumption, GatesAssumption DEF JoinRead,
    Goto, Inside, GateOf
<1>18. ASSUME NEW t \in Tasks, RegisterRead(t) PROVE RecordsAgree'
  BY <1>18, ProcessesAssumption, NothingAssumption, GatesAssumption DEF
    RegisterRead, Goto, Inside, GateOf
<1>19. ASSUME NEW t \in Tasks, ReaderAlive(t), LookUp(t), Goto(t, "rfound") PROVE RecordsAgree'
  BY <1>19, ProcessesAssumption, NothingAssumption, GatesAssumption DEF
    ReaderAlive, Goto, Inside, LookUp, GateOf
<1>20. ASSUME NEW t \in Tasks, ReaderAlive(t), Make(t), Goto(t, "rfresh") PROVE RecordsAgree'
  BY <1>20, ProcessesAssumption, NothingAssumption, GatesAssumption DEF
    ReaderAlive, Goto, Inside, Make, Unused, GateOf
<1>21. ASSUME NEW t \in Tasks, TakeLiving(t) PROVE RecordsAgree'
  BY <1>21, ProcessesAssumption, NothingAssumption, GatesAssumption DEF TakeLiving,
    Goto, Inside, GateOf
<1>22. ASSUME NEW t \in Tasks, BeginLoad(t) PROVE RecordsAgree'
  BY <1>22, ProcessesAssumption, NothingAssumption, GatesAssumption DEF BeginLoad,
    Goto, Inside, GateOf
<1>23. ASSUME NEW t \in Tasks, Loaded(t) PROVE RecordsAgree'
  BY <1>23, ProcessesAssumption, NothingAssumption, GatesAssumption DEF Loaded,
    Goto, GateOf
<1>24. ASSUME NEW t \in Tasks, LoadFailed(t) PROVE RecordsAgree'
  BY <1>24, ProcessesAssumption, NothingAssumption, GatesAssumption DEF LoadFailed,
    Goto, GateOf
<1>25. ASSUME NEW t \in Tasks, FinishRead(t) PROVE RecordsAgree'
  BY <1>25, ProcessesAssumption, NothingAssumption, GatesAssumption DEF FinishRead,
    Goto, Return, Settle, Deliver, Inside, GateOf
<1>26. ASSUME NEW t \in Tasks, DropReading(t) PROVE RecordsAgree'
  BY <1>26, ProcessesAssumption, NothingAssumption, GatesAssumption DEF
    DropReading, Goto, Inside, GateOf
<1>27. ASSUME NEW t \in Tasks, ResolveLiving(t) PROVE RecordsAgree'
  BY <1>27, ProcessesAssumption, NothingAssumption, GatesAssumption DEF
    ResolveLiving, Goto, Return, Settle, Deliver, GateOf
<1>28. ASSUME NEW t \in Tasks, ReadFollowed(t) PROVE RecordsAgree'
  BY <1>28, ProcessesAssumption, NothingAssumption, GatesAssumption DEF
    ReadFollowed, Goto, Return, GateOf
<1>29. ASSUME NEW t \in Tasks, Enumerated(t) PROVE RecordsAgree'
  BY <1>29, ProcessesAssumption, NothingAssumption, GatesAssumption DEF Enumerated,
    Goto, Return, Inside, GateOf
<1>30. ASSUME NEW o \in Objects, Forget(o) PROVE RecordsAgree'
  BY <1>30, ProcessesAssumption, NothingAssumption, GatesAssumption DEF Forget,
    GateOf
<1>31. ASSUME Wake PROVE RecordsAgree'
  BY <1>31, ProcessesAssumption, NothingAssumption, GatesAssumption DEF Wake, Goto,
    GateOf
<1>32. ASSUME BeginScan PROVE RecordsAgree'
  BY <1>32, ProcessesAssumption, NothingAssumption, GatesAssumption DEF BeginScan,
    Goto, Inside, GateOf
<1>33. ASSUME NEW c \in Checksums, SkipActive(c) PROVE RecordsAgree'
  BY <1>33, ProcessesAssumption, NothingAssumption, GatesAssumption DEF SkipActive,
    GateOf
<1>34. ASSUME NEW c \in Checksums, Consider(c) PROVE RecordsAgree'
  BY <1>34, ProcessesAssumption, NothingAssumption, GatesAssumption DEF Consider,
    Goto, GateOf
<1>35. ASSUME Prune PROVE RecordsAgree'
  BY <1>35, ProcessesAssumption, NothingAssumption, GatesAssumption DEF Prune,
    Goto, Inside, GateOf, Registered, SweepStable, LivingLinked, ReadOwner,
    WriteOwner
<1>36. ASSUME EndScan PROVE RecordsAgree'
  BY <1>36, ProcessesAssumption, NothingAssumption, GatesAssumption DEF EndScan,
    Goto, GateOf
<1>37. CASE UNCHANGED vars
  BY <1>37 DEF vars, First, InQueue
<1> QED
  BY <1>1, <1>2, <1>3, <1>4, <1>5, <1>6, <1>7, <1>8, <1>9, <1>10, <1>11, <1>12,
    <1>13, <1>14, <1>15, <1>16, <1>17, <1>18, <1>19, <1>20, <1>21, <1>22, <1>23,
    <1>24, <1>25, <1>26, <1>27, <1>28, <1>29, <1>30, <1>31, <1>32, <1>33, <1>34,
    <1>35, <1>36, <1>37
    DEF Next, SweepStep, Sweep, Call, Step, Writer, Reader, WriterAlive, ReaderAlive

\* An entry is decached only when its record leads to none.
LEMMA LivingStep == IInv /\ [Next]_vars => LivingLinked'
<1> SUFFICES ASSUME IInv, [Next]_vars PROVE LivingLinked'
  OBVIOUS
<1> USE DEF TypeOK, IInv, Located, Processes, Gates, GlobalGates, RecordUser, RecordHolder, locals, tables, objects, WriterLabels, ReaderLabels, GlobalLabels, RecordsAgree, RecordAgreement, LivingLinked
<1>1. ASSUME Start PROVE LivingLinked'
  BY <1>1, ProcessesAssumption, NothingAssumption, GatesAssumption DEF Start, GateOf
<1>2. ASSUME NEW p \in Processes, Arrive(p) PROVE LivingLinked'
  BY <1>2, ProcessesAssumption, NothingAssumption, GatesAssumption DEF Arrive,
    GateOf
<1>3. ASSUME NEW p \in Processes, HoldNext(p) PROVE LivingLinked'
  <2>1. p \in Tasks \/ p = Sweeper
    BY DEF Processes
  <2>2. CASE Inside(p, "galive") /\ Goto(p, "greading")
    BY <1>3, <2>1, <2>2, ProcessesAssumption, NothingAssumption, GatesAssumption DEF HoldNext, Inside, Goto
  <2>3. CASE Inside(p, "greading") /\ Goto(p, "gwriting")
    BY <1>3, <2>1, <2>3, ProcessesAssumption, NothingAssumption, GatesAssumption DEF HoldNext, Inside, Goto
  <2> QED
    BY <1>3, <2>2, <2>3 DEF HoldNext
<1>4. ASSUME NEW t \in Tasks, NEW c \in Checksums, Add(t, c) PROVE LivingLinked'
  BY <1>4, ProcessesAssumption, NothingAssumption, GatesAssumption DEF Add, Goto,
    GateOf
<1>5. ASSUME NEW t \in Tasks, NEW c \in Checksums, Get(t, c) PROVE LivingLinked'
  BY <1>5, ProcessesAssumption, NothingAssumption, GatesAssumption DEF Get, Goto,
    GateOf
<1>6. ASSUME NEW t \in Tasks, EnumerateDisk(t) PROVE LivingLinked'
  BY <1>6, ProcessesAssumption, NothingAssumption, GatesAssumption DEF
    EnumerateDisk, Goto, GateOf
<1>7. ASSUME NEW t \in Tasks, EnterSlot(t) PROVE LivingLinked'
  BY <1>7, ProcessesAssumption, NothingAssumption, GatesAssumption DEF EnterSlot,
    Goto, Inside, GateOf
<1>8. ASSUME NEW t \in Tasks, RegisterRejected(t) PROVE LivingLinked'
  BY <1>8, ProcessesAssumption, NothingAssumption, GatesAssumption DEF
    RegisterRejected, Goto, Return, Inside, GateOf
<1>9. ASSUME NEW t \in Tasks, RegisterWrite(t) PROVE LivingLinked'
  BY <1>9, ProcessesAssumption, NothingAssumption, GatesAssumption DEF
    RegisterWrite, Goto, Inside, GateOf
<1>10. ASSUME NEW t \in Tasks, BeginFile(t) PROVE LivingLinked'
  BY <1>10, ProcessesAssumption, NothingAssumption, GatesAssumption DEF BeginFile,
    Goto, Inside, GateOf
<1>11. ASSUME NEW t \in Tasks, EndFile(t) PROVE LivingLinked'
  BY <1>11, ProcessesAssumption, NothingAssumption, GatesAssumption DEF EndFile,
    Goto, GateOf
<1>12. ASSUME NEW t \in Tasks, FinishWrite(t) PROVE LivingLinked'
  BY <1>12, ProcessesAssumption, NothingAssumption, GatesAssumption DEF
    FinishWrite, Goto, Return, Settle, Inside, GateOf
<1>13. ASSUME NEW t \in Tasks, WriterAlive(t), LookUp(t) PROVE LivingLinked'
  BY <1>13, ProcessesAssumption, NothingAssumption, GatesAssumption DEF
    WriterAlive, Goto, Inside, LookUp, GateOf
<1>14. ASSUME NEW t \in Tasks, WriterAlive(t), Make(t) PROVE LivingLinked'
  BY <1>14, ProcessesAssumption, NothingAssumption, GatesAssumption DEF
    WriterAlive, Goto, Inside, Make, Unused, GateOf
<1>15. ASSUME NEW t \in Tasks, CheckWriting(t) PROVE LivingLinked'
  BY <1>15, ProcessesAssumption, NothingAssumption, GatesAssumption DEF
    CheckWriting, Goto, Inside, GateOf
<1>16. ASSUME NEW t \in Tasks, WriteAwaited(t) PROVE LivingLinked'
  BY <1>16, ProcessesAssumption, NothingAssumption, GatesAssumption DEF
    WriteAwaited, Goto, GateOf
<1>17. ASSUME NEW t \in Tasks, JoinRead(t) PROVE LivingLinked'
  BY <1>17, ProcessesAssumption, NothingAssumption, GatesAssumption DEF JoinRead,
    Goto, Inside, GateOf
<1>18. ASSUME NEW t \in Tasks, RegisterRead(t) PROVE LivingLinked'
  BY <1>18, ProcessesAssumption, NothingAssumption, GatesAssumption DEF
    RegisterRead, Goto, Inside, GateOf
<1>19. ASSUME NEW t \in Tasks, ReaderAlive(t), LookUp(t), Goto(t, "rfound") PROVE LivingLinked'
  BY <1>19, ProcessesAssumption, NothingAssumption, GatesAssumption DEF
    ReaderAlive, Goto, Inside, LookUp, GateOf
<1>20. ASSUME NEW t \in Tasks, ReaderAlive(t), Make(t), Goto(t, "rfresh") PROVE LivingLinked'
  BY <1>20, ProcessesAssumption, NothingAssumption, GatesAssumption DEF
    ReaderAlive, Goto, Inside, Make, Unused, GateOf
<1>21. ASSUME NEW t \in Tasks, TakeLiving(t) PROVE LivingLinked'
  BY <1>21, ProcessesAssumption, NothingAssumption, GatesAssumption DEF TakeLiving,
    Goto, Inside, GateOf
<1>22. ASSUME NEW t \in Tasks, BeginLoad(t) PROVE LivingLinked'
  BY <1>22, ProcessesAssumption, NothingAssumption, GatesAssumption DEF BeginLoad,
    Goto, Inside, GateOf
<1>23. ASSUME NEW t \in Tasks, Loaded(t) PROVE LivingLinked'
  BY <1>23, ProcessesAssumption, NothingAssumption, GatesAssumption DEF Loaded,
    Goto, GateOf, Registered, ReadOwner
<1>24. ASSUME NEW t \in Tasks, LoadFailed(t) PROVE LivingLinked'
  BY <1>24, ProcessesAssumption, NothingAssumption, GatesAssumption DEF LoadFailed,
    Goto, GateOf
<1>25. ASSUME NEW t \in Tasks, FinishRead(t) PROVE LivingLinked'
  <2>1. /\ \A u \in Tasks : pc[u] \in {"rdrop", "rresolve"} => awaiting[u] = NoTask
        /\ t # NoTask
    BY ProcessesAssumption
  <2>2. \A u \in Tasks : result'[u] =
            IF u = t THEN NoObject ELSE IF awaiting[u] = t THEN result[t] ELSE result[u]
    BY <1>25 DEF FinishRead, Deliver
  <2>3. \A u \in Tasks : u # t /\ pc[u] \in {"rdrop", "rresolve"} => result'[u] = result[u]
    BY <2>1, <2>2
  <2>4. /\ pc' = [pc EXCEPT ![t] = "idle"]
        /\ living' = [living EXCEPT ![t] = NoRecord]
        /\ UNCHANGED <<about, alive, wr>>
    BY <1>25 DEF FinishRead, Return, Goto
  <2> QED
    BY <2>3, <2>4
<1>26. ASSUME NEW t \in Tasks, DropReading(t) PROVE LivingLinked'
  BY <1>26, ProcessesAssumption, NothingAssumption, GatesAssumption DEF
    DropReading, Goto, Inside, GateOf
<1>27. ASSUME NEW t \in Tasks, ResolveLiving(t) PROVE LivingLinked'
  <2>1. /\ \A u \in Tasks : pc[u] \in {"rdrop", "rresolve"} => awaiting[u] = NoTask
        /\ t # NoTask
    BY ProcessesAssumption
  <2>2. \A u \in Tasks : result'[u] =
            IF u = t THEN NoObject ELSE IF awaiting[u] = t THEN result[t] ELSE result[u]
    BY <1>27 DEF ResolveLiving, Deliver
  <2>3. \A u \in Tasks : u # t /\ pc[u] \in {"rdrop", "rresolve"} => result'[u] = result[u]
    BY <2>1, <2>2
  <2>4. /\ pc' = [pc EXCEPT ![t] = "idle"]
        /\ living' = [living EXCEPT ![t] = NoRecord]
        /\ UNCHANGED <<about, alive, wr>>
    BY <1>27 DEF ResolveLiving, Return, Goto
  <2> QED
    BY <2>3, <2>4
<1>28. ASSUME NEW t \in Tasks, ReadFollowed(t) PROVE LivingLinked'
  BY <1>28, ProcessesAssumption, NothingAssumption, GatesAssumption DEF
    ReadFollowed, Goto, Return, GateOf
<1>29. ASSUME NEW t \in Tasks, Enumerated(t) PROVE LivingLinked'
  BY <1>29, ProcessesAssumption, NothingAssumption, GatesAssumption DEF Enumerated,
    Goto, Return, Inside, GateOf
<1>30. ASSUME NEW o \in Objects, Forget(o) PROVE LivingLinked'
  BY <1>30, ProcessesAssumption, NothingAssumption, GatesAssumption DEF Forget,
    GateOf
<1>31. ASSUME Wake PROVE LivingLinked'
  BY <1>31, ProcessesAssumption, NothingAssumption, GatesAssumption DEF Wake, Goto,
    GateOf
<1>32. ASSUME BeginScan PROVE LivingLinked'
  BY <1>32, ProcessesAssumption, NothingAssumption, GatesAssumption DEF BeginScan,
    Goto, Inside, GateOf
<1>33. ASSUME NEW c \in Checksums, SkipActive(c) PROVE LivingLinked'
  BY <1>33, ProcessesAssumption, NothingAssumption, GatesAssumption DEF SkipActive,
    GateOf
<1>34. ASSUME NEW c \in Checksums, Consider(c) PROVE LivingLinked'
  BY <1>34, ProcessesAssumption, NothingAssumption, GatesAssumption DEF Consider,
    Goto, GateOf
<1>35. ASSUME Prune PROVE LivingLinked'
  BY <1>35, ProcessesAssumption, NothingAssumption, GatesAssumption DEF Prune,
    Goto, Inside, GateOf, SweepStable
<1>36. ASSUME EndScan PROVE LivingLinked'
  BY <1>36, ProcessesAssumption, NothingAssumption, GatesAssumption DEF EndScan,
    Goto, GateOf
<1>37. CASE UNCHANGED vars
  BY <1>37 DEF vars, First, InQueue
<1> QED
  BY <1>1, <1>2, <1>3, <1>4, <1>5, <1>6, <1>7, <1>8, <1>9, <1>10, <1>11, <1>12,
    <1>13, <1>14, <1>15, <1>16, <1>17, <1>18, <1>19, <1>20, <1>21, <1>22, <1>23,
    <1>24, <1>25, <1>26, <1>27, <1>28, <1>29, <1>30, <1>31, <1>32, <1>33, <1>34,
    <1>35, <1>36, <1>37
    DEF Next, SweepStep, Sweep, Call, Step, Writer, Reader, WriterAlive, ReaderAlive

\* No task can pass the gates a sweep holds.
LEMMA SweepStableStep == IInv /\ [Next]_vars => SweepStable'
<1> SUFFICES ASSUME IInv, [Next]_vars PROVE SweepStable'
  OBVIOUS
<1> USE DEF TypeOK, IInv, Located, Processes, Gates, GlobalGates, RecordUser, RecordHolder, locals, tables, objects, WriterLabels, ReaderLabels, GlobalLabels, SweepStable
<1>1. ASSUME Start PROVE SweepStable'
  BY <1>1, ProcessesAssumption, NothingAssumption, GatesAssumption DEF Start,
    GateOf, Guarded, First
<1>2. ASSUME NEW p \in Processes, Arrive(p) PROVE SweepStable'
  BY <1>2, ProcessesAssumption, NothingAssumption, GatesAssumption DEF Arrive,
    GateOf, Guarded, First
<1>3. ASSUME NEW p \in Processes, HoldNext(p) PROVE SweepStable'
  <2>1. p \in Tasks \/ p = Sweeper
    BY DEF Processes
  <2>2. CASE Inside(p, "galive") /\ Goto(p, "greading")
    BY <1>3, <2>1, <2>2, ProcessesAssumption, NothingAssumption, GatesAssumption DEF HoldNext, Inside, Goto
  <2>3. CASE Inside(p, "greading") /\ Goto(p, "gwriting")
    BY <1>3, <2>1, <2>3, ProcessesAssumption, NothingAssumption, GatesAssumption DEF HoldNext, Inside, Goto
  <2> QED
    BY <1>3, <2>2, <2>3 DEF HoldNext
<1>4. ASSUME NEW t \in Tasks, NEW c \in Checksums, Add(t, c) PROVE SweepStable'
  BY <1>4, ProcessesAssumption, NothingAssumption, GatesAssumption DEF Add, Goto,
    GateOf, Guarded, First
<1>5. ASSUME NEW t \in Tasks, NEW c \in Checksums, Get(t, c) PROVE SweepStable'
  BY <1>5, ProcessesAssumption, NothingAssumption, GatesAssumption DEF Get, Goto,
    GateOf, Guarded, First
<1>6. ASSUME NEW t \in Tasks, EnumerateDisk(t) PROVE SweepStable'
  BY <1>6, ProcessesAssumption, NothingAssumption, GatesAssumption DEF
    EnumerateDisk, Goto, GateOf, Guarded, First
<1>7. ASSUME NEW t \in Tasks, EnterSlot(t) PROVE SweepStable'
  BY <1>7, ProcessesAssumption, NothingAssumption, GatesAssumption DEF EnterSlot,
    Goto, Inside, GateOf, Guarded, First
<1>8. ASSUME NEW t \in Tasks, RegisterRejected(t) PROVE SweepStable'
  BY <1>8, ProcessesAssumption, NothingAssumption, GatesAssumption DEF
    RegisterRejected, Goto, Return, Inside, GateOf, Guarded, First
<1>9. ASSUME NEW t \in Tasks, RegisterWrite(t) PROVE SweepStable'
  BY <1>9, ProcessesAssumption, NothingAssumption, GatesAssumption DEF
    RegisterWrite, Goto, Inside, GateOf, Guarded, First
<1>10. ASSUME NEW t \in Tasks, BeginFile(t) PROVE SweepStable'
  BY <1>10, ProcessesAssumption, NothingAssumption, GatesAssumption DEF BeginFile,
    Goto, Inside, GateOf, Guarded, First
<1>11. ASSUME NEW t \in Tasks, EndFile(t) PROVE SweepStable'
  BY <1>11, ProcessesAssumption, NothingAssumption, GatesAssumption DEF EndFile,
    Goto, GateOf, Guarded, First
<1>12. ASSUME NEW t \in Tasks, FinishWrite(t) PROVE SweepStable'
  BY <1>12, ProcessesAssumption, NothingAssumption, GatesAssumption DEF
    FinishWrite, Goto, Return, Settle, Inside, GateOf, Guarded, First
<1>13. ASSUME NEW t \in Tasks, WriterAlive(t), LookUp(t) PROVE SweepStable'
  BY <1>13, ProcessesAssumption, NothingAssumption, GatesAssumption DEF
    WriterAlive, Goto, Inside, LookUp, GateOf, Guarded, First
<1>14. ASSUME NEW t \in Tasks, WriterAlive(t), Make(t) PROVE SweepStable'
  BY <1>14, ProcessesAssumption, NothingAssumption, GatesAssumption DEF
    WriterAlive, Goto, Inside, Make, Unused, GateOf, Guarded, First
<1>15. ASSUME NEW t \in Tasks, CheckWriting(t) PROVE SweepStable'
  BY <1>15, ProcessesAssumption, NothingAssumption, GatesAssumption DEF
    CheckWriting, Goto, Inside, GateOf, Guarded, First
<1>16. ASSUME NEW t \in Tasks, WriteAwaited(t) PROVE SweepStable'
  BY <1>16, ProcessesAssumption, NothingAssumption, GatesAssumption DEF
    WriteAwaited, Goto, GateOf, Guarded, First
<1>17. ASSUME NEW t \in Tasks, JoinRead(t) PROVE SweepStable'
  BY <1>17, ProcessesAssumption, NothingAssumption, GatesAssumption DEF JoinRead,
    Goto, Inside, GateOf, Guarded, First
<1>18. ASSUME NEW t \in Tasks, RegisterRead(t) PROVE SweepStable'
  BY <1>18, ProcessesAssumption, NothingAssumption, GatesAssumption DEF
    RegisterRead, Goto, Inside, GateOf, Guarded, First
<1>19. ASSUME NEW t \in Tasks, ReaderAlive(t), LookUp(t), Goto(t, "rfound") PROVE SweepStable'
  BY <1>19, ProcessesAssumption, NothingAssumption, GatesAssumption DEF
    ReaderAlive, Goto, Inside, LookUp, GateOf, Guarded, First
<1>20. ASSUME NEW t \in Tasks, ReaderAlive(t), Make(t), Goto(t, "rfresh") PROVE SweepStable'
  BY <1>20, ProcessesAssumption, NothingAssumption, GatesAssumption DEF
    ReaderAlive, Goto, Inside, Make, Unused, GateOf, Guarded, First
<1>21. ASSUME NEW t \in Tasks, TakeLiving(t) PROVE SweepStable'
  BY <1>21, ProcessesAssumption, NothingAssumption, GatesAssumption DEF TakeLiving,
    Goto, Inside, GateOf, Guarded, First
<1>22. ASSUME NEW t \in Tasks, BeginLoad(t) PROVE SweepStable'
  BY <1>22, ProcessesAssumption, NothingAssumption, GatesAssumption DEF BeginLoad,
    Goto, Inside, GateOf, Guarded, First
<1>23. ASSUME NEW t \in Tasks, Loaded(t) PROVE SweepStable'
  BY <1>23, ProcessesAssumption, NothingAssumption, GatesAssumption DEF Loaded,
    Goto, GateOf, Guarded, First
<1>24. ASSUME NEW t \in Tasks, LoadFailed(t) PROVE SweepStable'
  BY <1>24, ProcessesAssumption, NothingAssumption, GatesAssumption DEF LoadFailed,
    Goto, GateOf, Guarded, First
<1>25. ASSUME NEW t \in Tasks, FinishRead(t) PROVE SweepStable'
  BY <1>25, ProcessesAssumption, NothingAssumption, GatesAssumption DEF FinishRead,
    Goto, Return, Settle, Deliver, Inside, GateOf, Guarded, First
<1>26. ASSUME NEW t \in Tasks, DropReading(t) PROVE SweepStable'
  BY <1>26, ProcessesAssumption, NothingAssumption, GatesAssumption DEF
    DropReading, Goto, Inside, GateOf, Guarded, First
<1>27. ASSUME NEW t \in Tasks, ResolveLiving(t) PROVE SweepStable'
  BY <1>27, ProcessesAssumption, NothingAssumption, GatesAssumption DEF
    ResolveLiving, Goto, Return, Settle, Deliver, GateOf, Guarded, First
<1>28. ASSUME NEW t \in Tasks, ReadFollowed(t) PROVE SweepStable'
  BY <1>28, ProcessesAssumption, NothingAssumption, GatesAssumption DEF
    ReadFollowed, Goto, Return, GateOf, Guarded, First
<1>29. ASSUME NEW t \in Tasks, Enumerated(t) PROVE SweepStable'
  BY <1>29, ProcessesAssumption, NothingAssumption, GatesAssumption DEF Enumerated,
    Goto, Return, Inside, GateOf, Guarded, First
<1>30. ASSUME NEW o \in Objects, Forget(o) PROVE SweepStable'
  BY <1>30, ProcessesAssumption, NothingAssumption, GatesAssumption DEF Forget,
    GateOf, Guarded, First
<1>31. ASSUME Wake PROVE SweepStable'
  BY <1>31, ProcessesAssumption, NothingAssumption, GatesAssumption DEF Wake, Goto,
    GateOf, Guarded, First
<1>32. ASSUME BeginScan PROVE SweepStable'
  BY <1>32, ProcessesAssumption, NothingAssumption, GatesAssumption DEF BeginScan,
    Goto, Inside, GateOf, Guarded, First
<1>33. ASSUME NEW c \in Checksums, SkipActive(c) PROVE SweepStable'
  BY <1>33, ProcessesAssumption, NothingAssumption, GatesAssumption DEF SkipActive,
    GateOf, Guarded, First
<1>34. ASSUME NEW c \in Checksums, Consider(c) PROVE SweepStable'
  BY <1>34, ProcessesAssumption, NothingAssumption, GatesAssumption DEF Consider,
    Goto, GateOf, Guarded, First
<1>35. ASSUME Prune PROVE SweepStable'
  BY <1>35, ProcessesAssumption, NothingAssumption, GatesAssumption DEF Prune,
    Goto, Inside, GateOf, Guarded, First
<1>36. ASSUME EndScan PROVE SweepStable'
  BY <1>36, ProcessesAssumption, NothingAssumption, GatesAssumption DEF EndScan,
    Goto, GateOf, Guarded, First
<1>37. CASE UNCHANGED vars
  BY <1>37 DEF vars, First, InQueue
<1> QED
  BY <1>1, <1>2, <1>3, <1>4, <1>5, <1>6, <1>7, <1>8, <1>9, <1>10, <1>11, <1>12,
    <1>13, <1>14, <1>15, <1>16, <1>17, <1>18, <1>19, <1>20, <1>21, <1>22, <1>23,
    <1>24, <1>25, <1>26, <1>27, <1>28, <1>29, <1>30, <1>31, <1>32, <1>33, <1>34,
    <1>35, <1>36, <1>37
    DEF Next, SweepStep, Sweep, Call, Step, Writer, Reader, WriterAlive, ReaderAlive

-----------------------------------------------------------------------------
\* The initial state is of the type.
LEMMA InitType == Init => TypeOK
<1> SUFFICES ASSUME Init PROVE TypeOK
  OBVIOUS
<1>1. queue \in [Gates -> Seq(Processes)]
  BY EmptySeq DEF Init
<1>2. pc \in [Processes -> Labels]
  BY DEF Init, Labels
<1>3. queued \in [Slots -> Int]
  BY DEF Init
<1> QED
  BY <1>1, <1>2, <1>3 DEF Init, TypeOK, Processes

\* The invariant holds initially.
LEMMA InitInvariant == Init => IInv
<1> SUFFICES ASSUME Init PROVE IInv
  OBVIOUS
<1> USE ProcessesAssumption, NothingAssumption DEF Init
<1>1. TypeOK
  BY InitType
<1>2. Located
  BY DEF Located, WriterLabels, ReaderLabels, GlobalLabels, RecordUser, Processes
<1>3. Registered /\ Guarded
  BY DEF Registered, Guarded, WriteOwner, ReadOwner, RecordHolder, Processes
<1>4. Queues
  BY GatesAssumption DEF Queues, InQueue, Gates
<1>5. RecordsAgree /\ LivingLinked /\ SweepStable
  BY DEF RecordsAgree, RecordAgreement, LivingLinked, SweepStable, Processes
<1> QED
  BY <1>1, <1>2, <1>3, <1>4, <1>5 DEF IInv

\* IInv is an inductive invariant of the entry cache manager.
THEOREM InvariantHolds == Spec => []IInv
<1>1. IInv /\ [Next]_vars => IInv'
  BY TypeStep, LocatedStep, RegisteredStep, GuardedStep, QueuesStep,
     RecordsStep, LivingStep, SweepStableStep DEF IInv
<1> QED
  BY <1>1, InitInvariant, PTL DEF Spec

\* The variables of write_task_fiber, read_task_fiber, watch_work_fiber and of
\* the tables they share keep their types.
THEOREM TypeCorrect == Spec => []TypeOK
<1>1. IInv => TypeOK
  BY DEF IInv
<1> QED
  BY <1>1, InvariantHolds, PTL

\* Two users of a file would both be first at the gate of its record.
LEMMA ExclusionOfInvariant == IInv => FileExclusion
<1> SUFFICES ASSUME IInv, NEW t \in Tasks, NEW u \in Tasks,
                    pc[t] \in {"wfile", "rload"}, pc[u] \in {"wfile", "rload"},
                    cs[t] = cs[u]
             PROVE  t = u
  BY DEF FileExclusion
<1>1. living[t] # NoRecord /\ living[u] # NoRecord
  BY DEF IInv, Located, RecordUser
<1>2. living[t] = alive[cs[t]] /\ living[u] = alive[cs[u]]
  BY <1>1 DEF IInv, RecordsAgree, RecordAgreement
<1>3. First(t, living[t]) /\ First(u, living[u])
  BY DEF IInv, Guarded, RecordHolder
<1> QED
  BY <1>2, <1>3 DEF First

\* write_task_fiber and read_task_fiber never use the file of one checksum at
\* the same time: both hold the guard on its LivingEntryData.
THEOREM FilesExclusive == Spec => []FileExclusion
  BY ExclusionOfInvariant, InvariantHolds, PTL

\* No sweep prunes the record a reader or writer works with: all fibers of a
\* checksum use the LivingEntryData of alive_hash.
THEOREM RecordsAgreed == Spec => []RecordAgreement
<1>1. IInv => RecordAgreement
  BY DEF IInv, RecordsAgree
<1> QED
  BY <1>1, InvariantHolds, PTL

\* read_task_fiber decaches a second entry of a checksum only after the first
\* one is gone.
THEOREM LivingObjectUnique == Spec => []OneLivingObject
<1>1. IInv => OneLivingObject
  BY DEF IInv, LivingLinked, OneLivingObject
<1> QED
  BY <1>1, InvariantHolds, PTL

\* watch_work_fiber, which holds the three global gates, finds the gate of
\* every record it looks at free: what its test of the two hash tables is for.
THEOREM SweepUnblocked == Spec => []SweepNeverWaits
<1>1. IInv => SweepNeverWaits
  <2> SUFFICES ASSUME IInv, pc[Sweeper] = "sprune", NEW t \in Tasks,
                      InQueue(t, alive[cs[Sweeper]])
               PROVE  FALSE
    BY DEF SweepNeverWaits
  <2> DEFINE c == cs[Sweeper]
  <2>1. /\ c \in Checksums /\ alive[c] \in Records
        /\ writing[c] = NoTask /\ reading[c] = NoTask
    BY DEF IInv, SweepStable, TypeOK, Processes
  <2>2. pc[t] \in RecordQueuer /\ living[t] = alive[c]
    BY <2>1 DEF IInv, Queues
  <2>3. cs[t] \in Checksums /\ alive[cs[t]] = living[t]
    BY <2>1, <2>2, NothingAssumption
       DEF IInv, Located, RecordQueuer, RecordHolder, WriterLabels, ReaderLabels,
           RecordsAgree, RecordAgreement
  <2>4. cs[t] = c
    BY <2>1, <2>2, <2>3, NothingAssumption DEF IInv, RecordsAgree
  <2>5. writing[c] = t \/ reading[c] = t
    BY <2>2, <2>4 DEF IInv, Registered, RecordQueuer, RecordHolder, WriteOwner, ReadOwner
  <2> QED
    BY <2>1, <2>5, ProcessesAssumption DEF Processes
<1> QED
  BY <1>1, InvariantHolds, PTL

-----------------------------------------------------------------------------
\* Owners, slots, counters and answers: Accounts

\* The hash tables keep knowing nobody else.
LEMMA OwnersStep == IInv /\ Accounts /\ [Next]_vars => Owners'
<1> SUFFICES ASSUME IInv /\ Accounts, [Next]_vars PROVE Owners'
  OBVIOUS
<1> USE DEF TypeOK, IInv, Accounts, Located, Processes, locals, tables, objects, WriterLabels, ReaderLabels, GlobalLabels, Owners, Registered, WriteOwner, ReadOwner
<1>1. ASSUME Start PROVE Owners'
  BY <1>1, ProcessesAssumption, NothingAssumption DEF Start
<1>2. ASSUME NEW p \in Processes, Arrive(p) PROVE Owners'
  BY <1>2, ProcessesAssumption, NothingAssumption DEF Arrive
<1>3. ASSUME NEW p \in Processes, HoldNext(p) PROVE Owners'
  <2>1. p \in Tasks \/ p = Sweeper
    BY DEF Processes
  <2>2. CASE Inside(p, "galive") /\ Goto(p, "greading")
    BY <1>3, <2>1, <2>2, ProcessesAssumption, NothingAssumption DEF HoldNext, Inside, Goto
  <2>3. CASE Inside(p, "greading") /\ Goto(p, "gwriting")
    BY <1>3, <2>1, <2>3, ProcessesAssumption, NothingAssumption DEF HoldNext, Inside, Goto
  <2> QED
    BY <1>3, <2>2, <2>3 DEF HoldNext
<1>4. ASSUME NEW t \in Tasks, NEW c \in Checksums, Add(t, c) PROVE Owners'
  BY <1>4, ProcessesAssumption, NothingAssumption DEF Add, Goto
<1>5. ASSUME NEW t \in Tasks, NEW c \in Checksums, Get(t, c) PROVE Owners'
  BY <1>5, ProcessesAssumption, NothingAssumption DEF Get, Goto
<1>6. ASSUME NEW t \in Tasks, EnumerateDisk(t) PROVE Owners'
  BY <1>6, ProcessesAssumption, NothingAssumption DEF EnumerateDisk, Goto
<1>7. ASSUME NEW t \in Tasks, EnterSlot(t) PROVE Owners'
  BY <1>7, ProcessesAssumption, NothingAssumption DEF EnterSlot, Goto, Inside
<1>8. ASSUME NEW t \in Tasks, RegisterRejected(t) PROVE Owners'
  BY <1>8, ProcessesAssumption, NothingAssumption DEF RegisterRejected, Goto,
    Return, Inside
<1>9. ASSUME NEW t \in Tasks, RegisterWrite(t) PROVE Owners'
  BY <1>9, ProcessesAssumption, NothingAssumption DEF RegisterWrite, Goto, Inside
<1>10. ASSUME NEW t \in Tasks, BeginFile(t) PROVE Owners'
  BY <1>10, ProcessesAssumption, NothingAssumption DEF BeginFile, Goto, Inside
<1>11. ASSUME NEW t \in Tasks, EndFile(t) PROVE Owners'
  BY <1>11, ProcessesAssumption, NothingAssumption DEF EndFile, Goto
<1>12. ASSUME NEW t \in Tasks, FinishWrite(t) PROVE Owners'
  BY <1>12, ProcessesAssumption, NothingAssumption DEF FinishWrite, Goto, Return,
    Settle, Inside
<1>13. ASSUME NEW t \in Tasks, WriterAlive(t), LookUp(t) PROVE Owners'
  BY <1>13, ProcessesAssumption, NothingAssumption DEF WriterAlive, Goto, Inside,
    LookUp
<1>14. ASSUME NEW t \in Tasks, WriterAlive(t), Make(t) PROVE Owners'
  BY <1>14, ProcessesAssumption, NothingAssumption DEF WriterAlive, Goto, Inside,
    Make, Unused
<1>15. ASSUME NEW t \in Tasks, CheckWriting(t) PROVE Owners'
  BY <1>15, ProcessesAssumption, NothingAssumption DEF CheckWriting, Goto, Inside
<1>16. ASSUME NEW t \in Tasks, WriteAwaited(t) PROVE Owners'
  BY <1>16, ProcessesAssumption, NothingAssumption DEF WriteAwaited, Goto
<1>17. ASSUME NEW t \in Tasks, JoinRead(t) PROVE Owners'
  BY <1>17, ProcessesAssumption, NothingAssumption DEF JoinRead, Goto, Inside
<1>18. ASSUME NEW t \in Tasks, RegisterRead(t) PROVE Owners'
  BY <1>18, ProcessesAssumption, NothingAssumption DEF RegisterRead, Goto, Inside
<1>19. ASSUME NEW t \in Tasks, ReaderAlive(t), LookUp(t), Goto(t, "rfound") PROVE Owners'
  BY <1>19, ProcessesAssumption, NothingAssumption DEF ReaderAlive, Goto, Inside,
    LookUp
<1>20. ASSUME NEW t \in Tasks, ReaderAlive(t), Make(t), Goto(t, "rfresh") PROVE Owners'
  BY <1>20, ProcessesAssumption, NothingAssumption DEF ReaderAlive, Goto, Inside,
    Make, Unused
<1>21. ASSUME NEW t \in Tasks, TakeLiving(t) PROVE Owners'
  BY <1>21, ProcessesAssumption, NothingAssumption DEF TakeLiving, Goto, Inside
<1>22. ASSUME NEW t \in Tasks, BeginLoad(t) PROVE Owners'
  BY <1>22, ProcessesAssumption, NothingAssumption DEF BeginLoad, Goto, Inside
<1>23. ASSUME NEW t \in Tasks, Loaded(t) PROVE Owners'
  BY <1>23, ProcessesAssumption, NothingAssumption DEF Loaded, Goto
<1>24. ASSUME NEW t \in Tasks, LoadFailed(t) PROVE Owners'
  BY <1>24, ProcessesAssumption, NothingAssumption DEF LoadFailed, Goto
<1>25. ASSUME NEW t \in Tasks, FinishRead(t) PROVE Owners'
  BY <1>25, ProcessesAssumption, NothingAssumption DEF FinishRead, Goto, Return,
    Settle, Deliver, Inside
<1>26. ASSUME NEW t \in Tasks, DropReading(t) PROVE Owners'
  BY <1>26, ProcessesAssumption, NothingAssumption DEF DropReading, Goto, Inside
<1>27. ASSUME NEW t \in Tasks, ResolveLiving(t) PROVE Owners'
  BY <1>27, ProcessesAssumption, NothingAssumption DEF ResolveLiving, Goto, Return,
    Settle, Deliver
<1>28. ASSUME NEW t \in Tasks, ReadFollowed(t) PROVE Owners'
  BY <1>28, ProcessesAssumption, NothingAssumption DEF ReadFollowed, Goto, Return
<1>29. ASSUME NEW t \in Tasks, Enumerated(t) PROVE Owners'
  BY <1>29, ProcessesAssumption, NothingAssumption DEF Enumerated, Goto, Return,
    Inside
<1>30. ASSUME NEW o \in Objects, Forget(o) PROVE Owners'
  BY <1>30, ProcessesAssumption, NothingAssumption DEF Forget
<1>31. ASSUME Wake PROVE Owners'
  BY <1>31, ProcessesAssumption, NothingAssumption DEF Wake, Goto
<1>32. ASSUME BeginScan PROVE Owners'
  BY <1>32, ProcessesAssumption, NothingAssumption DEF BeginScan, Goto, Inside
<1>33. ASSUME NEW c \in Checksums, SkipActive(c) PROVE Owners'
  BY <1>33, ProcessesAssumption, NothingAssumption DEF SkipActive
<1>34. ASSUME NEW c \in Checksums, Consider(c) PROVE Owners'
  BY <1>34, ProcessesAssumption, NothingAssumption DEF Consider, Goto
<1>35. ASSUME Prune PROVE Owners'
  BY <1>35, ProcessesAssumption, NothingAssumption DEF Prune, Goto, Inside
<1>36. ASSUME EndScan PROVE Owners'
  BY <1>36, ProcessesAssumption, NothingAssumption DEF EndScan, Goto
<1>37. CASE UNCHANGED vars
  BY <1>37 DEF vars, First, InQueue
<1> QED
  BY <1>1, <1>2, <1>3, <1>4, <1>5, <1>6, <1>7, <1>8, <1>9, <1>10, <1>11, <1>12,
    <1>13, <1>14, <1>15, <1>16, <1>17, <1>18, <1>19, <1>20, <1>21, <1>22, <1>23,
    <1>24, <1>25, <1>26, <1>27, <1>28, <1>29, <1>30, <1>31, <1>32, <1>33, <1>34,
    <1>35, <1>36, <1>37
    DEF Next, SweepStep, Sweep, Call, Step, Writer, Reader, WriterAlive, ReaderAlive

\* Answers stay where they belong.
LEMMA AnswersStep == IInv /\ Accounts /\ [Next]_vars => Answers'
<1> SUFFICES ASSUME IInv /\ Accounts, [Next]_vars PROVE Answers'
  OBVIOUS
<1> USE DEF TypeOK, IInv, Accounts, Located, Processes, locals, tables, objects, WriterLabels, ReaderLabels, GlobalLabels, Answers, OwnerOfAwaited
<1>1. ASSUME Start PROVE Answers'
  BY <1>1, ProcessesAssumption, NothingAssumption DEF Start
<1>2. ASSUME NEW p \in Processes, Arrive(p) PROVE Answers'
  BY <1>2, ProcessesAssumption, NothingAssumption DEF Arrive
<1>3. ASSUME NEW p \in Processes, HoldNext(p) PROVE Answers'
  BY <1>3, ProcessesAssumption, NothingAssumption DEF HoldNext, Goto, Inside
<1>4. ASSUME NEW t \in Tasks, NEW c \in Checksums, Add(t, c) PROVE Answers'
  BY <1>4, ProcessesAssumption, NothingAssumption DEF Add, Goto
<1>5. ASSUME NEW t \in Tasks, NEW c \in Checksums, Get(t, c) PROVE Answers'
  BY <1>5, ProcessesAssumption, NothingAssumption DEF Get, Goto
<1>6. ASSUME NEW t \in Tasks, EnumerateDisk(t) PROVE Answers'
  BY <1>6, ProcessesAssumption, NothingAssumption DEF EnumerateDisk, Goto
<1>7. ASSUME NEW t \in Tasks, EnterSlot(t) PROVE Answers'
  BY <1>7, ProcessesAssumption, NothingAssumption DEF EnterSlot, Goto, Inside
<1>8. ASSUME NEW t \in Tasks, RegisterRejected(t) PROVE Answers'
  BY <1>8, ProcessesAssumption, NothingAssumption DEF RegisterRejected, Goto,
    Return, Inside
<1>9. ASSUME NEW t \in Tasks, RegisterWrite(t) PROVE Answers'
  BY <1>9, ProcessesAssumption, NothingAssumption DEF RegisterWrite, Goto, Inside
<1>10. ASSUME NEW t \in Tasks, BeginFile(t) PROVE Answers'
  BY <1>10, ProcessesAssumption, NothingAssumption DEF BeginFile, Goto, Inside
<1>11. ASSUME NEW t \in Tasks, EndFile(t) PROVE Answers'
  BY <1>11, ProcessesAssumption, NothingAssumption DEF EndFile, Goto
<1>12. ASSUME NEW t \in Tasks, FinishWrite(t) PROVE Answers'
  BY <1>12, ProcessesAssumption, NothingAssumption DEF FinishWrite, Goto, Return,
    Settle, Inside
<1>13. ASSUME NEW t \in Tasks, WriterAlive(t), LookUp(t) PROVE Answers'
  BY <1>13, ProcessesAssumption, NothingAssumption DEF WriterAlive, Goto, Inside,
    LookUp
<1>14. ASSUME NEW t \in Tasks, WriterAlive(t), Make(t) PROVE Answers'
  BY <1>14, ProcessesAssumption, NothingAssumption DEF WriterAlive, Goto, Inside,
    Make, Unused
<1>15. ASSUME NEW t \in Tasks, CheckWriting(t) PROVE Answers'
  BY <1>15, ProcessesAssumption, NothingAssumption DEF CheckWriting, Goto, Inside
<1>16. ASSUME NEW t \in Tasks, WriteAwaited(t) PROVE Answers'
  BY <1>16, ProcessesAssumption, NothingAssumption DEF WriteAwaited, Goto
<1>17. ASSUME NEW t \in Tasks, JoinRead(t) PROVE Answers'
  BY <1>17, ProcessesAssumption, NothingAssumption DEF JoinRead, Goto, Inside
<1>18. ASSUME NEW t \in Tasks, RegisterRead(t) PROVE Answers'
  BY <1>18, ProcessesAssumption, NothingAssumption DEF RegisterRead, Goto, Inside
<1>19. ASSUME NEW t \in Tasks, ReaderAlive(t), LookUp(t), Goto(t, "rfound") PROVE Answers'
  BY <1>19, ProcessesAssumption, NothingAssumption DEF ReaderAlive, Goto, Inside,
    LookUp
<1>20. ASSUME NEW t \in Tasks, ReaderAlive(t), Make(t), Goto(t, "rfresh") PROVE Answers'
  BY <1>20, ProcessesAssumption, NothingAssumption DEF ReaderAlive, Goto, Inside,
    Make, Unused
<1>21. ASSUME NEW t \in Tasks, TakeLiving(t) PROVE Answers'
  BY <1>21, ProcessesAssumption, NothingAssumption DEF TakeLiving, Goto, Inside
<1>22. ASSUME NEW t \in Tasks, BeginLoad(t) PROVE Answers'
  BY <1>22, ProcessesAssumption, NothingAssumption DEF BeginLoad, Goto, Inside
<1>23. ASSUME NEW t \in Tasks, Loaded(t) PROVE Answers'
  BY <1>23, ProcessesAssumption, NothingAssumption DEF Loaded, Goto
<1>24. ASSUME NEW t \in Tasks, LoadFailed(t) PROVE Answers'
  BY <1>24, ProcessesAssumption, NothingAssumption DEF LoadFailed, Goto
<1>25. ASSUME NEW t \in Tasks, FinishRead(t) PROVE Answers'
  BY <1>25, ProcessesAssumption, NothingAssumption DEF FinishRead, Goto, Return,
    Settle, Deliver, Inside
<1>26. ASSUME NEW t \in Tasks, DropReading(t) PROVE Answers'
  BY <1>26, ProcessesAssumption, NothingAssumption DEF DropReading, Goto, Inside
<1>27. ASSUME NEW t \in Tasks, ResolveLiving(t) PROVE Answers'
  BY <1>27, ProcessesAssumption, NothingAssumption DEF ResolveLiving, Goto, Return,
    Settle, Deliver
<1>28. ASSUME NEW t \in Tasks, ReadFollowed(t) PROVE Answers'
  BY <1>28, ProcessesAssumption, NothingAssumption DEF ReadFollowed, Goto, Return
<1>29. ASSUME NEW t \in Tasks, Enumerated(t) PROVE Answers'
  BY <1>29, ProcessesAssumption, NothingAssumption DEF Enumerated, Goto, Return,
    Inside
<1>30. ASSUME NEW o \in Objects, Forget(o) PROVE Answers'
  BY <1>30, ProcessesAssumption, NothingAssumption DEF Forget
<1>31. ASSUME Wake PROVE Answers'
  BY <1>31, ProcessesAssumption, NothingAssumption DEF Wake, Goto
<1>32. ASSUME BeginScan PROVE Answers'
  BY <1>32, ProcessesAssumption, NothingAssumption DEF BeginScan, Goto, Inside
<1>33. ASSUME NEW c \in Checksums, SkipActive(c) PROVE Answers'
  BY <1>33, ProcessesAssumption, NothingAssumption DEF SkipActive
<1>34. ASSUME NEW c \in Checksums, Consider(c) PROVE Answers'
  BY <1>34, ProcessesAssumption, NothingAssumption DEF Consider, Goto
<1>35. ASSUME Prune PROVE Answers'
  BY <1>35, ProcessesAssumption, NothingAssumption DEF Prune, Goto, Inside
<1>36. ASSUME EndScan PROVE Answers'
  BY <1>36, ProcessesAssumption, NothingAssumption DEF EndScan, Goto
<1>37. CASE UNCHANGED vars
  BY <1>37 DEF vars, First, InQueue
<1> QED
  BY <1>1, <1>2, <1>3, <1>4, <1>5, <1>6, <1>7, <1>8, <1>9, <1>10, <1>11, <1>12,
    <1>13, <1>14, <1>15, <1>16, <1>17, <1>18, <1>19, <1>20, <1>21, <1>22, <1>23,
    <1>24, <1>25, <1>26, <1>27, <1>28, <1>29, <1>30, <1>31, <1>32, <1>33, <1>34,
    <1>35, <1>36, <1>37
    DEF Next, SweepStep, Sweep, Call, Step, Writer, Reader, WriterAlive, ReaderAlive

\* Whoever is awaited is about to settle.
LEMMA AwaitedStep == IInv /\ Accounts /\ [Next]_vars => OwnerOfAwaited'
<1> SUFFICES ASSUME IInv /\ Accounts, [Next]_vars PROVE OwnerOfAwaited'
  OBVIOUS
<1> USE DEF TypeOK, IInv, Accounts, Located, Processes, locals, tables, objects, WriterLabels, ReaderLabels, GlobalLabels, Owners, Registered, OwnerOfAwaited, WriteOwner, ReadOwner
<1>1. ASSUME Start PROVE OwnerOfAwaited'
  BY <1>1, ProcessesAssumption, NothingAssumption DEF Start
<1>2. ASSUME NEW p \in Processes, Arrive(p) PROVE OwnerOfAwaited'
  BY <1>2, ProcessesAssumption, NothingAssumption DEF Arrive
<1>3. ASSUME NEW p \in Processes, HoldNext(p) PROVE OwnerOfAwaited'
  <2>1. p \in Tasks \/ p = Sweeper
    BY DEF Processes
  <2>2. CASE Inside(p, "galive") /\ Goto(p, "greading")
    BY <1>3, <2>1, <2>2, ProcessesAssumption, NothingAssumption DEF HoldNext, Inside, Goto
  <2>3. CASE Inside(p, "greading") /\ Goto(p, "gwriting")
    BY <1>3, <2>1, <2>3, ProcessesAssumption, NothingAssumption DEF HoldNext, Inside, Goto
  <2> QED
    BY <1>3, <2>2, <2>3 DEF HoldNext
<1>4. ASSUME NEW t \in Tasks, NEW c \in Checksums, Add(t, c) PROVE OwnerOfAwaited'
  BY <1>4, ProcessesAssumption, NothingAssumption DEF Add, Goto
<1>5. ASSUME NEW t \in Tasks, NEW c \in Checksums, Get(t, c) PROVE OwnerOfAwaited'
  BY <1>5, ProcessesAssumption, NothingAssumption DEF Get, Goto
<1>6. ASSUME NEW t \in Tasks, EnumerateDisk(t) PROVE OwnerOfAwaited'
  BY <1>6, ProcessesAssumption, NothingAssumption DEF EnumerateDisk, Goto
<1>7. ASSUME NEW t \in Tasks, EnterSlot(t) PROVE OwnerOfAwaited'
  BY <1>7, ProcessesAssumption, NothingAssumption DEF EnterSlot, Goto, Inside
<1>8. ASSUME NEW t \in Tasks, RegisterRejected(t) PROVE OwnerOfAwaited'
  BY <1>8, ProcessesAssumption, NothingAssumption DEF RegisterRejected, Goto,
    Return, Inside
<1>9. ASSUME NEW t \in Tasks, RegisterWrite(t) PROVE OwnerOfAwaited'
  BY <1>9, ProcessesAssumption, NothingAssumption DEF RegisterWrite, Goto, Inside
<1>10. ASSUME NEW t \in Tasks, BeginFile(t) PROVE OwnerOfAwaited'
  BY <1>10, ProcessesAssumption, NothingAssumption DEF BeginFile, Goto, Inside
<1>11. ASSUME NEW t \in Tasks, EndFile(t) PROVE OwnerOfAwaited'
  BY <1>11, ProcessesAssumption, NothingAssumption DEF EndFile, Goto
<1>12. ASSUME NEW t \in Tasks, FinishWrite(t) PROVE OwnerOfAwaited'
  BY <1>12, ProcessesAssumption, NothingAssumption DEF FinishWrite, Goto, Return,
    Settle, Inside
<1>13. ASSUME NEW t \in Tasks, WriterAlive(t), LookUp(t) PROVE OwnerOfAwaited'
  BY <1>13, ProcessesAssumption, NothingAssumption DEF WriterAlive, Goto, Inside,
    LookUp
<1>14. ASSUME NEW t \in Tasks, WriterAlive(t), Make(t) PROVE OwnerOfAwaited'
  BY <1>14, ProcessesAssumption, NothingAssumption DEF WriterAlive, Goto, Inside,
    Make, Unused
<1>15. ASSUME NEW t \in Tasks, CheckWriting(t) PROVE OwnerOfAwaited'
  BY <1>15, ProcessesAssumption, NothingAssumption DEF CheckWriting, Goto, Inside
<1>16. ASSUME NEW t \in Tasks, WriteAwaited(t) PROVE OwnerOfAwaited'
  BY <1>16, ProcessesAssumption, NothingAssumption DEF WriteAwaited, Goto
<1>17. ASSUME NEW t \in Tasks, JoinRead(t) PROVE OwnerOfAwaited'
  BY <1>17, ProcessesAssumption, NothingAssumption DEF JoinRead, Goto, Inside
<1>18. ASSUME NEW t \in Tasks, RegisterRead(t) PROVE OwnerOfAwaited'
  BY <1>18, ProcessesAssumption, NothingAssumption DEF RegisterRead, Goto, Inside
<1>19. ASSUME NEW t \in Tasks, ReaderAlive(t), LookUp(t), Goto(t, "rfound") PROVE OwnerOfAwaited'
  BY <1>19, ProcessesAssumption, NothingAssumption DEF ReaderAlive, Goto, Inside,
    LookUp
<1>20. ASSUME NEW t \in Tasks, ReaderAlive(t), Make(t), Goto(t, "rfresh") PROVE OwnerOfAwaited'
  BY <1>20, ProcessesAssumption, NothingAssumption DEF ReaderAlive, Goto, Inside,
    Make, Unused
<1>21. ASSUME NEW t \in Tasks, TakeLiving(t) PROVE OwnerOfAwaited'
  BY <1>21, ProcessesAssumption, NothingAssumption DEF TakeLiving, Goto, Inside
<1>22. ASSUME NEW t \in Tasks, BeginLoad(t) PROVE OwnerOfAwaited'
  BY <1>22, ProcessesAssumption, NothingAssumption DEF BeginLoad, Goto, Inside
<1>23. ASSUME NEW t \in Tasks, Loaded(t) PROVE OwnerOfAwaited'
  BY <1>23, ProcessesAssumption, NothingAssumption DEF Loaded, Goto
<1>24. ASSUME NEW t \in Tasks, LoadFailed(t) PROVE OwnerOfAwaited'
  BY <1>24, ProcessesAssumption, NothingAssumption DEF LoadFailed, Goto
<1>25. ASSUME NEW t \in Tasks, FinishRead(t) PROVE OwnerOfAwaited'
  BY <1>25, ProcessesAssumption, NothingAssumption DEF FinishRead, Goto, Return,
    Settle, Deliver, Inside
<1>26. ASSUME NEW t \in Tasks, DropReading(t) PROVE OwnerOfAwaited'
  BY <1>26, ProcessesAssumption, NothingAssumption DEF DropReading, Goto, Inside
<1>27. ASSUME NEW t \in Tasks, ResolveLiving(t) PROVE OwnerOfAwaited'
  BY <1>27, ProcessesAssumption, NothingAssumption DEF ResolveLiving, Goto, Return,
    Settle, Deliver
<1>28. ASSUME NEW t \in Tasks, ReadFollowed(t) PROVE OwnerOfAwaited'
  BY <1>28, ProcessesAssumption, NothingAssumption DEF ReadFollowed, Goto, Return
<1>29. ASSUME NEW t \in Tasks, Enumerated(t) PROVE OwnerOfAwaited'
  BY <1>29, ProcessesAssumption, NothingAssumption DEF Enumerated, Goto, Return,
    Inside
<1>30. ASSUME NEW o \in Objects, Forget(o) PROVE OwnerOfAwaited'
  BY <1>30, ProcessesAssumption, NothingAssumption DEF Forget
<1>31. ASSUME Wake PROVE OwnerOfAwaited'
  BY <1>31, ProcessesAssumption, NothingAssumption DEF Wake, Goto
<1>32. ASSUME BeginScan PROVE OwnerOfAwaited'
  BY <1>32, ProcessesAssumption, NothingAssumption DEF BeginScan, Goto, Inside
<1>33. ASSUME NEW c \in Checksums, SkipActive(c) PROVE OwnerOfAwaited'
  BY <1>33, ProcessesAssumption, NothingAssumption DEF SkipActive
<1>34. ASSUME NEW c \in Checksums, Consider(c) PROVE OwnerOfAwaited'
  BY <1>34, ProcessesAssumption, NothingAssumption DEF Consider, Goto
<1>35. ASSUME Prune PROVE OwnerOfAwaited'
  BY <1>35, ProcessesAssumption, NothingAssumption DEF Prune, Goto, Inside
<1>36. ASSUME EndScan PROVE OwnerOfAwaited'
  BY <1>36, ProcessesAssumption, NothingAssumption DEF EndScan, Goto
<1>37. CASE UNCHANGED vars
  BY <1>37 DEF vars, First, InQueue
<1> QED
  BY <1>1, <1>2, <1>3, <1>4, <1>5, <1>6, <1>7, <1>8, <1>9, <1>10, <1>11, <1>12,
    <1>13, <1>14, <1>15, <1>16, <1>17, <1>18, <1>19, <1>20, <1>21, <1>22, <1>23,
    <1>24, <1>25, <1>26, <1>27, <1>28, <1>29, <1>30, <1>31, <1>32, <1>33, <1>34,
    <1>35, <1>36, <1>37
    DEF Next, SweepStep, Sweep, Call, Step, Writer, Reader, WriterAlive, ReaderAlive

\* Records keep leading to entries of their checksum.
LEMMA LinkedStep == IInv /\ Accounts /\ [Next]_vars => LinkedLiving'
<1> SUFFICES ASSUME IInv /\ Accounts, [Next]_vars PROVE LinkedLiving'
  OBVIOUS
<1> USE DEF TypeOK, IInv, Accounts, Located, Processes, locals, tables, objects, WriterLabels, ReaderLabels, GlobalLabels, LinkedLiving, RecordsAgree, RecordAgreement, LivingLinked, RecordUser
<1>1. ASSUME Start PROVE LinkedLiving'
  BY <1>1, ProcessesAssumption, NothingAssumption DEF Start
<1>2. ASSUME NEW p \in Processes, Arrive(p) PROVE LinkedLiving'
  BY <1>2, ProcessesAssumption, NothingAssumption DEF Arrive
<1>3. ASSUME NEW p \in Processes, HoldNext(p) PROVE LinkedLiving'
  BY <1>3, ProcessesAssumption, NothingAssumption DEF HoldNext, Goto, Inside
<1>4. ASSUME NEW t \in Tasks, NEW c \in Checksums, Add(t, c) PROVE LinkedLiving'
  BY <1>4, ProcessesAssumption, NothingAssumption DEF Add, Goto
<1>5. ASSUME NEW t \in Tasks, NEW c \in Checksums, Get(t, c) PROVE LinkedLiving'
  BY <1>5, ProcessesAssumption, NothingAssumption DEF Get, Goto
<1>6. ASSUME NEW t \in Tasks, EnumerateDisk(t) PROVE LinkedLiving'
  BY <1>6, ProcessesAssumption, NothingAssumption DEF EnumerateDisk, Goto
<1>7. ASSUME NEW t \in Tasks, EnterSlot(t) PROVE LinkedLiving'
  BY <1>7, ProcessesAssumption, NothingAssumption DEF EnterSlot, Goto, Inside
<1>8. ASSUME NEW t \in Tasks, RegisterRejected(t) PROVE LinkedLiving'
  BY <1>8, ProcessesAssumption, NothingAssumption DEF RegisterRejected, Goto,
    Return, Inside
<1>9. ASSUME NEW t \in Tasks, RegisterWrite(t) PROVE LinkedLiving'
  BY <1>9, ProcessesAssumption, NothingAssumption DEF RegisterWrite, Goto, Inside
<1>10. ASSUME NEW t \in Tasks, BeginFile(t) PROVE LinkedLiving'
  BY <1>10, ProcessesAssumption, NothingAssumption DEF BeginFile, Goto, Inside
<1>11. ASSUME NEW t \in Tasks, EndFile(t) PROVE LinkedLiving'
  BY <1>11, ProcessesAssumption, NothingAssumption DEF EndFile, Goto
<1>12. ASSUME NEW t \in Tasks, FinishWrite(t) PROVE LinkedLiving'
  BY <1>12, ProcessesAssumption, NothingAssumption DEF FinishWrite, Goto, Return,
    Settle, Inside
<1>13. ASSUME NEW t \in Tasks, WriterAlive(t), LookUp(t) PROVE LinkedLiving'
  BY <1>13, ProcessesAssumption, NothingAssumption DEF WriterAlive, Goto, Inside,
    LookUp
<1>14. ASSUME NEW t \in Tasks, WriterAlive(t), Make(t) PROVE LinkedLiving'
  BY <1>14, ProcessesAssumption, NothingAssumption DEF WriterAlive, Goto, Inside,
    Make, Unused
<1>15. ASSUME NEW t \in Tasks, CheckWriting(t) PROVE LinkedLiving'
  BY <1>15, ProcessesAssumption, NothingAssumption DEF CheckWriting, Goto, Inside
<1>16. ASSUME NEW t \in Tasks, WriteAwaited(t) PROVE LinkedLiving'
  BY <1>16, ProcessesAssumption, NothingAssumption DEF WriteAwaited, Goto
<1>17. ASSUME NEW t \in Tasks, JoinRead(t) PROVE LinkedLiving'
  BY <1>17, ProcessesAssumption, NothingAssumption DEF JoinRead, Goto, Inside
<1>18. ASSUME NEW t \in Tasks, RegisterRead(t) PROVE LinkedLiving'
  BY <1>18, ProcessesAssumption, NothingAssumption DEF RegisterRead, Goto, Inside
<1>19. ASSUME NEW t \in Tasks, ReaderAlive(t), LookUp(t), Goto(t, "rfound") PROVE LinkedLiving'
  BY <1>19, ProcessesAssumption, NothingAssumption DEF ReaderAlive, Goto, Inside,
    LookUp
<1>20. ASSUME NEW t \in Tasks, ReaderAlive(t), Make(t), Goto(t, "rfresh") PROVE LinkedLiving'
  BY <1>20, ProcessesAssumption, NothingAssumption DEF ReaderAlive, Goto, Inside,
    Make, Unused
<1>21. ASSUME NEW t \in Tasks, TakeLiving(t) PROVE LinkedLiving'
  BY <1>21, ProcessesAssumption, NothingAssumption DEF TakeLiving, Goto, Inside
<1>22. ASSUME NEW t \in Tasks, BeginLoad(t) PROVE LinkedLiving'
  BY <1>22, ProcessesAssumption, NothingAssumption DEF BeginLoad, Goto, Inside
<1>23. ASSUME NEW t \in Tasks, Loaded(t) PROVE LinkedLiving'
  BY <1>23, ProcessesAssumption, NothingAssumption DEF Loaded, Goto
<1>24. ASSUME NEW t \in Tasks, LoadFailed(t) PROVE LinkedLiving'
  BY <1>24, ProcessesAssumption, NothingAssumption DEF LoadFailed, Goto
<1>25. ASSUME NEW t \in Tasks, FinishRead(t) PROVE LinkedLiving'
  BY <1>25, ProcessesAssumption, NothingAssumption DEF FinishRead, Goto, Return,
    Settle, Deliver, Inside
<1>26. ASSUME NEW t \in Tasks, DropReading(t) PROVE LinkedLiving'
  BY <1>26, ProcessesAssumption, NothingAssumption DEF DropReading, Goto, Inside
<1>27. ASSUME NEW t \in Tasks, ResolveLiving(t) PROVE LinkedLiving'
  BY <1>27, ProcessesAssumption, NothingAssumption DEF ResolveLiving, Goto, Return,
    Settle, Deliver
<1>28. ASSUME NEW t \in Tasks, ReadFollowed(t) PROVE LinkedLiving'
  BY <1>28, ProcessesAssumption, NothingAssumption DEF ReadFollowed, Goto, Return
<1>29. ASSUME NEW t \in Tasks, Enumerated(t) PROVE LinkedLiving'
  BY <1>29, ProcessesAssumption, NothingAssumption DEF Enumerated, Goto, Return,
    Inside
<1>30. ASSUME NEW o \in Objects, Forget(o) PROVE LinkedLiving'
  BY <1>30, ProcessesAssumption, NothingAssumption DEF Forget
<1>31. ASSUME Wake PROVE LinkedLiving'
  BY <1>31, ProcessesAssumption, NothingAssumption DEF Wake, Goto
<1>32. ASSUME BeginScan PROVE LinkedLiving'
  BY <1>32, ProcessesAssumption, NothingAssumption DEF BeginScan, Goto, Inside
<1>33. ASSUME NEW c \in Checksums, SkipActive(c) PROVE LinkedLiving'
  BY <1>33, ProcessesAssumption, NothingAssumption DEF SkipActive
<1>34. ASSUME NEW c \in Checksums, Consider(c) PROVE LinkedLiving'
  BY <1>34, ProcessesAssumption, NothingAssumption DEF Consider, Goto
<1>35. ASSUME Prune PROVE LinkedLiving'
  BY <1>35, ProcessesAssumption, NothingAssumption DEF Prune, Goto, Inside
<1>36. ASSUME EndScan PROVE LinkedLiving'
  BY <1>36, ProcessesAssumption, NothingAssumption DEF EndScan, Goto
<1>37. CASE UNCHANGED vars
  BY <1>37 DEF vars, First, InQueue
<1> QED
  BY <1>1, <1>2, <1>3, <1>4, <1>5, <1>6, <1>7, <1>8, <1>9, <1>10, <1>11, <1>12,
    <1>13, <1>14, <1>15, <1>16, <1>17, <1>18, <1>19, <1>20, <1>21, <1>22, <1>23,
    <1>24, <1>25, <1>26, <1>27, <1>28, <1>29, <1>30, <1>31, <1>32, <1>33, <1>34,
    <1>35, <1>36, <1>37
    DEF Next, SweepStep, Sweep, Call, Step, Writer, Reader, WriterAlive, ReaderAlive

\* A fiber that gets in line takes nobody's turn.
LEMMA ArriveKeeps ==
    ASSUME IInv, NEW p \in Processes, Arrive(p),
           NEW u \in Processes, NEW g \in Gates, First(u, g)
    PROVE  First(u, g)'
<1> DEFINE h == GateOf(p)
<1>1. ~ InQueue(p, h) /\ queue' = [queue EXCEPT ![h] = Append(@, p)]
  BY DEF Arrive
<1> HIDE DEF h
<1>2. CASE h \notin Gates
  <2>1. queue' = queue
    BY <1>1, <1>2 DEF IInv, TypeOK
  <2> QED
    BY <2>1 DEF First
<1>3. CASE h \in Gates
  BY <1>1, <1>3, ArriveFacts DEF IInv
<1> QED
  BY <1>2, <1>3

\* A fiber that clears guards takes nobody else's turn, nor its own elsewhere.
LEMMA ClearKeeps ==
    ASSUME IInv, NEW p \in Processes, NEW G, queue' = Cleared(p, G),
           NEW u \in Processes, NEW g \in Gates, First(u, g), u # p \/ g \notin G
    PROVE  First(u, g)'
  BY ClearedFacts DEF IInv

\* Clearing guards on other gates than its slot leaves every fiber its slot.
LEMMA ClearedSlots ==
    ASSUME IInv, SlotsKept, NEW p \in Processes, NEW G, queue' = Cleared(p, G),
           \A u \in Tasks \ {p} : pc'[u] = pc[u] /\ slot'[u] = slot[u],
           p \in Tasks /\ pc'[p] \in SlotUser =>
                slot'[p] = slot[p] /\ pc[p] \in SlotUser /\ slot[p] \notin G
    PROVE  SlotsKept'
<1> SUFFICES ASSUME NEW u \in Tasks, (pc[u] \in SlotUser)' PROVE First(u, slot[u])'
  BY DEF SlotsKept
<1>1. /\ slot'[u] = slot[u] /\ pc[u] \in SlotUser /\ (u # p \/ slot[u] \notin G)
  OBVIOUS
<1> DEFINE s == slot[u]
<1>2. First(u, s) /\ s \in Gates /\ u \in Processes
  BY <1>1 DEF SlotsKept, IInv, Located, SlotUser, Gates, Processes
<1>3. queue'[s] # <<>> /\ Head(queue'[s]) = u
  BY <1>1, <1>2, ClearKeeps DEF First
<1> QED
  BY <1>1, <1>3 DEF First

LEMMA SlotsStep == IInv /\ Accounts /\ [Next]_vars => SlotsKept'
<1> SUFFICES ASSUME IInv /\ Accounts, [Next]_vars PROVE SlotsKept'
  OBVIOUS
<1> USE DEF TypeOK, IInv, Accounts, Located, SlotsKept, SlotUser, Processes, Gates, GlobalGates, locals, tables, objects, WriterLabels, ReaderLabels, GlobalLabels
<1>1. ASSUME Start PROVE SlotsKept'
  BY <1>1, SameFacts, ProcessesAssumption DEF Start
<1>2. ASSUME NEW p \in Processes, Arrive(p) PROVE SlotsKept'
  BY <1>2, ArriveKeeps, ProcessesAssumption DEF Arrive
<1>3. ASSUME NEW p \in Processes, HoldNext(p) PROVE SlotsKept'
  BY <1>3, SameFacts, ProcessesAssumption DEF HoldNext, Goto, Inside
<1>4. ASSUME NEW t \in Tasks, NEW c \in Checksums, Add(t, c) PROVE SlotsKept'
  BY <1>4, SameFacts, ProcessesAssumption DEF Add, Goto
<1>5. ASSUME NEW t \in Tasks, NEW c \in Checksums, Get(t, c) PROVE SlotsKept'
  BY <1>5, SameFacts, ProcessesAssumption DEF Get, Goto
<1>6. ASSUME NEW t \in Tasks, EnumerateDisk(t) PROVE SlotsKept'
  BY <1>6, SameFacts, ProcessesAssumption DEF EnumerateDisk, Goto
<1>7. ASSUME NEW t \in Tasks, EnterSlot(t) PROVE SlotsKept'
  <2>1. First(t, slot[t]) /\ queue' = queue
    BY <1>7 DEF EnterSlot, Inside, GateOf
  <2> QED
    BY <1>7, <2>1, SameFacts DEF EnterSlot, Goto
<1>8. ASSUME NEW t \in Tasks, RegisterRejected(t) PROVE SlotsKept'
  <2>1. queue' = Cleared(t, Gates)
    BY <1>8 DEF RegisterRejected, Goto, Return, Inside
  <2> HIDE DEF SlotsKept
  <2> QED
    BY <1>8, <2>1, ClearedSlots, GatesAssumption DEF RegisterRejected, Goto, Return, Inside
<1>9. ASSUME NEW t \in Tasks, RegisterWrite(t) PROVE SlotsKept'
  <2>1. queue' = Cleared(t, {"writing"})
    BY <1>9 DEF RegisterWrite, Goto, Inside
  <2> HIDE DEF SlotsKept
  <2> QED
    BY <1>9, <2>1, ClearedSlots, GatesAssumption DEF RegisterWrite, Goto, Inside
<1>10. ASSUME NEW t \in Tasks, BeginFile(t) PROVE SlotsKept'
  BY <1>10, SameFacts, ProcessesAssumption DEF BeginFile, Goto, Inside
<1>11. ASSUME NEW t \in Tasks, EndFile(t) PROVE SlotsKept'
  <2>1. queue' = Cleared(t, {slot[t]})
    BY <1>11 DEF EndFile, Goto
  <2> HIDE DEF SlotsKept
  <2> QED
    BY <1>11, <2>1, ClearedSlots, GatesAssumption DEF EndFile, Goto
<1>12. ASSUME NEW t \in Tasks, FinishWrite(t) PROVE SlotsKept'
  <2>1. queue' = Cleared(t, Gates)
    BY <1>12 DEF FinishWrite, Goto, Return, Settle, Inside
  <2> HIDE DEF SlotsKept
  <2> QED
    BY <1>12, <2>1, ClearedSlots, GatesAssumption DEF FinishWrite, Goto, Return, Settle, Inside
<1>13. ASSUME NEW t \in Tasks, WriterAlive(t), LookUp(t) PROVE SlotsKept'
  <2>1. queue' = Cleared(t, {"alive"})
    BY <1>13 DEF WriterAlive, Goto, Inside, LookUp
  <2> HIDE DEF SlotsKept
  <2> QED
    BY <1>13, <2>1, ClearedSlots, GatesAssumption DEF WriterAlive, Goto, Inside, LookUp
<1>14. ASSUME NEW t \in Tasks, WriterAlive(t), Make(t) PROVE SlotsKept'
  <2>1. queue' = Cleared(t, {"alive"})
    BY <1>14 DEF WriterAlive, Goto, Inside, Make, Unused
  <2> HIDE DEF SlotsKept
  <2> QED
    BY <1>14, <2>1, ClearedSlots, GatesAssumption DEF WriterAlive, Goto, Inside, Make, Unused
<1>15. ASSUME NEW t \in Tasks, CheckWriting(t) PROVE SlotsKept'
  <2>1. queue' = Cleared(t, {"writing"})
    BY <1>15 DEF CheckWriting, Goto, Inside
  <2> HIDE DEF SlotsKept
  <2> QED
    BY <1>15, <2>1, ClearedSlots, GatesAssumption DEF CheckWriting, Goto, Inside
<1>16. ASSUME NEW t \in Tasks, WriteAwaited(t) PROVE SlotsKept'
  BY <1>16, SameFacts, ProcessesAssumption DEF WriteAwaited, Goto
<1>17. ASSUME NEW t \in Tasks, JoinRead(t) PROVE SlotsKept'
  <2>1. queue' = Cleared(t, {"reading"})
    BY <1>17 DEF JoinRead, Goto, Inside
  <2> HIDE DEF SlotsKept
  <2> QED
    BY <1>17, <2>1, ClearedSlots, GatesAssumption DEF JoinRead, Goto, Inside
<1>18. ASSUME NEW t \in Tasks, RegisterRead(t) PROVE SlotsKept'
  <2>1. queue' = Cleared(t, {"reading"})
    BY <1>18 DEF RegisterRead, Goto, Inside
  <2> HIDE DEF SlotsKept
  <2> QED
    BY <1>18, <2>1, ClearedSlots, GatesAssumption DEF RegisterRead, Goto, Inside
<1>19. ASSUME NEW t \in Tasks, ReaderAlive(t), LookUp(t), Goto(t, "rfound") PROVE SlotsKept'
  <2>1. queue' = Cleared(t, {"alive"})
    BY <1>19 DEF ReaderAlive, Goto, Inside, LookUp
  <2> HIDE DEF SlotsKept
  <2> QED
    BY <1>19, <2>1, ClearedSlots, GatesAssumption DEF ReaderAlive, Goto, Inside, LookUp
<1>20. ASSUME NEW t \in Tasks, ReaderAlive(t), Make(t), Goto(t, "rfresh") PROVE SlotsKept'
  <2>1. queue' = Cleared(t, {"alive"})
    BY <1>20 DEF ReaderAlive, Goto, Inside, Make, Unused
  <2> HIDE DEF SlotsKept
  <2> QED
    BY <1>20, <2>1, ClearedSlots, GatesAssumption DEF ReaderAlive, Goto, Inside, Make, Unused
<1>21. ASSUME NEW t \in Tasks, TakeLiving(t) PROVE SlotsKept'
  <2>1. queue' = Cleared(t, {living[t]})
    BY <1>21 DEF TakeLiving, Goto, Inside
  <2> HIDE DEF SlotsKept
  <2> QED
    BY <1>21, <2>1, ClearedSlots, GatesAssumption DEF TakeLiving, Goto, Inside
<1>22. ASSUME NEW t \in Tasks, BeginLoad(t) PROVE SlotsKept'
  BY <1>22, SameFacts, ProcessesAssumption DEF BeginLoad, Goto, Inside
<1>23. ASSUME NEW t \in Tasks, Loaded(t) PROVE SlotsKept'
  BY <1>23, SameFacts, ProcessesAssumption DEF Loaded, Goto
<1>24. ASSUME NEW t \in Tasks, LoadFailed(t) PROVE SlotsKept'
  BY <1>24, SameFacts, ProcessesAssumption DEF LoadFailed, Goto
<1>25. ASSUME NEW t \in Tasks, FinishRead(t) PROVE SlotsKept'
  <2>1. queue' = Cleared(t, Gates)
    BY <1>25 DEF FinishRead, Goto, Return, Settle, Deliver, Inside
  <2> HIDE DEF SlotsKept
  <2> QED
    BY <1>25, <2>1, ClearedSlots, GatesAssumption DEF FinishRead, Goto, Return, Settle, Deliver, Inside
<1>26. ASSUME NEW t \in Tasks, DropReading(t) PROVE SlotsKept'
  <2>1. queue' = Cleared(t, {"reading"})
    BY <1>26 DEF DropReading, Goto, Inside
  <2> HIDE DEF SlotsKept
  <2> QED
    BY <1>26, <2>1, ClearedSlots, GatesAssumption DEF DropReading, Goto, Inside
<1>27. ASSUME NEW t \in Tasks, ResolveLiving(t) PROVE SlotsKept'
  <2>1. queue' = Cleared(t, Gates)
    BY <1>27 DEF ResolveLiving, Goto, Return, Settle, Deliver
  <2> HIDE DEF SlotsKept
  <2> QED
    BY <1>27, <2>1, ClearedSlots, GatesAssumption DEF ResolveLiving, Goto, Return, Settle, Deliver
<1>28. ASSUME NEW t \in Tasks, ReadFollowed(t) PROVE SlotsKept'
  <2>1. queue' = Cleared(t, Gates)
    BY <1>28 DEF ReadFollowed, Goto, Return
  <2> HIDE DEF SlotsKept
  <2> QED
    BY <1>28, <2>1, ClearedSlots, GatesAssumption DEF ReadFollowed, Goto, Return
<1>29. ASSUME NEW t \in Tasks, Enumerated(t) PROVE SlotsKept'
  <2>1. queue' = Cleared(t, Gates)
    BY <1>29 DEF Enumerated, Goto, Return, Inside
  <2> HIDE DEF SlotsKept
  <2> QED
    BY <1>29, <2>1, ClearedSlots, GatesAssumption DEF Enumerated, Goto, Return, Inside
<1>30. ASSUME NEW o \in Objects, Forget(o) PROVE SlotsKept'
  BY <1>30, SameFacts, ProcessesAssumption DEF Forget
<1>31. ASSUME Wake PROVE SlotsKept'
  BY <1>31, SameFacts, ProcessesAssumption DEF Wake, Goto
<1>32. ASSUME BeginScan PROVE SlotsKept'
  BY <1>32, SameFacts, ProcessesAssumption DEF BeginScan, Goto, Inside
<1>33. ASSUME NEW c \in Checksums, SkipActive(c) PROVE SlotsKept'
  BY <1>33, SameFacts, ProcessesAssumption DEF SkipActive
<1>34. ASSUME NEW c \in Checksums, Consider(c) PROVE SlotsKept'
  BY <1>34, SameFacts, ProcessesAssumption DEF Consider, Goto
<1>35. ASSUME Prune PROVE SlotsKept'
  <2>1. queue' = Cleared(Sweeper, {alive[cs[Sweeper]]}) /\ Sweeper \in Processes
    BY <1>35 DEF Prune, Goto, Inside
  <2> HIDE DEF SlotsKept
  <2> QED
    BY <1>35, <2>1, ClearedSlots, ProcessesAssumption DEF Prune, Goto, Inside
<1>36. ASSUME EndScan PROVE SlotsKept'
  <2>1. queue' = Cleared(Sweeper, Gates) /\ Sweeper \in Processes
    BY <1>36 DEF EndScan, Goto
  <2> HIDE DEF SlotsKept
  <2> QED
    BY <1>36, <2>1, ClearedSlots, ProcessesAssumption DEF EndScan, Goto
<1>37. CASE UNCHANGED vars
  BY <1>37 DEF vars, First, InQueue
<1> QED
  BY <1>1, <1>2, <1>3, <1>4, <1>5, <1>6, <1>7, <1>8, <1>9, <1>10, <1>11, <1>12,
    <1>13, <1>14, <1>15, <1>16, <1>17, <1>18, <1>19, <1>20, <1>21, <1>22, <1>23,
    <1>24, <1>25, <1>26, <1>27, <1>28, <1>29, <1>30, <1>31, <1>32, <1>33, <1>34,
    <1>35, <1>36, <1>37
    DEF Next, SweepStep, Sweep, Call, Step, Writer, Reader, WriterAlive, ReaderAlive

\* A step that changes no counter and no one's waiting keeps the count.
LEMMA CountKept ==
    ASSUME Counted, queued' = queued,
           \A t \in Tasks, s \in Slots :
                (pc'[t] = "wslot" /\ slot'[t] = s) <=> (pc[t] = "wslot" /\ slot[t] = s)
    PROVE  Counted'
<1>1. \A s \in Slots : WaitFor(s)' = WaitFor(s)
  BY DEF WaitFor
<1> QED
  BY <1>1 DEF Counted, QueuedCount

\* A step about one slot keeps the count when its counter follows.
LEMMA CountMoved ==
    ASSUME Counted, NEW s \in Slots, IsFiniteSet(WaitFor(s)'),
           queued'[s] = Cardinality(WaitFor(s)'),
           \A r \in Slots \ {s} : WaitFor(r)' = WaitFor(r) /\ queued'[r] = queued[r]
    PROVE  Counted'
  BY DEF Counted, QueuedCount

\* Counters and lines change together.
LEMMA CountedStep == IInv /\ Accounts /\ [Next]_vars => Counted'
<1> SUFFICES ASSUME IInv /\ Accounts, [Next]_vars PROVE Counted'
  OBVIOUS
<1> USE DEF TypeOK, IInv, Accounts, Located, Processes, locals, tables, objects, WriterLabels, ReaderLabels, GlobalLabels
<1>1. ASSUME Start PROVE Counted'
  BY <1>1, CountKept, ProcessesAssumption DEF Start
<1>2. ASSUME NEW p \in Processes, Arrive(p) PROVE Counted'
  BY <1>2, CountKept, ProcessesAssumption DEF Arrive
<1>3. ASSUME NEW p \in Processes, HoldNext(p) PROVE Counted'
  BY <1>3, CountKept, ProcessesAssumption DEF HoldNext, Goto, Inside
<1>4. ASSUME NEW t \in Tasks, NEW c \in Checksums, Add(t, c) PROVE Counted'
  <2>1. PICK s \in Slots : /\ slot' = [slot EXCEPT ![t] = s]
                        /\ queued' = [queued EXCEPT ![s] = queued[s] + 1]
    BY <1>4 DEF Add
  <2>2. t \notin WaitFor(s) /\ pc' = [pc EXCEPT ![t] = "wslot"] /\ pc[t] = "idle"
    BY <1>4 DEF Add, Goto, WaitFor
  <2>3. WaitFor(s)' = WaitFor(s) \cup {t}
    BY <2>1, <2>2 DEF WaitFor
  <2>4. \A r \in Slots \ {s} : WaitFor(r)' = WaitFor(r) /\ queued'[r] = queued[r]
    BY <2>1, <2>2 DEF WaitFor
  <2>5. queued'[s] = queued[s] + 1
    BY <2>1
  <2>6. IsFiniteSet(WaitFor(s)) /\ queued[s] = Cardinality(WaitFor(s))
    BY DEF Counted, QueuedCount
  <2>7. /\ IsFiniteSet(WaitFor(s) \cup {t})
        /\ Cardinality(WaitFor(s) \cup {t}) = Cardinality(WaitFor(s)) + 1
    BY <2>2, <2>6, FS_AddElement
  <2>8. IsFiniteSet(WaitFor(s)') /\ queued'[s] = Cardinality(WaitFor(s)')
    BY <2>3, <2>5, <2>6, <2>7
  <2> QED
    BY <2>4, <2>8, CountMoved
<1>5. ASSUME NEW t \in Tasks, NEW c \in Checksums, Get(t, c) PROVE Counted'
  BY <1>5, CountKept, ProcessesAssumption DEF Get, Goto
<1>6. ASSUME NEW t \in Tasks, EnumerateDisk(t) PROVE Counted'
  BY <1>6, CountKept, ProcessesAssumption DEF EnumerateDisk, Goto
<1>7. ASSUME NEW t \in Tasks, EnterSlot(t) PROVE Counted'
  <2>1. PICK s \in Slots : s = slot[t]
    BY <1>7 DEF EnterSlot, Inside
  <2>2. queued' = [queued EXCEPT ![s] = queued[s] - 1] /\ slot' = slot
    BY <1>7, <2>1 DEF EnterSlot, Inside
  <2>3. t \in WaitFor(s) /\ pc' = [pc EXCEPT ![t] = "wreg"]
    BY <1>7, <2>1 DEF EnterSlot, Inside, Goto, WaitFor
  <2>4. WaitFor(s)' = WaitFor(s) \ {t}
    BY <2>2, <2>3 DEF WaitFor
  <2>5. \A r \in Slots \ {s} : WaitFor(r)' = WaitFor(r) /\ queued'[r] = queued[r]
    BY <2>1, <2>2, <2>3 DEF WaitFor
  <2>6. queued'[s] = queued[s] - 1
    BY <2>2
  <2>7. IsFiniteSet(WaitFor(s)) /\ queued[s] = Cardinality(WaitFor(s))
    BY DEF Counted, QueuedCount
  <2>8. /\ IsFiniteSet(WaitFor(s) \ {t})
        /\ Cardinality(WaitFor(s) \ {t}) = Cardinality(WaitFor(s)) - 1
    BY <2>3, <2>7, FS_RemoveElement
  <2>9. IsFiniteSet(WaitFor(s)') /\ queued'[s] = Cardinality(WaitFor(s)')
    BY <2>4, <2>6, <2>7, <2>8
  <2> QED
    BY <2>5, <2>9, CountMoved
<1>8. ASSUME NEW t \in Tasks, RegisterRejected(t) PROVE Counted'
  BY <1>8, CountKept, ProcessesAssumption DEF RegisterRejected, Goto, Return, Inside
<1>9. ASSUME NEW t \in Tasks, RegisterWrite(t) PROVE Counted'
  BY <1>9, CountKept, ProcessesAssumption DEF RegisterWrite, Goto, Inside
<1>10. ASSUME NEW t \in Tasks, BeginFile(t) PROVE Counted'
  BY <1>10, CountKept, ProcessesAssumption DEF BeginFile, Goto, Inside
<1>11. ASSUME NEW t \in Tasks, EndFile(t) PROVE Counted'
  BY <1>11, CountKept, ProcessesAssumption DEF EndFile, Goto
<1>12. ASSUME NEW t \in Tasks, FinishWrite(t) PROVE Counted'
  BY <1>12, CountKept, ProcessesAssumption DEF FinishWrite, Goto, Return, Settle,
    Inside
<1>13. ASSUME NEW t \in Tasks, WriterAlive(t), LookUp(t) PROVE Counted'
  BY <1>13, CountKept, ProcessesAssumption DEF WriterAlive, Goto, Inside, LookUp
<1>14. ASSUME NEW t \in Tasks, WriterAlive(t), Make(t) PROVE Counted'
  BY <1>14, CountKept, ProcessesAssumption DEF WriterAlive, Goto, Inside, Make,
    Unused
<1>15. ASSUME NEW t \in Tasks, CheckWriting(t) PROVE Counted'
  BY <1>15, CountKept, ProcessesAssumption DEF CheckWriting, Goto, Inside
<1>16. ASSUME NEW t \in Tasks, WriteAwaited(t) PROVE Counted'
  BY <1>16, CountKept, ProcessesAssumption DEF WriteAwaited, Goto
<1>17. ASSUME NEW t \in Tasks, JoinRead(t) PROVE Counted'
  BY <1>17, CountKept, ProcessesAssumption DEF JoinRead, Goto, Inside
<1>18. ASSUME NEW t \in Tasks, RegisterRead(t) PROVE Counted'
  BY <1>18, CountKept, ProcessesAssumption DEF RegisterRead, Goto, Inside
<1>19. ASSUME NEW t \in Tasks, ReaderAlive(t), LookUp(t), Goto(t, "rfound") PROVE Counted'
  BY <1>19, CountKept, ProcessesAssumption DEF ReaderAlive, Goto, Inside, LookUp
<1>20. ASSUME NEW t \in Tasks, ReaderAlive(t), Make(t), Goto(t, "rfresh") PROVE Counted'
  BY <1>20, CountKept, ProcessesAssumption DEF ReaderAlive, Goto, Inside, Make,
    Unused
<1>21. ASSUME NEW t \in Tasks, TakeLiving(t) PROVE Counted'
  BY <1>21, CountKept, ProcessesAssumption DEF TakeLiving, Goto, Inside
<1>22. ASSUME NEW t \in Tasks, BeginLoad(t) PROVE Counted'
  BY <1>22, CountKept, ProcessesAssumption DEF BeginLoad, Goto, Inside
<1>23. ASSUME NEW t \in Tasks, Loaded(t) PROVE Counted'
  BY <1>23, CountKept, ProcessesAssumption DEF Loaded, Goto
<1>24. ASSUME NEW t \in Tasks, LoadFailed(t) PROVE Counted'
  BY <1>24, CountKept, ProcessesAssumption DEF LoadFailed, Goto
<1>25. ASSUME NEW t \in Tasks, FinishRead(t) PROVE Counted'
  BY <1>25, CountKept, ProcessesAssumption DEF FinishRead, Goto, Return, Settle,
    Deliver, Inside
<1>26. ASSUME NEW t \in Tasks, DropReading(t) PROVE Counted'
  BY <1>26, CountKept, ProcessesAssumption DEF DropReading, Goto, Inside
<1>27. ASSUME NEW t \in Tasks, ResolveLiving(t) PROVE Counted'
  BY <1>27, CountKept, ProcessesAssumption DEF ResolveLiving, Goto, Return, Settle,
    Deliver
<1>28. ASSUME NEW t \in Tasks, ReadFollowed(t) PROVE Counted'
  BY <1>28, CountKept, ProcessesAssumption DEF ReadFollowed, Goto, Return
<1>29. ASSUME NEW t \in Tasks, Enumerated(t) PROVE Counted'
  BY <1>29, CountKept, ProcessesAssumption DEF Enumerated, Goto, Return, Inside
<1>30. ASSUME NEW o \in Objects, Forget(o) PROVE Counted'
  BY <1>30, CountKept, ProcessesAssumption DEF Forget
<1>31. ASSUME Wake PROVE Counted'
  BY <1>31, CountKept, ProcessesAssumption DEF Wake, Goto
<1>32. ASSUME BeginScan PROVE Counted'
  BY <1>32, CountKept, ProcessesAssumption DEF BeginScan, Goto, Inside
<1>33. ASSUME NEW c \in Checksums, SkipActive(c) PROVE Counted'
  BY <1>33, CountKept, ProcessesAssumption DEF SkipActive
<1>34. ASSUME NEW c \in Checksums, Consider(c) PROVE Counted'
  BY <1>34, CountKept, ProcessesAssumption DEF Consider, Goto
<1>35. ASSUME Prune PROVE Counted'
  BY <1>35, CountKept, ProcessesAssumption DEF Prune, Goto, Inside
<1>36. ASSUME EndScan PROVE Counted'
  BY <1>36, CountKept, ProcessesAssumption DEF EndScan, Goto
<1>37. CASE UNCHANGED vars
  BY <1>37, CountKept DEF vars
<1> QED
  BY <1>1, <1>2, <1>3, <1>4, <1>5, <1>6, <1>7, <1>8, <1>9, <1>10, <1>11, <1>12,
    <1>13, <1>14, <1>15, <1>16, <1>17, <1>18, <1>19, <1>20, <1>21, <1>22, <1>23,
    <1>24, <1>25, <1>26, <1>27, <1>28, <1>29, <1>30, <1>31, <1>32, <1>33, <1>34,
    <1>35, <1>36, <1>37
    DEF Next, SweepStep, Sweep, Call, Step, Writer, Reader, WriterAlive, ReaderAlive

\* At first nobody owns, waits, or has an answer.
LEMMA InitAccounts == Init => Accounts
<1> SUFFICES ASSUME Init PROVE Accounts
  OBVIOUS
<1>1. \A s \in Slots : WaitFor(s) = {}
  BY DEF Init, WaitFor, Processes
<1>2. Counted
  BY <1>1, FS_EmptySet DEF Counted, QueuedCount, Init
<1> QED
  BY <1>2 DEF Init, Accounts, Owners, OwnerOfAwaited, SlotsKept, SlotUser,
    LinkedLiving, Answers, Processes

\* The tables, the slots, the counters and the answers stay in step with the
\* fibers they are about.
THEOREM AccountsHold == Spec => []Accounts
<1>1. IInv /\ Accounts /\ [Next]_vars => Accounts'
  BY OwnersStep, AwaitedStep, SlotsStep, CountedStep, LinkedStep, AnswersStep
    DEF Accounts
<1> QED
  BY <1>1, InitAccounts, InvariantHolds, PTL DEF Spec

\* A fiber awaits a promise only while its owner, at work for the same
\* checksum, has yet to settle it.
THEOREM AwaitedOwned == Spec => []OwnerOfAwaited
<1>1. Accounts => OwnerOfAwaited
  BY DEF Accounts
<1> QED
  BY <1>1, AccountsHold, PTL

\* ongoing_queued is the number of writes in line at every slot.
THEOREM QueuesCounted == Spec => []QueuedCount
<1>1. Accounts => QueuedCount
  BY DEF Accounts, Counted
<1> QED
  BY <1>1, AccountsHold, PTL

\* There are never more writes under way than slots: each has a slot of its
\* own, at whose gate it is the first.
THEOREM WritesLimited == Spec => []WriteLimit
<1>1. ASSUME IInv, Accounts PROVE WriteLimit
  <2> DEFINE W == {t \in Tasks : pc[t] \in SlotUser}
             f == [t \in W |-> slot[t]]
  <2>1. \A t \in W : slot[t] \in Slots /\ Head(queue[slot[t]]) = t
    BY <1>1 DEF IInv, Located, Accounts, SlotsKept, SlotUser, First
  <2>2. f \in [W -> Slots] /\ \A t, u \in W : f[t] = f[u] => t = u
    BY <2>1
  <2>3. f \in Injection(W, Slots)
    BY <2>2 DEF Injection, IsInjective
  <2> HIDE DEF f
  <2>4. Cardinality(W) <= Cardinality(Slots)
    BY <2>3, FS_Injection, SlotsAssumption
  <2> QED
    BY <2>4 DEF WriteLimit, SlotUser
<1> QED
  BY <1>1, InvariantHolds, AccountsHold, PTL

-----------------------------------------------------------------------------
\* Nobody waits in a circle: Lines

\* A step of p keeps the places of the others, if it takes no turn of theirs
\* and changes no record that the sweep is at.
LEMMA OthersPlaced ==
    ASSUME Lines, NEW p \in Processes, Placed(p)',
           \A u \in Processes \ {p} : pc'[u] = pc[u] /\ cs'[u] = cs[u],
           \A u \in Tasks \ {p} : slot'[u] = slot[u],
           p # Sweeper /\ pc[Sweeper] = "sprune" =>
                alive'[cs[Sweeper]] = alive[cs[Sweeper]],
           \A u \in Processes \ {p}, g \in Gates :
                (InQueue(u, g)' => InQueue(u, g)) /\ (First(u, g) => First(u, g)')
    PROVE  Lines'
<1> SUFFICES ASSUME NEW u \in Processes, u # p PROVE Placed(u)'
  BY DEF Lines
<1>1. /\ {"alive", "reading", "writing"} \subseteq Gates
      /\ Slots \subseteq Gates /\ Records \subseteq Gates
  BY DEF Gates, GlobalGates
<1>2. Placed(u)
  BY DEF Lines
<1> QED
  BY <1>1, <1>2 DEF Placed

\* The sweep's record stays in alive_hash: only the sweep changes an entry of
\* the table that is set.
LEMMA AliveStays ==
    ASSUME IInv, NEW t \in Tasks, LookUp(t) \/ Make(t), pc[Sweeper] = "sprune"
    PROVE  alive'[cs[Sweeper]] = alive[cs[Sweeper]]
  BY DEF IInv, TypeOK, SweepStable, LookUp, Make

\* A fiber that moves on in its queues.
LEMMA SameLines ==
    ASSUME Lines, NEW p \in Processes, Placed(p)', queue' = queue,
           \A u \in Processes \ {p} : pc'[u] = pc[u] /\ cs'[u] = cs[u],
           \A u \in Tasks \ {p} : slot'[u] = slot[u], alive' = alive
    PROVE  Lines'
  BY OthersPlaced, SameFacts

\* A fiber that clears guards.
LEMMA ClearedLines ==
    ASSUME IInv, Lines, NEW p \in Processes, NEW G, queue' = Cleared(p, G),
           \A u \in Processes \ {p} : pc'[u] = pc[u] /\ cs'[u] = cs[u],
           \A u \in Tasks \ {p} : slot'[u] = slot[u],
           p # Sweeper /\ pc[Sweeper] = "sprune" =>
                alive'[cs[Sweeper]] = alive[cs[Sweeper]],
           (\A g \in Gates :
                /\ InQueue(p, g)' => InQueue(p, g) /\ ~ (g \in G /\ First(p, g))
                /\ First(p, g) /\ g \notin G => First(p, g)') => Placed(p)'
    PROVE  Lines'
<1>1. \A u \in Processes \ {p}, g \in Gates :
            (InQueue(u, g)' => InQueue(u, g)) /\ (First(u, g) => First(u, g)')
  BY ClearedFacts DEF IInv
<1>2. \A g \in Gates :
            /\ InQueue(p, g)' => InQueue(p, g) /\ ~ (g \in G /\ First(p, g))
            /\ First(p, g) /\ g \notin G => First(p, g)'
  BY ClearedFacts DEF IInv
<1> QED
  BY <1>1, <1>2, OthersPlaced

\* A fiber that arrives at its next gate.
LEMMA ArriveLines ==
    ASSUME IInv, Lines, NEW p \in Processes, Arrive(p) PROVE Lines'
<1> DEFINE h == GateOf(p)
<1>1. /\ pc[p] \in GateLabels /\ ~ InQueue(p, h)
      /\ queue' = [queue EXCEPT ![h] = Append(@, p)]
      /\ pc' = pc /\ slot' = slot /\ cs' = cs /\ alive' = alive
  BY DEF Arrive, locals, tables
<1>2. /\ h \in Gates
      /\ h = "alive" => pc[p] \in AtAlive
      /\ h = "reading" => pc[p] \in AtReading
      /\ h = "writing" => pc[p] \in AtWriting
      /\ h \in Slots => p \in Tasks /\ pc[p] \in AtSlot /\ slot[p] = h
      /\ h \in Records /\ p = Sweeper => pc[p] = "sprune" /\ alive[cs[p]] = h
  <2>1. p \in Tasks \/ p = Sweeper
    BY DEF Processes
  <2>2. CASE p \in Tasks
    <3>1. pc[p] = "wslot" => slot[p] \in Slots
      BY <2>2 DEF IInv, Located
    <3>2. pc[p] \in {"wliving", "rfound", "rfresh"} => living[p] \in Records
      BY <2>2 DEF IInv, TypeOK, Located, RecordUser
    <3>3. pc[p] # "sprune" /\ p # Sweeper
      BY <2>2, ProcessesAssumption DEF IInv, Located
    <3> QED
      BY <1>1, <2>2, <3>1, <3>2, <3>3, GatesAssumption
        DEF GateLabels, GateOf, Gates, GlobalGates, AtAlive, AtReading, AtWriting,
            AtSlot, WriterLabels, ReaderLabels, GlobalLabels
  <2>3. CASE p = Sweeper
    <3>1. pc[p] = "sprune" => alive[cs[p]] \in Records
      BY <2>3 DEF IInv, TypeOK, SweepStable
    <3>2. pc[p] \in {"sprune"} \cup GlobalLabels
      BY <1>1, <2>3 DEF IInv, Located, GateLabels, WriterLabels, ReaderLabels,
         GlobalLabels
    <3> QED
      BY <1>1, <2>3, <3>1, <3>2, GatesAssumption
        DEF GateOf, Gates, GlobalGates, AtAlive, AtReading, AtWriting, GlobalLabels
  <2> QED
    BY <2>1, <2>2, <2>3
<1> HIDE DEF h
<1>3. /\ \A u \in Processes, g \in Gates : First(u, g) => First(u, g)'
      /\ \A u \in Processes, g \in Gates :
                InQueue(u, g)' => InQueue(u, g) \/ (u = p /\ g = h)
  BY <1>1, <1>2, ArriveFacts DEF IInv
<1>4. Placed(p)'
  <2>1. /\ {"alive", "reading", "writing"} \subseteq Gates
        /\ Slots \subseteq Gates /\ Records \subseteq Gates
    BY DEF Gates, GlobalGates
  <2>2. Placed(p)
    BY DEF Lines
  <2> QED
    BY <1>1, <1>2, <1>3, <2>1, <2>2 DEF Placed
<1> QED
  BY <1>1, <1>3, <1>4, OthersPlaced

\* The queues of the global gates and of the slots keep naming only those who
\* may be in them.
LEMMA LinesStep == IInv /\ Accounts /\ Lines /\ [Next]_vars => Lines'
<1> SUFFICES ASSUME IInv /\ Accounts /\ Lines, [Next]_vars PROVE Lines'
  OBVIOUS
<1> USE DEF TypeOK, IInv, Located, Processes, Gates, GlobalGates, locals, tables, objects, WriterLabels, ReaderLabels, GlobalLabels
<1>1. ASSUME Start PROVE Lines'
  BY <1>1, SameFacts DEF Start, Lines, Placed
<1>2. ASSUME NEW p \in Processes, Arrive(p) PROVE Lines'
  BY <1>2, ArriveLines
<1>3. ASSUME NEW p \in Processes, HoldNext(p) PROVE Lines'
  <2>1. Placed(p)
    BY DEF Lines
  <2>2. Placed(p)'
    BY <1>3, <2>1, SameFacts, ProcessesAssumption DEF HoldNext, Goto, Inside,
       GateOf, Placed, AtAlive, AtReading, AtWriting, AtSlot, SlotUser
  <2> QED
    BY <1>3, <2>2, SameLines, ProcessesAssumption DEF HoldNext, Goto, Inside,
       GateOf
<1>4. ASSUME NEW t \in Tasks, NEW c \in Checksums, Add(t, c) PROVE Lines'
  <2>1. Placed(t)
    BY DEF Lines
  <2>2. Placed(t)'
    BY <1>4, <2>1, SameFacts, ProcessesAssumption DEF Add, Goto, Placed,
       AtAlive, AtReading, AtWriting, AtSlot, SlotUser
  <2> QED
    BY <1>4, <2>2, SameLines, ProcessesAssumption DEF Add, Goto
<1>5. ASSUME NEW t \in Tasks, NEW c \in Checksums, Get(t, c) PROVE Lines'
  <2>1. Placed(t)
    BY DEF Lines
  <2>2. Placed(t)'
    BY <1>5, <2>1, SameFacts, ProcessesAssumption DEF Get, Goto, Placed,
       AtAlive, AtReading, AtWriting, AtSlot, SlotUser
  <2> QED
    BY <1>5, <2>2, SameLines, ProcessesAssumption DEF Get, Goto
<1>6. ASSUME NEW t \in Tasks, EnumerateDisk(t) PROVE Lines'
  <2>1. Placed(t)
    BY DEF Lines
  <2>2. Placed(t)'
    BY <1>6, <2>1, SameFacts, ProcessesAssumption DEF EnumerateDisk, Goto,
       Placed, AtAlive, AtReading, AtWriting, AtSlot, SlotUser
  <2> QED
    BY <1>6, <2>2, SameLines, ProcessesAssumption DEF EnumerateDisk, Goto
<1>7. ASSUME NEW t \in Tasks, EnterSlot(t) PROVE Lines'
  <2>1. Placed(t)
    BY DEF Lines
  <2>2. Placed(t)'
    BY <1>7, <2>1, SameFacts, ProcessesAssumption DEF EnterSlot, Goto, Inside,
       GateOf, Placed, AtAlive, AtReading, AtWriting, AtSlot, SlotUser
  <2> QED
    BY <1>7, <2>2, SameLines, ProcessesAssumption DEF EnterSlot, Goto, Inside,
       GateOf
<1>8. ASSUME NEW t \in Tasks, RegisterRejected(t) PROVE Lines'
  <2>1. queue' = Cleared(t, Gates)
    BY <1>8 DEF RegisterRejected, Return, Goto, Inside
  <2>2. Placed(t)
    BY DEF Lines
  <2>3. ASSUME \A g \in Gates :
                /\ InQueue(t, g)' => InQueue(t, g) /\ ~ (g \in Gates /\ First(t, g))
                /\ First(t, g) /\ g \notin Gates => First(t, g)'
        PROVE  Placed(t)'
    BY <1>8, <2>2, <2>3, ProcessesAssumption, GatesAssumption DEF
       RegisterRejected, Return, Goto, Inside, GateOf, Placed, AtAlive,
       AtReading, AtWriting, AtSlot, SlotUser, Accounts, SlotsKept
  <2>4. /\ \A u \in Processes \ {t} : pc'[u] = pc[u] /\ cs'[u] = cs[u]
        /\ \A u \in Tasks \ {t} : slot'[u] = slot[u]
        /\ t # Sweeper /\ pc[Sweeper] = "sprune" =>
                alive'[cs[Sweeper]] = alive[cs[Sweeper]]
    BY <1>8, AliveStays, ProcessesAssumption DEF RegisterRejected, Return,
       Goto, Inside
  <2>5. t \in Processes
    BY DEF Processes
  <2> HIDE DEF Processes, Gates
  <2> QED
    BY <2>1, <2>3, <2>4, <2>5, ClearedLines
<1>9. ASSUME NEW t \in Tasks, RegisterWrite(t) PROVE Lines'
  <2>1. queue' = Cleared(t, {"writing"})
    BY <1>9 DEF RegisterWrite, Goto, Inside
  <2>2. Placed(t)
    BY DEF Lines
  <2>3. ASSUME \A g \in Gates :
                /\ InQueue(t, g)' => InQueue(t, g) /\ ~ (g \in {"writing"} /\ First(t, g))
                /\ First(t, g) /\ g \notin {"writing"} => First(t, g)'
        PROVE  Placed(t)'
    BY <1>9, <2>2, <2>3, ProcessesAssumption, GatesAssumption DEF
       RegisterWrite, Goto, Inside, GateOf, Placed, AtAlive, AtReading,
       AtWriting, AtSlot, SlotUser
  <2>4. /\ \A u \in Processes \ {t} : pc'[u] = pc[u] /\ cs'[u] = cs[u]
        /\ \A u \in Tasks \ {t} : slot'[u] = slot[u]
        /\ t # Sweeper /\ pc[Sweeper] = "sprune" =>
                alive'[cs[Sweeper]] = alive[cs[Sweeper]]
    BY <1>9, AliveStays, ProcessesAssumption DEF RegisterWrite, Goto, Inside
  <2>5. t \in Processes
    BY DEF Processes
  <2> HIDE DEF Processes, Gates
  <2> QED
    BY <2>1, <2>3, <2>4, <2>5, ClearedLines
<1>10. ASSUME NEW t \in Tasks, BeginFile(t) PROVE Lines'
  <2>1. Placed(t)
    BY DEF Lines
  <2>2. Placed(t)'
    BY <1>10, <2>1, SameFacts, ProcessesAssumption DEF BeginFile, Goto,
       Inside, GateOf, Placed, AtAlive, AtReading, AtWriting, AtSlot, SlotUser
  <2> QED
    BY <1>10, <2>2, SameLines, ProcessesAssumption DEF BeginFile, Goto,
       Inside, GateOf
<1>11. ASSUME NEW t \in Tasks, EndFile(t) PROVE Lines'
  <2>1. queue' = Cleared(t, {slot[t]})
    BY <1>11 DEF EndFile, Goto
  <2>2. Placed(t)
    BY DEF Lines
  <2>3. ASSUME \A g \in Gates :
                /\ InQueue(t, g)' => InQueue(t, g) /\ ~ (g \in {slot[t]} /\ First(t, g))
                /\ First(t, g) /\ g \notin {slot[t]} => First(t, g)'
        PROVE  Placed(t)'
    <3>1. pc[t] = "wfile" /\ slot[t] \in Slots /\ First(t, slot[t])
      BY <1>11 DEF EndFile, Accounts, SlotsKept, SlotUser
    <3>2. ASSUME NEW s \in Slots, InQueue(t, s)' PROVE FALSE
      <4>1. s \in Gates
        BY DEF Gates
      <4>2. InQueue(t, s) /\ ~ (s \in {slot[t]} /\ First(t, s))
        BY <2>3, <3>2, <4>1
      <4>3. slot[t] = s
        BY <2>2, <4>2 DEF Placed
      <4> QED
        BY <3>1, <4>2, <4>3
    <3>3. \A g \in GlobalGates : ~ InQueue(t, g)'
      BY <2>2, <2>3, <3>1 DEF Placed, AtAlive, AtReading, AtWriting
    <3>4. pc'[t] = "wdone" /\ t # Sweeper
      BY <1>11, ProcessesAssumption DEF EndFile, Goto
    <3> QED
      BY <3>2, <3>3, <3>4 DEF Placed
  <2>4. /\ \A u \in Processes \ {t} : pc'[u] = pc[u] /\ cs'[u] = cs[u]
        /\ \A u \in Tasks \ {t} : slot'[u] = slot[u]
        /\ t # Sweeper /\ pc[Sweeper] = "sprune" =>
                alive'[cs[Sweeper]] = alive[cs[Sweeper]]
    BY <1>11, AliveStays, ProcessesAssumption DEF EndFile, Goto
  <2>5. t \in Processes
    BY DEF Processes
  <2> HIDE DEF Processes, Gates
  <2> QED
    BY <2>1, <2>3, <2>4, <2>5, ClearedLines
<1>12. ASSUME NEW t \in Tasks, FinishWrite(t) PROVE Lines'
  <2>1. queue' = Cleared(t, Gates)
    BY <1>12 DEF FinishWrite, Return, Settle, Goto, Inside
  <2>2. Placed(t)
    BY DEF Lines
  <2>3. ASSUME \A g \in Gates :
                /\ InQueue(t, g)' => InQueue(t, g) /\ ~ (g \in Gates /\ First(t, g))
                /\ First(t, g) /\ g \notin Gates => First(t, g)'
        PROVE  Placed(t)'
    BY <1>12, <2>2, <2>3, ProcessesAssumption, GatesAssumption DEF
       FinishWrite, Return, Settle, Goto, Inside, GateOf, Placed, AtAlive,
       AtReading, AtWriting, AtSlot, SlotUser
  <2>4. /\ \A u \in Processes \ {t} : pc'[u] = pc[u] /\ cs'[u] = cs[u]
        /\ \A u \in Tasks \ {t} : slot'[u] = slot[u]
        /\ t # Sweeper /\ pc[Sweeper] = "sprune" =>
                alive'[cs[Sweeper]] = alive[cs[Sweeper]]
    BY <1>12, AliveStays, ProcessesAssumption DEF FinishWrite, Return, Settle,
       Goto, Inside
  <2>5. t \in Processes
    BY DEF Processes
  <2> HIDE DEF Processes, Gates
  <2> QED
    BY <2>1, <2>3, <2>4, <2>5, ClearedLines
<1>13. ASSUME NEW t \in Tasks, WriterAlive(t), LookUp(t) PROVE Lines'
  <2>1. queue' = Cleared(t, {"alive"})
    BY <1>13 DEF WriterAlive, Goto, Inside, LookUp
  <2>2. Placed(t)
    BY DEF Lines
  <2>3. ASSUME \A g \in Gates :
                /\ InQueue(t, g)' => InQueue(t, g) /\ ~ (g \in {"alive"} /\ First(t, g))
                /\ First(t, g) /\ g \notin {"alive"} => First(t, g)'
        PROVE  Placed(t)'
    BY <1>13, <2>2, <2>3, ProcessesAssumption, GatesAssumption DEF
       WriterAlive, Goto, Inside, LookUp, GateOf, Placed, AtAlive, AtReading,
       AtWriting, AtSlot, SlotUser
  <2>4. /\ \A u \in Processes \ {t} : pc'[u] = pc[u] /\ cs'[u] = cs[u]
        /\ \A u \in Tasks \ {t} : slot'[u] = slot[u]
        /\ t # Sweeper /\ pc[Sweeper] = "sprune" =>
                alive'[cs[Sweeper]] = alive[cs[Sweeper]]
    BY <1>13, AliveStays, ProcessesAssumption DEF WriterAlive, Goto, Inside,
       LookUp
  <2>5. t \in Processes
    BY DEF Processes
  <2> HIDE DEF Processes, Gates
  <2> QED
    BY <2>1, <2>3, <2>4, <2>5, ClearedLines
<1>14. ASSUME NEW t \in Tasks, WriterAlive(t), Make(t) PROVE Lines'
  <2>1. queue' = Cleared(t, {"alive"})
    BY <1>14 DEF WriterAlive, Goto, Inside
  <2>2. Placed(t)
    BY DEF Lines
  <2>3. ASSUME \A g \in Gates :
                /\ InQueue(t, g)' => InQueue(t, g) /\ ~ (g \in {"alive"} /\ First(t, g))
                /\ First(t, g) /\ g \notin {"alive"} => First(t, g)'
        PROVE  Placed(t)'
    BY <1>14, <2>2, <2>3, ProcessesAssumption, GatesAssumption DEF
       WriterAlive, Goto, Inside, GateOf, Placed, AtAlive, AtReading,
       AtWriting, AtSlot, SlotUser
  <2>4. /\ \A u \in Processes \ {t} : pc'[u] = pc[u] /\ cs'[u] = cs[u]
        /\ \A u \in Tasks \ {t} : slot'[u] = slot[u]
        /\ t # Sweeper /\ pc[Sweeper] = "sprune" =>
                alive'[cs[Sweeper]] = alive[cs[Sweeper]]
    BY <1>14, AliveStays, ProcessesAssumption DEF WriterAlive, Goto, Inside
  <2>5. t \in Processes
    BY DEF Processes
  <2> HIDE DEF Processes, Gates
  <2> QED
    BY <2>1, <2>3, <2>4, <2>5, ClearedLines
<1>15. ASSUME NEW t \in Tasks, CheckWriting(t) PROVE Lines'
  <2>1. queue' = Cleared(t, {"writing"})
    BY <1>15 DEF CheckWriting, Goto, Inside
  <2>2. Placed(t)
    BY DEF Lines
  <2>3. ASSUME \A g \in Gates :
                /\ InQueue(t, g)' => InQueue(t, g) /\ ~ (g \in {"writing"} /\ First(t, g))
                /\ First(t, g) /\ g \notin {"writing"} => First(t, g)'
        PROVE  Placed(t)'
    BY <1>15, <2>2, <2>3, ProcessesAssumption, GatesAssumption DEF
       CheckWriting, Goto, Inside, GateOf, Placed, AtAlive, AtReading,
       AtWriting, AtSlot, SlotUser
  <2>4. /\ \A u \in Processes \ {t} : pc'[u] = pc[u] /\ cs'[u] = cs[u]
        /\ \A u \in Tasks \ {t} : slot'[u] = slot[u]
        /\ t # Sweeper /\ pc[Sweeper] = "sprune" =>
                alive'[cs[Sweeper]] = alive[cs[Sweeper]]
    BY <1>15, AliveStays, ProcessesAssumption DEF CheckWriting, Goto, Inside
  <2>5. t \in Processes
    BY DEF Processes
  <2> HIDE DEF Processes, Gates
  <2> QED
    BY <2>1, <2>3, <2>4, <2>5, ClearedLines
<1>16. ASSUME NEW t \in Tasks, WriteAwaited(t) PROVE Lines'
  <2>1. Placed(t)
    BY DEF Lines
  <2>2. Placed(t)'
    BY <1>16, <2>1, SameFacts, ProcessesAssumption DEF WriteAwaited, Goto,
       Placed, AtAlive, AtReading, AtWriting, AtSlot, SlotUser
  <2> QED
    BY <1>16, <2>2, SameLines, ProcessesAssumption DEF WriteAwaited, Goto
<1>17. ASSUME NEW t \in Tasks, JoinRead(t) PROVE Lines'
  <2>1. queue' = Cleared(t, {"reading"})
    BY <1>17 DEF JoinRead, Goto, Inside
  <2>2. Placed(t)
    BY DEF Lines
  <2>3. ASSUME \A g \in Gates :
                /\ InQueue(t, g)' => InQueue(t, g) /\ ~ (g \in {"reading"} /\ First(t, g))
                /\ First(t, g) /\ g \notin {"reading"} => First(t, g)'
        PROVE  Placed(t)'
    BY <1>17, <2>2, <2>3, ProcessesAssumption, GatesAssumption DEF JoinRead,
       Goto, Inside, GateOf, Placed, AtAlive, AtReading, AtWriting, AtSlot,
       SlotUser
  <2>4. /\ \A u \in Processes \ {t} : pc'[u] = pc[u] /\ cs'[u] = cs[u]
        /\ \A u \in Tasks \ {t} : slot'[u] = slot[u]
        /\ t # Sweeper /\ pc[Sweeper] = "sprune" =>
                alive'[cs[Sweeper]] = alive[cs[Sweeper]]
    BY <1>17, AliveStays, ProcessesAssumption DEF JoinRead, Goto, Inside
  <2>5. t \in Processes
    BY DEF Processes
  <2> HIDE DEF Processes, Gates
  <2> QED
    BY <2>1, <2>3, <2>4, <2>5, ClearedLines
<1>18. ASSUME NEW t \in Tasks, RegisterRead(t) PROVE Lines'
  <2>1. queue' = Cleared(t, {"reading"})
    BY <1>18 DEF RegisterRead, Goto, Inside
  <2>2. Placed(t)
    BY DEF Lines
  <2>3. ASSUME \A g \in Gates :
                /\ InQueue(t, g)' => InQueue(t, g) /\ ~ (g \in {"reading"} /\ First(t, g))
                /\ First(t, g) /\ g \notin {"reading"} => First(t, g)'
        PROVE  Placed(t)'
    BY <1>18, <2>2, <2>3, ProcessesAssumption, GatesAssumption DEF
       RegisterRead, Goto, Inside, GateOf, Placed, AtAlive, AtReading,
       AtWriting, AtSlot, SlotUser
  <2>4. /\ \A u \in Processes \ {t} : pc'[u] = pc[u] /\ cs'[u] = cs[u]
        /\ \A u \in Tasks \ {t} : slot'[u] = slot[u]
        /\ t # Sweeper /\ pc[Sweeper] = "sprune" =>
                alive'[cs[Sweeper]] = alive[cs[Sweeper]]
    BY <1>18, AliveStays, ProcessesAssumption DEF RegisterRead, Goto, Inside
  <2>5. t \in Processes
    BY DEF Processes
  <2> HIDE DEF Processes, Gates
  <2> QED
    BY <2>1, <2>3, <2>4, <2>5, ClearedLines
<1>19. ASSUME NEW t \in Tasks, ReaderAlive(t), LookUp(t), Goto(t, "rfound") PROVE Lines'
  <2>1. queue' = Cleared(t, {"alive"})
    BY <1>19 DEF ReaderAlive, Goto, Inside, LookUp
  <2>2. Placed(t)
    BY DEF Lines
  <2>3. ASSUME \A g \in Gates :
                /\ InQueue(t, g)' => InQueue(t, g) /\ ~ (g \in {"alive"} /\ First(t, g))
                /\ First(t, g) /\ g \notin {"alive"} => First(t, g)'
        PROVE  Placed(t)'
    BY <1>19, <2>2, <2>3, ProcessesAssumption, GatesAssumption DEF
       ReaderAlive, Goto, Inside, LookUp, GateOf, Placed, AtAlive, AtReading,
       AtWriting, AtSlot, SlotUser
  <2>4. /\ \A u \in Processes \ {t} : pc'[u] = pc[u] /\ cs'[u] = cs[u]
        /\ \A u \in Tasks \ {t} : slot'[u] = slot[u]
        /\ t # Sweeper /\ pc[Sweeper] = "sprune" =>
                alive'[cs[Sweeper]] = alive[cs[Sweeper]]
    BY <1>19, AliveStays, ProcessesAssumption DEF ReaderAlive, Goto, Inside,
       LookUp
  <2>5. t \in Processes
    BY DEF Processes
  <2> HIDE DEF Processes, Gates
  <2> QED
    BY <2>1, <2>3, <2>4, <2>5, ClearedLines
<1>20. ASSUME NEW t \in Tasks, ReaderAlive(t), Make(t), Goto(t, "rfresh") PROVE Lines'
  <2>1. queue' = Cleared(t, {"alive"})
    BY <1>20 DEF ReaderAlive, Goto, Inside
  <2>2. Placed(t)
    BY DEF Lines
  <2>3. ASSUME \A g \in Gates :
                /\ InQueue(t, g)' => InQueue(t, g) /\ ~ (g \in {"alive"} /\ First(t, g))
                /\ First(t, g) /\ g \notin {"alive"} => First(t, g)'
        PROVE  Placed(t)'
    BY <1>20, <2>2, <2>3, ProcessesAssumption, GatesAssumption DEF
       ReaderAlive, Goto, Inside, GateOf, Placed, AtAlive, AtReading,
       AtWriting, AtSlot, SlotUser
  <2>4. /\ \A u \in Processes \ {t} : pc'[u] = pc[u] /\ cs'[u] = cs[u]
        /\ \A u \in Tasks \ {t} : slot'[u] = slot[u]
        /\ t # Sweeper /\ pc[Sweeper] = "sprune" =>
                alive'[cs[Sweeper]] = alive[cs[Sweeper]]
    BY <1>20, AliveStays, ProcessesAssumption DEF ReaderAlive, Goto, Inside
  <2>5. t \in Processes
    BY DEF Processes
  <2> HIDE DEF Processes, Gates
  <2> QED
    BY <2>1, <2>3, <2>4, <2>5, ClearedLines
<1>21. ASSUME NEW t \in Tasks, TakeLiving(t) PROVE Lines'
  <2>1. queue' = Cleared(t, {living[t]})
    BY <1>21 DEF TakeLiving, Goto, Inside
  <2>2. Placed(t)
    BY DEF Lines
  <2>3. ASSUME \A g \in Gates :
                /\ InQueue(t, g)' => InQueue(t, g) /\ ~ (g \in {living[t]} /\ First(t, g))
                /\ First(t, g) /\ g \notin {living[t]} => First(t, g)'
        PROVE  Placed(t)'
    BY <1>21, <2>2, <2>3, ProcessesAssumption, GatesAssumption DEF TakeLiving,
       Goto, Inside, GateOf, Placed, AtAlive, AtReading, AtWriting, AtSlot,
       SlotUser
  <2>4. /\ \A u \in Processes \ {t} : pc'[u] = pc[u] /\ cs'[u] = cs[u]
        /\ \A u \in Tasks \ {t} : slot'[u] = slot[u]
        /\ t # Sweeper /\ pc[Sweeper] = "sprune" =>
                alive'[cs[Sweeper]] = alive[cs[Sweeper]]
    BY <1>21, AliveStays, ProcessesAssumption DEF TakeLiving, Goto, Inside
  <2>5. t \in Processes
    BY DEF Processes
  <2> HIDE DEF Processes, Gates
  <2> QED
    BY <2>1, <2>3, <2>4, <2>5, ClearedLines
<1>22. ASSUME NEW t \in Tasks, BeginLoad(t) PROVE Lines'
  <2>1. Placed(t)
    BY DEF Lines
  <2>2. Placed(t)'
    BY <1>22, <2>1, SameFacts, ProcessesAssumption DEF BeginLoad, Goto,
       Inside, GateOf, Placed, AtAlive, AtReading, AtWriting, AtSlot, SlotUser
  <2> QED
    BY <1>22, <2>2, SameLines, ProcessesAssumption DEF BeginLoad, Goto,
       Inside, GateOf
<1>23. ASSUME NEW t \in Tasks, Loaded(t) PROVE Lines'
  <2>1. Placed(t)
    BY DEF Lines
  <2>2. Placed(t)'
    BY <1>23, <2>1, SameFacts, ProcessesAssumption DEF Loaded, Goto, Placed,
       AtAlive, AtReading, AtWriting, AtSlot, SlotUser
  <2> QED
    BY <1>23, <2>2, SameLines, ProcessesAssumption DEF Loaded, Goto
<1>24. ASSUME NEW t \in Tasks, LoadFailed(t) PROVE Lines'
  <2>1. Placed(t)
    BY DEF Lines
  <2>2. Placed(t)'
    BY <1>24, <2>1, SameFacts, ProcessesAssumption DEF LoadFailed, Goto,
       Placed, AtAlive, AtReading, AtWriting, AtSlot, SlotUser
  <2> QED
    BY <1>24, <2>2, SameLines, ProcessesAssumption DEF LoadFailed, Goto
<1>25. ASSUME NEW t \in Tasks, FinishRead(t) PROVE Lines'
  <2>1. queue' = Cleared(t, Gates)
    BY <1>25 DEF FinishRead, Return, Settle, Deliver, Goto, Inside
  <2>2. Placed(t)
    BY DEF Lines
  <2>3. ASSUME \A g \in Gates :
                /\ InQueue(t, g)' => InQueue(t, g) /\ ~ (g \in Gates /\ First(t, g))
                /\ First(t, g) /\ g \notin Gates => First(t, g)'
        PROVE  Placed(t)'
    BY <1>25, <2>2, <2>3, ProcessesAssumption, GatesAssumption DEF FinishRead,
       Return, Settle, Deliver, Goto, Inside, GateOf, Placed, AtAlive,
       AtReading, AtWriting, AtSlot, SlotUser
  <2>4. /\ \A u \in Processes \ {t} : pc'[u] = pc[u] /\ cs'[u] = cs[u]
        /\ \A u \in Tasks \ {t} : slot'[u] = slot[u]
        /\ t # Sweeper /\ pc[Sweeper] = "sprune" =>
                alive'[cs[Sweeper]] = alive[cs[Sweeper]]
    BY <1>25, AliveStays, ProcessesAssumption DEF FinishRead, Return, Settle,
       Deliver, Goto, Inside
  <2>5. t \in Processes
    BY DEF Processes
  <2> HIDE DEF Processes, Gates
  <2> QED
    BY <2>1, <2>3, <2>4, <2>5, ClearedLines
<1>26. ASSUME NEW t \in Tasks, DropReading(t) PROVE Lines'
  <2>1. queue' = Cleared(t, {"reading"})
    BY <1>26 DEF DropReading, Goto, Inside
  <2>2. Placed(t)
    BY DEF Lines
  <2>3. ASSUME \A g \in Gates :
                /\ InQueue(t, g)' => InQueue(t, g) /\ ~ (g \in {"reading"} /\ First(t, g))
                /\ First(t, g) /\ g \notin {"reading"} => First(t, g)'
        PROVE  Placed(t)'
    BY <1>26, <2>2, <2>3, ProcessesAssumption, GatesAssumption DEF
       DropReading, Goto, Inside, GateOf, Placed, AtAlive, AtReading,
       AtWriting, AtSlot, SlotUser
  <2>4. /\ \A u \in Processes \ {t} : pc'[u] = pc[u] /\ cs'[u] = cs[u]
        /\ \A u \in Tasks \ {t} : slot'[u] = slot[u]
        /\ t # Sweeper /\ pc[Sweeper] = "sprune" =>
                alive'[cs[Sweeper]] = alive[cs[Sweeper]]
    BY <1>26, AliveStays, ProcessesAssumption DEF DropReading, Goto, Inside
  <2>5. t \in Processes
    BY DEF Processes
  <2> HIDE DEF Processes, Gates
  <2> QED
    BY <2>1, <2>3, <2>4, <2>5, ClearedLines
<1>27. ASSUME NEW t \in Tasks, ResolveLiving(t) PROVE Lines'
  <2>1. queue' = Cleared(t, Gates)
    BY <1>27 DEF ResolveLiving, Return, Settle, Deliver, Goto
  <2>2. Placed(t)
    BY DEF Lines
  <2>3. ASSUME \A g \in Gates :
                /\ InQueue(t, g)' => InQueue(t, g) /\ ~ (g \in Gates /\ First(t, g))
                /\ First(t, g) /\ g \notin Gates => First(t, g)'
        PROVE  Placed(t)'
    BY <1>27, <2>2, <2>3, ProcessesAssumption, GatesAssumption DEF
       ResolveLiving, Return, Settle, Deliver, Goto, GateOf, Placed, AtAlive,
       AtReading, AtWriting, AtSlot, SlotUser
  <2>4. /\ \A u \in Processes \ {t} : pc'[u] = pc[u] /\ cs'[u] = cs[u]
        /\ \A u \in Tasks \ {t} : slot'[u] = slot[u]
        /\ t # Sweeper /\ pc[Sweeper] = "sprune" =>
                alive'[cs[Sweeper]] = alive[cs[Sweeper]]
    BY <1>27, AliveStays, ProcessesAssumption DEF ResolveLiving, Return,
       Settle, Deliver, Goto
  <2>5. t \in Processes
    BY DEF Processes
  <2> HIDE DEF Processes, Gates
  <2> QED
    BY <2>1, <2>3, <2>4, <2>5, ClearedLines
<1>28. ASSUME NEW t \in Tasks, ReadFollowed(t) PROVE Lines'
  <2>1. queue' = Cleared(t, Gates)
    BY <1>28 DEF ReadFollowed, Return, Goto
  <2>2. Placed(t)
    BY DEF Lines
  <2>3. ASSUME \A g \in Gates :
                /\ InQueue(t, g)' => InQueue(t, g) /\ ~ (g \in Gates /\ First(t, g))
                /\ First(t, g) /\ g \notin Gates => First(t, g)'
        PROVE  Placed(t)'
    BY <1>28, <2>2, <2>3, ProcessesAssumption, GatesAssumption DEF
       ReadFollowed, Return, Goto, GateOf, Placed, AtAlive, AtReading,
       AtWriting, AtSlot, SlotUser
  <2>4. /\ \A u \in Processes \ {t} : pc'[u] = pc[u] /\ cs'[u] = cs[u]
        /\ \A u \in Tasks \ {t} : slot'[u] = slot[u]
        /\ t # Sweeper /\ pc[Sweeper] = "sprune" =>
                alive'[cs[Sweeper]] = alive[cs[Sweeper]]
    BY <1>28, AliveStays, ProcessesAssumption DEF ReadFollowed, Return, Goto
  <2>5. t \in Processes
    BY DEF Processes
  <2> HIDE DEF Processes, Gates
  <2> QED
    BY <2>1, <2>3, <2>4, <2>5, ClearedLines
<1>29. ASSUME NEW t \in Tasks, Enumerated(t) PROVE Lines'
  <2>1. queue' = Cleared(t, Gates)
    BY <1>29 DEF Enumerated, Return, Goto, Inside
  <2>2. Placed(t)
    BY DEF Lines
  <2>3. ASSUME \A g \in Gates :
                /\ InQueue(t, g)' => InQueue(t, g) /\ ~ (g \in Gates /\ First(t, g))
                /\ First(t, g) /\ g \notin Gates => First(t, g)'
        PROVE  Placed(t)'
    BY <1>29, <2>2, <2>3, ProcessesAssumption, GatesAssumption DEF Enumerated,
       Return, Goto, Inside, GateOf, Placed, AtAlive, AtReading, AtWriting,
       AtSlot, SlotUser
  <2>4. /\ \A u \in Processes \ {t} : pc'[u] = pc[u] /\ cs'[u] = cs[u]
        /\ \A u \in Tasks \ {t} : slot'[u] = slot[u]
        /\ t # Sweeper /\ pc[Sweeper] = "sprune" =>
                alive'[cs[Sweeper]] = alive[cs[Sweeper]]
    BY <1>29, AliveStays, ProcessesAssumption DEF Enumerated, Return, Goto,
       Inside
  <2>5. t \in Processes
    BY DEF Processes
  <2> HIDE DEF Processes, Gates
  <2> QED
    BY <2>1, <2>3, <2>4, <2>5, ClearedLines
<1>30. ASSUME NEW o \in Objects, Forget(o) PROVE Lines'
  BY <1>30, SameFacts DEF Forget, Lines, Placed
<1>31. ASSUME Wake PROVE Lines'
  <2>1. Placed(Sweeper)
    BY DEF Lines
  <2>2. Placed(Sweeper)'
    BY <1>31, <2>1, SameFacts, ProcessesAssumption DEF Wake, Goto, Placed,
       AtAlive, AtReading, AtWriting, AtSlot, SlotUser
  <2> QED
    BY <1>31, <2>2, SameLines, ProcessesAssumption DEF Wake, Goto
<1>32. ASSUME BeginScan PROVE Lines'
  <2>1. Placed(Sweeper)
    BY DEF Lines
  <2>2. Placed(Sweeper)'
    BY <1>32, <2>1, SameFacts, ProcessesAssumption DEF BeginScan, Goto,
       Inside, GateOf, Placed, AtAlive, AtReading, AtWriting, AtSlot, SlotUser
  <2> QED
    BY <1>32, <2>2, SameLines, ProcessesAssumption DEF BeginScan, Goto,
       Inside, GateOf
<1>33. ASSUME NEW c \in Checksums, SkipActive(c) PROVE Lines'
  BY <1>33, SameFacts DEF SkipActive, Lines, Placed
<1>34. ASSUME NEW c \in Checksums, Consider(c) PROVE Lines'
  <2>1. Placed(Sweeper)
    BY DEF Lines
  <2>2. Placed(Sweeper)'
    BY <1>34, <2>1, SameFacts, ProcessesAssumption DEF Consider, Goto, Placed,
       AtAlive, AtReading, AtWriting, AtSlot, SlotUser
  <2> QED
    BY <1>34, <2>2, SameLines, ProcessesAssumption DEF Consider, Goto
<1>35. ASSUME Prune PROVE Lines'
  <2>1. queue' = Cleared(Sweeper, {alive[cs[Sweeper]]})
    BY <1>35 DEF Prune, Goto, Inside
  <2>2. Placed(Sweeper)
    BY DEF Lines
  <2>3. ASSUME \A g \in Gates :
                /\ InQueue(Sweeper, g)' => InQueue(Sweeper, g) /\ ~ (g \in {alive[cs[Sweeper]]} /\ First(Sweeper, g))
                /\ First(Sweeper, g) /\ g \notin {alive[cs[Sweeper]]} => First(Sweeper, g)'
        PROVE  Placed(Sweeper)'
    BY <1>35, <2>2, <2>3, ProcessesAssumption, GatesAssumption DEF Prune,
       Goto, Inside, GateOf, Placed, AtAlive, AtReading, AtWriting, AtSlot,
       SlotUser, SweepStable
  <2>4. /\ \A u \in Processes \ {Sweeper} : pc'[u] = pc[u] /\ cs'[u] = cs[u]
        /\ \A u \in Tasks \ {Sweeper} : slot'[u] = slot[u]
        /\ Sweeper # Sweeper /\ pc[Sweeper] = "sprune" =>
                alive'[cs[Sweeper]] = alive[cs[Sweeper]]
    BY <1>35, AliveStays, ProcessesAssumption DEF Prune, Goto, Inside
  <2>5. Sweeper \in Processes
    BY DEF Processes
  <2> HIDE DEF Processes, Gates
  <2> QED
    BY <2>1, <2>3, <2>4, <2>5, ClearedLines
<1>36. ASSUME EndScan PROVE Lines'
  <2>1. queue' = Cleared(Sweeper, Gates)
    BY <1>36 DEF EndScan, Goto
  <2>2. Placed(Sweeper)
    BY DEF Lines
  <2>3. ASSUME \A g \in Gates :
                /\ InQueue(Sweeper, g)' => InQueue(Sweeper, g) /\ ~ (g \in Gates /\ First(Sweeper, g))
                /\ First(Sweeper, g) /\ g \notin Gates => First(Sweeper, g)'
        PROVE  Placed(Sweeper)'
    BY <1>36, <2>2, <2>3, ProcessesAssumption, GatesAssumption DEF EndScan,
       Goto, GateOf, Placed, AtAlive, AtReading, AtWriting, AtSlot, SlotUser,
       Guarded
  <2>4. /\ \A u \in Processes \ {Sweeper} : pc'[u] = pc[u] /\ cs'[u] = cs[u]
        /\ \A u \in Tasks \ {Sweeper} : slot'[u] = slot[u]
        /\ Sweeper # Sweeper /\ pc[Sweeper] = "sprune" =>
                alive'[cs[Sweeper]] = alive[cs[Sweeper]]
    BY <1>36, AliveStays, ProcessesAssumption DEF EndScan, Goto
  <2>5. Sweeper \in Processes
    BY DEF Processes
  <2> HIDE DEF Processes, Gates
  <2> QED
    BY <2>1, <2>3, <2>4, <2>5, ClearedLines
<1>37. CASE UNCHANGED vars
  BY <1>37, SameFacts DEF vars, Lines, Placed
<1> QED
  BY <1>1, <1>2, <1>3, <1>4, <1>5, <1>6, <1>7, <1>8, <1>9, <1>10, <1>11, <1>12,
    <1>13, <1>14, <1>15, <1>16, <1>17, <1>18, <1>19, <1>20, <1>21, <1>22, <1>23,
    <1>24, <1>25, <1>26, <1>27, <1>28, <1>29, <1>30, <1>31, <1>32, <1>33, <1>34,
    <1>35, <1>36, <1>37
    DEF Next, SweepStep, Sweep, Call, Step, Writer, Reader, WriterAlive, ReaderAlive

LEMMA InitLines == Init => Lines
<1> SUFFICES ASSUME Init, NEW p \in Processes PROVE Placed(p)
  BY DEF Lines
<1>1. pc[p] = "idle" /\ \A g \in Gates : ~ InQueue(p, g)
  BY DEF Init, InQueue
<1> QED
  BY <1>1 DEF Placed, Gates, GlobalGates

\* The queues of the gates name only those who may be in them.
LEMMA LinesHold == Spec => []Lines
<1>1. IInv /\ Accounts /\ Lines /\ [Next]_vars => Lines'
  BY LinesStep
<1> QED
  BY <1>1, InitLines, InvariantHolds, AccountsHold, PTL DEF Spec

\* The fibers that wait, ranked by what they wait for: whoever is before them
\* ranks lower.  Rank 0 waits for nobody.
Waiting(p) == \E q \in Processes : Waits(p, q)

ForWriting == {"wreg", "wdone", "rcheck", "gwriting"}
ForReading == {"rreg", "rdrop", "rdone", "greading"}
ForRecord == {"walive", "ralive", "galive", "wliving", "rfound", "rfresh"}

Rank(p) ==
    IF ~ Waiting(p) THEN 0
    ELSE IF pc[p] \in ForWriting THEN 1
    ELSE IF pc[p] \in ForReading THEN 2
    ELSE IF pc[p] \in ForRecord THEN 3
    ELSE 4

\* The gate a fiber is at is one of the gates.
LEMMA GateType ==
    ASSUME IInv, NEW p \in Processes, pc[p] \in GateLabels
    PROVE  GateOf(p) \in Gates
<1>1. CASE p \in Tasks
  <2>1. pc[p] = "wslot" => slot[p] \in Slots
    BY <1>1 DEF IInv, Located
  <2>2. pc[p] \in {"wliving", "rfound", "rfresh"} => living[p] \in Records
    BY <1>1 DEF IInv, TypeOK, Located, RecordUser
  <2>3. pc[p] # "sprune"
    BY <1>1 DEF IInv, Located
  <2> QED
    BY <2>1, <2>2, <2>3 DEF GateLabels, GateOf, Gates, GlobalGates,
      WriterLabels, ReaderLabels, GlobalLabels
<1>2. CASE p = Sweeper
  <2>1. pc[p] = "sprune" => alive[cs[p]] \in Records
    BY <1>2 DEF IInv, TypeOK, SweepStable
  <2>2. pc[p] \in {"sprune"} \cup GlobalLabels
    BY <1>2 DEF IInv, Located, GateLabels, WriterLabels, ReaderLabels, GlobalLabels
  <2> QED
    BY <2>1, <2>2 DEF GateOf, Gates, GlobalGates, GlobalLabels
<1> QED
  BY <1>1, <1>2 DEF Processes

\* Who is first at a gate is in line at it.
LEMMA FirstInQueue ==
    ASSUME TypeOK, NEW q \in Processes, NEW g \in Gates, First(q, g)
    PROVE  InQueue(q, g)
<1>1. queue[g] \in Seq(Processes) /\ queue[g] # <<>> /\ Head(queue[g]) = q
  BY DEF TypeOK, First
<1>2. Len(queue[g]) \in Nat /\ Len(queue[g]) # 0 /\ queue[g][1] = q
  BY <1>1, LenProperties, HeadTailProperties, EmptySeq
<1>3. 1 \in 1..Len(queue[g])
  BY <1>2
<1> QED
  BY <1>2, <1>3 DEF InQueue

\* Who is first at its next gate, or has none and awaits nobody, does not wait.
LEMMA NotWaiting ==
    ASSUME NEW q \in Processes, pc[q] \notin {"rwait", "rfollow"},
           pc[q] \in GateLabels => First(q, GateOf(q))
    PROVE  Rank(q) = 0
<1>1. ~ Waiting(q)
  BY DEF Waiting, Waits, First
<1> QED
  BY <1>1 DEF Rank

\* The sweep waits at no record.
LEMMA SweepNotWaiting ==
    ASSUME IInv, SweepNeverWaits, pc[Sweeper] \in {"scan", "sprune"}
    PROVE  Rank(Sweeper) = 0
<1>1. Sweeper \in Processes
  BY DEF Processes
<1>2. CASE pc[Sweeper] = "scan"
  BY <1>1, <1>2, NotWaiting DEF GateLabels, WriterLabels, ReaderLabels, GlobalLabels
<1>3. CASE pc[Sweeper] = "sprune"
  <2>1. GateOf(Sweeper) = alive[cs[Sweeper]] /\ alive[cs[Sweeper]] \in Gates
    BY <1>3 DEF GateOf, IInv, TypeOK, SweepStable, Gates
  <2>2. ASSUME NEW r \in Processes, Waits(Sweeper, r) PROVE FALSE
    <3>1. First(r, alive[cs[Sweeper]]) /\ r \in Tasks
      BY <1>3, <2>1, <2>2 DEF Waits, Processes
    <3>2. InQueue(r, alive[cs[Sweeper]])
      BY <2>1, <3>1, FirstInQueue DEF IInv
    <3> QED
      BY <1>3, <3>1, <3>2 DEF SweepNeverWaits
  <2> QED
    BY <2>2 DEF Rank, Waiting
<1> QED
  BY <1>2, <1>3

\* Whoever is first at a gate ranks lower than those in line at it.
LEMMA FirstRank ==
    ASSUME IInv, Lines, SweepNeverWaits,
           NEW q \in Processes, NEW g \in Gates, First(q, g)
    PROVE  /\ Rank(q) \in 0..4
           /\ g = "writing" => Rank(q) = 0
           /\ g = "reading" => Rank(q) <= 1
           /\ g = "alive" => Rank(q) <= 2
           /\ g \in Records => Rank(q) <= 2
           /\ g \in Slots => Rank(q) <= 3
<1>1. InQueue(q, g) /\ Placed(q)
  BY FirstInQueue DEF IInv, Lines
<1>2. Rank(q) \in 0..4
  BY DEF Rank
<1>3. pc[q] \in {"scan", "sprune"} => Rank(q) = 0
  BY SweepNotWaiting DEF IInv, Located, Processes
<1>4. pc[q] \notin GateLabels \cup {"rwait", "rfollow"} => Rank(q) = 0
  BY NotWaiting
<1>5. pc[q] \in GateLabels /\ GateOf(q) = g => Rank(q) = 0
  <2> SUFFICES ASSUME pc[q] \in GateLabels, GateOf(q) = g PROVE Rank(q) = 0
    OBVIOUS
  <2>1. First(q, GateOf(q)) /\ pc[q] \notin {"rwait", "rfollow"}
    BY DEF GateLabels, WriterLabels, ReaderLabels, GlobalLabels
  <2> QED
    BY <2>1, NotWaiting
<1>6. /\ pc[q] \in ForWriting => Rank(q) <= 1
      /\ pc[q] \in ForReading => Rank(q) <= 2
      /\ pc[q] \in ForRecord => Rank(q) <= 3
  BY DEF Rank, ForWriting, ForReading, ForRecord
<1> HIDE DEF Rank
<1>7. CASE g = "writing"
  <2>1. pc[q] \in AtWriting
    BY <1>1, <1>7 DEF Placed
  <2>2. CASE pc[q] \in ForWriting
    BY <1>2, <1>5, <1>7, <2>2, GatesAssumption
      DEF ForWriting, GateOf, GateLabels, WriterLabels, ReaderLabels, GlobalLabels
  <2> QED
    BY <1>3, <1>7, <2>1, <2>2, GatesAssumption DEF AtWriting, ForWriting
<1>8. CASE g = "reading"
  <2>1. pc[q] \in AtReading
    BY <1>1, <1>8 DEF Placed
  <2>2. CASE pc[q] \in ForReading
    BY <1>2, <1>5, <1>8, <2>2, GatesAssumption
      DEF ForReading, GateOf, GateLabels, WriterLabels, ReaderLabels, GlobalLabels
  <2> QED
    BY <1>2, <1>3, <1>6, <1>8, <2>1, <2>2, GatesAssumption
      DEF AtReading, ForReading, ForWriting
<1>9. CASE g = "alive"
  <2>1. pc[q] \in AtAlive
    BY <1>1, <1>9 DEF Placed
  <2>2. CASE pc[q] \in {"walive", "ralive", "galive"}
    BY <1>2, <1>5, <1>9, <2>2, GatesAssumption
      DEF GateOf, GateLabels, WriterLabels, ReaderLabels, GlobalLabels
  <2> QED
    BY <1>2, <1>3, <1>6, <1>9, <2>1, <2>2, GatesAssumption
      DEF AtAlive, ForReading, ForWriting
<1>10. CASE g \in Records
  <2>1. \/ pc[q] = "sprune"
        \/ pc[q] \in RecordQueuer /\ living[q] = g
    BY <1>1, <1>10 DEF Placed, IInv, Queues, Processes
  <2>2. CASE pc[q] \in {"wliving", "rfound", "rfresh"} /\ living[q] = g
    BY <1>2, <1>5, <1>10, <2>2, GatesAssumption
      DEF GateOf, GateLabels, WriterLabels, ReaderLabels, GlobalLabels
  <2>3. CASE pc[q] \in {"wfile", "rload"}
    BY <1>4, <1>10, <2>3, GatesAssumption
      DEF GateLabels, WriterLabels, ReaderLabels, GlobalLabels
  <2> QED
    BY <1>2, <1>3, <1>6, <1>10, <2>1, <2>2, <2>3, GatesAssumption
      DEF RecordQueuer, RecordHolder, ForReading, ForWriting
<1>11. CASE g \in Slots
  <2>1. pc[q] \in AtSlot /\ slot[q] = g
    BY <1>1, <1>11 DEF Placed
  <2>2. CASE pc[q] = "wslot"
    BY <1>2, <1>5, <1>11, <2>1, <2>2, GatesAssumption
      DEF GateOf, GateLabels, WriterLabels, ReaderLabels, GlobalLabels
  <2>3. CASE pc[q] = "wfile"
    BY <1>4, <1>11, <2>3, GatesAssumption
      DEF GateLabels, WriterLabels, ReaderLabels, GlobalLabels
  <2> QED
    BY <1>2, <1>6, <1>11, <2>1, <2>2, <2>3, GatesAssumption
      DEF AtSlot, SlotUser, ForRecord, ForWriting
<1> QED
  BY <1>2, <1>7, <1>8, <1>9, <1>10, <1>11 DEF Gates, GlobalGates

\* Waiting goes down the ranks.
LEMMA RankFalls ==
    ASSUME IInv, Accounts, Lines, SweepNeverWaits,
           NEW p \in Processes, NEW q \in Processes, Waits(p, q)
    PROVE  Rank(p) \in 0..4 /\ Rank(q) \in 0..4 /\ Rank(q) < Rank(p)
<1>1. Waiting(p)
  BY DEF Waiting
<1>2. pc[p] \notin {"scan", "sprune"}
  <2> SUFFICES ASSUME pc[p] \in {"scan", "sprune"} PROVE FALSE
    OBVIOUS
  <2>1. p = Sweeper /\ Rank(p) = 0
    BY SweepNotWaiting DEF IInv, Located, Processes
  <2> QED
    BY <1>1, <2>1 DEF Rank
<1>3. /\ pc[p] \in ForWriting => Rank(p) = 1
      /\ pc[p] \in ForReading => Rank(p) = 2
      /\ pc[p] \in ForRecord => Rank(p) = 3
      /\ pc[p] \in {"wslot", "rwait", "rfollow"} => Rank(p) = 4
  BY <1>1 DEF Rank, ForWriting, ForReading, ForRecord
<1>4. Rank(p) \in 0..4 /\ Rank(q) \in 0..4
  BY DEF Rank
<1>5. CASE pc[p] \in GateLabels /\ First(q, GateOf(p))
  <2> DEFINE g == GateOf(p)
  <2>1. \/ pc[p] \in ForWriting /\ g = "writing"
        \/ pc[p] \in ForReading /\ g = "reading"
        \/ pc[p] \in {"walive", "ralive", "galive"} /\ g = "alive"
        \/ pc[p] \in {"wliving", "rfound", "rfresh"} /\ g = living[p]
        \/ pc[p] = "wslot" /\ g = slot[p]
    BY <1>2, <1>5 DEF ForWriting, ForReading, GateOf, GateLabels, WriterLabels,
      ReaderLabels, GlobalLabels
  <2>2. pc[p] \in {"wliving", "rfound", "rfresh", "wslot"} => p \in Tasks
    BY DEF IInv, Located, Processes, GlobalLabels
  <2>3. /\ pc[p] \in {"wliving", "rfound", "rfresh"} => living[p] \in Records
        /\ pc[p] = "wslot" => slot[p] \in Slots
    BY <2>2 DEF IInv, TypeOK, Located, RecordUser
  <2>4. /\ g \in Gates
        /\ pc[p] \in {"wliving", "rfound", "rfresh"} => g \in Records
        /\ pc[p] = "wslot" => g \in Slots
    BY <2>1, <2>3 DEF Gates, GlobalGates, ForWriting, ForReading
  <2>5. First(q, g)
    BY <1>5
  <2> HIDE DEF g
  <2>6. /\ g = "writing" => Rank(q) = 0
        /\ g = "reading" => Rank(q) <= 1
        /\ g = "alive" => Rank(q) <= 2
        /\ g \in Records => Rank(q) <= 2
        /\ g \in Slots => Rank(q) <= 3
    BY <2>4, <2>5, FirstRank
  <2> HIDE DEF Rank
  <2> QED
    BY <1>3, <1>4, <2>1, <2>4, <2>6 DEF ForRecord
<1>6. CASE pc[p] \in {"rwait", "rfollow"} /\ awaiting[p] = q
  <2>1. p \in Tasks /\ q # NoTask
    BY <1>6, ProcessesAssumption DEF IInv, Located, Processes, GlobalLabels
  <2>2. pc[q] \in {"walive", "wliving", "wfile", "wdone", "ralive", "rfound",
                   "rfresh", "rload", "rdrop", "rresolve", "rdone"}
    BY <1>6, <2>1 DEF Accounts, OwnerOfAwaited
  <2>3. pc[q] \in {"wfile", "rload", "rresolve"} => Rank(q) = 0
    BY NotWaiting DEF GateLabels, WriterLabels, ReaderLabels, GlobalLabels
  <2>4. pc[q] \in ForWriting \cup ForReading \cup ForRecord => Rank(q) <= 3
    BY DEF Rank, ForWriting, ForReading, ForRecord
  <2> HIDE DEF Rank
  <2> QED
    BY <1>3, <1>4, <1>6, <2>2, <2>3, <2>4 DEF ForWriting, ForReading, ForRecord
<1> QED
  BY <1>5, <1>6 DEF Waits

\* In every group there is one of the lowest rank.
LEMMA NoCircle ==
    ASSUME IInv, Accounts, Lines, SweepNeverWaits PROVE NoCircularWait
<1> SUFFICES ASSUME NEW group \in SUBSET Processes, group # {}
             PROVE  \E p \in group : \A q \in group : ~ Waits(p, q)
  BY DEF NoCircularWait
<1> DEFINE ranks == {n \in 0..4 : \E p \in group : Rank(p) = n}
<1>1. \A p \in group : Rank(p) \in 0..4
  BY DEF Rank
<1> HIDE DEF Rank
<1>2. ranks # {}
  BY <1>1
<1>3. PICK n \in ranks : \A m \in ranks : n <= m
  <2>1. \E n \in 0..4 : n \in ranks /\ \A m \in 0..4 : m \in ranks => n <= m
    BY <1>2
  <2> QED
    BY <2>1
<1>4. PICK p \in group : Rank(p) = n
  OBVIOUS
<1>5. ASSUME NEW q \in group, Waits(p, q) PROVE FALSE
  BY <1>1, <1>3, <1>4, <1>5, RankFalls
<1> QED
  BY <1>4, <1>5

\* Fibers of the cache never wait in a circle, however many there are.
THEOREM NobodyInACircle == Spec => []NoCircularWait
  BY NoCircle, InvariantHolds, AccountsHold, LinesHold, SweepUnblocked, PTL

\* While calls or a sweep go on, one of them waits for nobody: apply the above
\* to all of them, since whoever is waited for is at work.
THEOREM CacheGoesOn == Spec => []SomebodyGoes
<1>1. ASSUME IInv, Accounts, Lines, NoCircularWait PROVE SomebodyGoes
  <2> SUFFICES ASSUME NEW u \in Processes, pc[u] # "idle"
               PROVE  \E p \in Processes :
                        pc[p] # "idle" /\ \A q \in Processes : ~ Waits(p, q)
    BY DEF SomebodyGoes
  <2> DEFINE busy == {p \in Processes : pc[p] # "idle"}
  <2>1. busy \in SUBSET Processes /\ busy # {}
    OBVIOUS
  <2>2. PICK p \in busy : \A q \in busy : ~ Waits(p, q)
    BY <2>1, <1>1 DEF NoCircularWait
  <2>3. ASSUME NEW q \in Processes, Waits(p, q) PROVE q \in busy
    <3>1. CASE pc[p] \in GateLabels /\ First(q, GateOf(p))
      <4>1. GateOf(p) \in Gates
        BY <1>1, <3>1, GateType
      <4> DEFINE g == GateOf(p)
      <4>2. First(q, g) /\ g \in Gates
        BY <3>1, <4>1
      <4> HIDE DEF g
      <4>3. InQueue(q, g) /\ Placed(q)
        BY <1>1, <4>2, FirstInQueue DEF IInv, Lines
      <4> QED
        BY <1>1, <4>2, <4>3 DEF Placed, IInv, Queues, Gates, GlobalGates, Processes,
          AtAlive, AtReading, AtWriting, AtSlot, SlotUser, RecordQueuer, RecordHolder
    <3>2. CASE pc[p] \in {"rwait", "rfollow"} /\ awaiting[p] = q
      <4>1. p \in Tasks /\ q # NoTask
        BY <1>1, <3>2, ProcessesAssumption DEF IInv, Located, Processes, GlobalLabels
      <4> QED
        BY <1>1, <3>2, <4>1 DEF Accounts, OwnerOfAwaited
    <3> QED
      BY <2>3, <3>1, <3>2 DEF Waits
  <2> QED
    BY <2>2, <2>3
<1> QED
  BY <1>1, InvariantHolds, AccountsHold, LinesHold, NobodyInACircle, PTL

-----------------------------------------------------------------------------
\* EntryCache implements CacheService

\* Entry and File without the choices that define them.
Seen ==
    /\ Entry \in [Checksums -> Objects \cup {NoObject}]
    /\ \A c \in Checksums, o \in Objects : Entry[c] = o <=> about[o] = c
    /\ File \in [Checksums -> Tasks \cup {NoTask}]
    /\ \A c \in Checksums, t \in Tasks :
            File[c] = t <=> pc[t] \in {"wfile", "rload"} /\ cs[t] = c

LEMMA SeenFacts == IInv => Seen
<1> SUFFICES ASSUME IInv PROVE Seen
  OBVIOUS
<1>1. FileExclusion
  BY ExclusionOfInvariant
<1>2. \A o, p \in Objects : about[o] # NoChecksum /\ about[o] = about[p] => o = p
  BY DEF IInv, LivingLinked
<1>3. NoTask \notin Tasks
  BY ProcessesAssumption DEF Processes
<1>4. ASSUME NEW c \in Checksums
      PROVE  /\ Entry[c] \in Objects \cup {NoObject}
             /\ \A o \in Objects : Entry[c] = o <=> about[o] = c
  <2>1. \A o, p \in EntryOf(c) : o = p
    BY <1>2, NothingAssumption DEF EntryOf
  <2>2. \A o \in Objects : o \in EntryOf(c) <=> about[o] = c
    BY DEF EntryOf
  <2>3. EntryOf(c) \subseteq Objects
    BY DEF EntryOf
  <2>4. Entry[c] = IF EntryOf(c) = {} THEN NoObject ELSE CHOOSE o \in EntryOf(c) : TRUE
    BY DEF Entry
  <2> QED
    BY <2>1, <2>2, <2>3, <2>4, NothingAssumption
<1>5. ASSUME NEW c \in Checksums
      PROVE  /\ File[c] \in Tasks \cup {NoTask}
             /\ \A t \in Tasks : File[c] = t <=> pc[t] \in {"wfile", "rload"} /\ cs[t] = c
  <2>1. \A t, u \in FileUser(c) : t = u
    BY <1>1 DEF FileUser, FileExclusion
  <2>2. \A t \in Tasks : t \in FileUser(c) <=> pc[t] \in {"wfile", "rload"} /\ cs[t] = c
    BY DEF FileUser
  <2>3. FileUser(c) \subseteq Tasks
    BY DEF FileUser
  <2>4. File[c] = IF FileUser(c) = {} THEN NoTask ELSE CHOOSE t \in FileUser(c) : TRUE
    BY DEF File
  <2> QED
    BY <1>3, <2>1, <2>2, <2>3, <2>4
<1>6. Entry = [c \in Checksums |-> Entry[c]] /\ File = [c \in Checksums |-> File[c]]
  BY DEF Entry, File
<1> QED
  BY <1>4, <1>5, <1>6 DEF Seen

\* A step that makes and forgets no entry is not seen in the entries,
LEMMA EntryKept == ASSUME about' = about PROVE Entry' = Entry
  BY DEF Entry, EntryOf

\* one that leaves every call its checksum, not in the questions,
LEMMA AskedKept == ASSUME \A t \in Tasks : cs'[t] = cs[t] PROVE Asked' = Asked
  BY DEF Asked

\* and one that leaves every file its users, not in the files.
LEMMA FileKept ==
    ASSUME \A t \in Tasks, c \in Checksums :
        (pc'[t] \in {"wfile", "rload"} /\ cs'[t] = c)
            <=> (pc[t] \in {"wfile", "rload"} /\ cs[t] = c)
    PROVE  File' = File
<1>1. ASSUME NEW c \in Checksums PROVE File'[c] = File[c]
  <2>1. FileUser(c)' = FileUser(c)
    BY DEF FileUser
  <2> QED
    BY <2>1 DEF File
<1>2. /\ File = [c \in Checksums |-> File[c]]
      /\ File' = [c \in Checksums |-> File'[c]]
  BY DEF File
<1> QED
  BY <1>1, <1>2

\* A call that is not at its file goes to where it uses none: nobody's use of
\* a file changes.
LEMMA Unseen ==
    ASSUME TypeOK, about' = about, result' = result,
           \A t \in Tasks : /\ cs'[t] = cs[t]
                            /\ pc'[t] \in {"wfile", "rload"} <=> pc[t] \in {"wfile", "rload"}
    PROVE  UNCHANGED Service!vars
  BY EntryKept, AskedKept, FileKept DEF Service!vars

\* A call that leaves its file, whatever comes of it.
LEMMA Closing ==
    ASSUME IInv, Seen, Seen', NEW t \in Tasks, pc[t] \in {"wfile", "rload"},
           cs[t] \in Checksums, cs' = cs,
           pc' = [pc EXCEPT ![t] = pc'[t]], pc'[t] \notin {"wfile", "rload"}
    PROVE  File[cs[t]] = t /\ File' = [File EXCEPT ![cs[t]] = NoTask]
<1> DEFINE c == cs[t]
<1>1. File[c] = t
  BY DEF Seen
<1>2. \A u \in Tasks \ {t} : pc'[u] = pc[u] /\ cs'[u] = cs[u]
  BY DEF IInv, TypeOK, Processes
<1>3. File'[c] = NoTask
  <2> SUFFICES ASSUME NEW u \in Tasks, File'[c] = u PROVE FALSE
    BY DEF Seen
  <2>1. pc'[u] \in {"wfile", "rload"} /\ cs'[u] = c
    BY DEF Seen
  <2>2. u # t /\ File[c] = u
    BY <2>1, <1>2 DEF Seen
  <2> QED
    BY <1>1, <2>2
<1>4. \A d \in Checksums \ {c} : File'[d] = File[d]
  <2> SUFFICES ASSUME NEW d \in Checksums \ {c} PROVE File'[d] = File[d]
    OBVIOUS
  <2>1. FileUser(d)' = FileUser(d)
    BY <1>2 DEF FileUser
  <2> QED
    BY <2>1 DEF File
<1> QED
  BY <1>1, <1>3, <1>4 DEF Seen

\* It is seen as the end of a use, when no entry comes of it.
LEMMA CloseSeen ==
    ASSUME IInv, Seen, Seen', NEW t \in Tasks, pc[t] \in {"wfile", "rload"},
           cs[t] \in Checksums, cs' = cs, about' = about, result' = result,
           pc' = [pc EXCEPT ![t] = pc'[t]], pc'[t] \notin {"wfile", "rload"}
    PROVE  Service!Next
<1> DEFINE c == cs[t]
<1>1. File[c] = t /\ File' = [File EXCEPT ![c] = NoTask]
  BY Closing
<1>2. Entry' = Entry /\ Asked' = Asked
  BY EntryKept, AskedKept
<1>3. c \in Checksums
  OBVIOUS
<1> HIDE DEF c
<1> QED
  BY <1>1, <1>2, <1>3 DEF Service!Next, Service!Close

\* A call that begins to use its file finds it unused.
LEMMA OpenSeen ==
    ASSUME IInv, Seen, Seen', NEW t \in Tasks, pc[t] \notin {"wfile", "rload"},
           cs[t] \in Checksums, cs' = cs, about' = about, result' = result,
           pc' = [pc EXCEPT ![t] = pc'[t]], pc'[t] \in {"wfile", "rload"}
    PROVE  Service!Next
<1> DEFINE c == cs[t]
<1>1. \A u \in Tasks \ {t} : pc'[u] = pc[u] /\ cs'[u] = cs[u]
  BY DEF IInv, TypeOK, Processes
<1>2. File'[c] = t
  BY DEF Seen
<1>3. File[c] = NoTask
  <2> SUFFICES ASSUME NEW u \in Tasks, File[c] = u PROVE FALSE
    BY DEF Seen
  <2>1. pc[u] \in {"wfile", "rload"} /\ cs[u] = c
    BY DEF Seen
  <2>2. u # t /\ File'[c] = u
    BY <2>1, <1>1 DEF Seen
  <2> QED
    BY <1>2, <2>2
<1>4. \A d \in Checksums \ {c} : File'[d] = File[d]
  <2> SUFFICES ASSUME NEW d \in Checksums \ {c} PROVE File'[d] = File[d]
    OBVIOUS
  <2>1. FileUser(d)' = FileUser(d)
    BY <1>1 DEF FileUser
  <2> QED
    BY <2>1 DEF File
<1>5. File' = [File EXCEPT ![c] = t]
  BY <1>2, <1>4 DEF Seen
<1>6. Entry' = Entry /\ Asked' = Asked
  BY EntryKept, AskedKept
<1>7. c \in Checksums /\ Asked[t] = c
  BY DEF Asked
<1> HIDE DEF c
<1> QED
  BY <1>3, <1>5, <1>6, <1>7 DEF Service!Next, Service!Open

\* A call that returns answers, and answers those who wait for it.
LEMMA AnswerSeen ==
    ASSUME IInv, Seen, NEW t \in Tasks, NEW S \in SUBSET Tasks, Return(t),
           pc[t] \notin {"wfile", "rload"}, cs[t] \in Checksums, about' = about,
           \A u \in S : u # t /\ cs[u] = cs[t] /\ result[u] = NoObject,
           result' = [u \in Tasks |-> IF u = t THEN NoObject
                                      ELSE IF u \in S THEN result[t] ELSE result[u]]
    PROVE  Service!Next
<1> DEFINE c == cs[t]
<1>1. /\ pc' = [pc EXCEPT ![t] = "idle"] /\ cs' = [cs EXCEPT ![t] = NoChecksum]
  BY DEF Return, Goto
<1>2. Asked[t] = c /\ Asked' = [Asked EXCEPT ![t] = NoChecksum]
  BY <1>1 DEF Asked, IInv, TypeOK, Processes
<1>3. File[c] # t
  BY DEF Seen
<1>4. Entry' = Entry /\ File' = File
  BY <1>1, EntryKept, FileKept DEF IInv, TypeOK, Processes
<1>5. c \in Checksums /\ \A u \in S : u # t /\ Asked[u] = c /\ result[u] = NoObject
  BY DEF Asked
<1> HIDE DEF c
<1> QED
  BY <1>2, <1>3, <1>4, <1>5 DEF Service!Next, Service!Answer

\* Nobody waits for the answer.
LEMMA AnswerSeenAlone ==
    ASSUME IInv, Seen, NEW t \in Tasks, Return(t),
           pc[t] \notin {"wfile", "rload"}, cs[t] \in Checksums, about' = about,
           result' = [result EXCEPT ![t] = NoObject]
    PROVE  Service!Next
<1>1. PICK S \in SUBSET Tasks : S = {}
  OBVIOUS
<1>2. /\ \A u \in S : u # t /\ cs[u] = cs[t] /\ result[u] = NoObject
      /\ result' = [u \in Tasks |-> IF u = t THEN NoObject
                                    ELSE IF u \in S THEN result[t] ELSE result[u]]
  BY <1>1 DEF IInv, TypeOK
<1> QED
  BY <1>2, AnswerSeen

\* Every step of the cache is a step of the service, or not seen.
LEMMA ServiceStep == IInv /\ Accounts /\ Seen /\ Seen' /\ [Next]_vars =>
            [Service!Next]_Service!vars
<1> SUFFICES ASSUME IInv /\ Accounts /\ Seen /\ Seen', [Next]_vars PROVE [Service!Next]_Service!vars
  OBVIOUS
<1> USE DEF TypeOK, IInv, Accounts, Located, Answers, Processes, locals, tables, objects, WriterLabels, ReaderLabels, GlobalLabels
<1>1. ASSUME Start PROVE [Service!Next]_Service!vars
  BY <1>1, Unseen, ProcessesAssumption, NothingAssumption DEF Start
<1>2. ASSUME NEW p \in Processes, Arrive(p) PROVE [Service!Next]_Service!vars
  BY <1>2, Unseen, ProcessesAssumption, NothingAssumption DEF Arrive
<1>3. ASSUME NEW p \in Processes, HoldNext(p) PROVE [Service!Next]_Service!vars
  <2>1. p \in Tasks \/ p = Sweeper
    BY DEF Processes
  <2>2. CASE Inside(p, "galive") /\ Goto(p, "greading")
    BY <1>3, <2>1, <2>2, Unseen, ProcessesAssumption DEF HoldNext, Inside, Goto
  <2>3. CASE Inside(p, "greading") /\ Goto(p, "gwriting")
    BY <1>3, <2>1, <2>3, Unseen, ProcessesAssumption DEF HoldNext, Inside, Goto
  <2> QED
    BY <1>3, <2>2, <2>3 DEF HoldNext
<1>4. ASSUME NEW t \in Tasks, NEW c \in Checksums, Add(t, c) PROVE [Service!Next]_Service!vars
  <2>1. t \in Processes /\ cs[t] = NoChecksum /\ result' = result /\ about' = about
    BY <1>4 DEF Add, Get
  <2>2. pc' = [pc EXCEPT ![t] = pc'[t]] /\ pc'[t] \in {"wslot", "rcheck"} /\ pc[t] = "idle"
    BY <1>4 DEF Add, Get, Goto
  <2>3. cs' = [cs EXCEPT ![t] = c]
    BY <1>4 DEF Add, Get
  <2>4. Entry' = Entry /\ File' = File
    BY <2>1, <2>2, <2>3, EntryKept, FileKept
  <2>5. Asked[t] = NoChecksum /\ Asked' = [Asked EXCEPT ![t] = c]
    BY <2>1, <2>3 DEF Asked
  <2> QED
    BY <2>1, <2>4, <2>5 DEF Service!Next, Service!Ask
<1>5. ASSUME NEW t \in Tasks, NEW c \in Checksums, Get(t, c) PROVE [Service!Next]_Service!vars
  <2>1. t \in Processes /\ cs[t] = NoChecksum /\ result' = result /\ about' = about
    BY <1>5 DEF Add, Get
  <2>2. pc' = [pc EXCEPT ![t] = pc'[t]] /\ pc'[t] \in {"wslot", "rcheck"} /\ pc[t] = "idle"
    BY <1>5 DEF Add, Get, Goto
  <2>3. cs' = [cs EXCEPT ![t] = c]
    BY <1>5 DEF Add, Get
  <2>4. Entry' = Entry /\ File' = File
    BY <2>1, <2>2, <2>3, EntryKept, FileKept
  <2>5. Asked[t] = NoChecksum /\ Asked' = [Asked EXCEPT ![t] = c]
    BY <2>1, <2>3 DEF Asked
  <2> QED
    BY <2>1, <2>4, <2>5 DEF Service!Next, Service!Ask
<1>6. ASSUME NEW t \in Tasks, EnumerateDisk(t) PROVE [Service!Next]_Service!vars
  BY <1>6, Unseen, ProcessesAssumption, NothingAssumption DEF EnumerateDisk, Goto
<1>7. ASSUME NEW t \in Tasks, EnterSlot(t) PROVE [Service!Next]_Service!vars
  BY <1>7, Unseen, ProcessesAssumption, NothingAssumption DEF EnterSlot, Goto,
    Inside
<1>8. ASSUME NEW t \in Tasks, RegisterRejected(t) PROVE [Service!Next]_Service!vars
  <2>1. Return(t) /\ about' = about
    BY <1>8 DEF RegisterRejected
  <2>2. pc[t] \notin {"wfile", "rload"} /\ cs[t] \in Checksums
    BY <1>8 DEF RegisterRejected, Inside
  <2>3. result' = [result EXCEPT ![t] = NoObject]
    BY <1>8 DEF RegisterRejected, Inside
  <2> QED
    BY <2>1, <2>2, <2>3, AnswerSeenAlone
<1>9. ASSUME NEW t \in Tasks, RegisterWrite(t) PROVE [Service!Next]_Service!vars
  BY <1>9, Unseen, ProcessesAssumption, NothingAssumption DEF RegisterWrite, Goto,
    Inside
<1>10. ASSUME NEW t \in Tasks, BeginFile(t) PROVE [Service!Next]_Service!vars
  <2>1. /\ pc[t] \notin {"wfile", "rload"} /\ cs[t] \in Checksums /\ cs' = cs
        /\ pc' = [pc EXCEPT ![t] = pc'[t]] /\ pc'[t] \in {"wfile", "rload"}
        /\ result' = result /\ about' = about
    BY <1>10 DEF BeginFile, Inside, Goto
  <2> QED
    BY <2>1, OpenSeen
<1>11. ASSUME NEW t \in Tasks, EndFile(t) PROVE [Service!Next]_Service!vars
  <2>1. /\ pc[t] \in {"wfile", "rload"} /\ cs[t] \in Checksums /\ cs' = cs
        /\ pc' = [pc EXCEPT ![t] = pc'[t]] /\ pc'[t] \notin {"wfile", "rload"}
        /\ result' = result /\ about' = about
    BY <1>11 DEF EndFile, Goto
  <2> QED
    BY <2>1, CloseSeen
<1>12. ASSUME NEW t \in Tasks, FinishWrite(t) PROVE [Service!Next]_Service!vars
  <2>1. Return(t) /\ about' = about
    BY <1>12 DEF FinishWrite
  <2>2. pc[t] \notin {"wfile", "rload"} /\ cs[t] \in Checksums
    BY <1>12 DEF FinishWrite, Inside
  <2>3. result' = [result EXCEPT ![t] = NoObject]
    BY <1>12 DEF FinishWrite, Inside
  <2> QED
    BY <2>1, <2>2, <2>3, AnswerSeenAlone
<1>13. ASSUME NEW t \in Tasks, WriterAlive(t), LookUp(t) PROVE [Service!Next]_Service!vars
  BY <1>13, Unseen, ProcessesAssumption, NothingAssumption DEF WriterAlive, Goto,
    Inside, LookUp
<1>14. ASSUME NEW t \in Tasks, WriterAlive(t), Make(t) PROVE [Service!Next]_Service!vars
  BY <1>14, Unseen, ProcessesAssumption, NothingAssumption DEF WriterAlive, Goto,
    Inside, Make, Unused
<1>15. ASSUME NEW t \in Tasks, CheckWriting(t) PROVE [Service!Next]_Service!vars
  BY <1>15, Unseen, ProcessesAssumption, NothingAssumption DEF CheckWriting, Goto,
    Inside
<1>16. ASSUME NEW t \in Tasks, WriteAwaited(t) PROVE [Service!Next]_Service!vars
  BY <1>16, Unseen, ProcessesAssumption, NothingAssumption DEF WriteAwaited, Goto
<1>17. ASSUME NEW t \in Tasks, JoinRead(t) PROVE [Service!Next]_Service!vars
  BY <1>17, Unseen, ProcessesAssumption, NothingAssumption DEF JoinRead, Goto,
    Inside
<1>18. ASSUME NEW t \in Tasks, RegisterRead(t) PROVE [Service!Next]_Service!vars
  BY <1>18, Unseen, ProcessesAssumption, NothingAssumption DEF RegisterRead, Goto,
    Inside
<1>19. ASSUME NEW t \in Tasks, ReaderAlive(t), LookUp(t), Goto(t, "rfound") PROVE [Service!Next]_Service!vars
  BY <1>19, Unseen, ProcessesAssumption, NothingAssumption DEF ReaderAlive, Goto,
    Inside, LookUp
<1>20. ASSUME NEW t \in Tasks, ReaderAlive(t), Make(t), Goto(t, "rfresh") PROVE [Service!Next]_Service!vars
  BY <1>20, Unseen, ProcessesAssumption, NothingAssumption DEF ReaderAlive, Goto,
    Inside, Make, Unused
<1>21. ASSUME NEW t \in Tasks, TakeLiving(t) PROVE [Service!Next]_Service!vars
  <2> DEFINE c == cs[t]
  <2>1. /\ pc[t] = "rfound" /\ c \in Checksums /\ cs' = cs /\ about' = about
        /\ pc' = [pc EXCEPT ![t] = "rdrop"] /\ wr[living[t]] # NoObject
        /\ result' = [result EXCEPT ![t] = wr[living[t]]]
    BY <1>21 DEF TakeLiving, Inside, Goto
  <2>2. Entry' = Entry /\ Asked' = Asked /\ File' = File
    BY <2>1, EntryKept, AskedKept, FileKept
  <2>3. living[t] # NoRecord /\ alive[c] = living[t]
    BY <2>1 DEF RecordsAgree, RecordAgreement, RecordUser
  <2>4. wr[living[t]] \in Objects /\ about[wr[living[t]]] = c
    BY <2>1, <2>3 DEF LinkedLiving
  <2>5. Entry[c] = wr[living[t]]
    BY <2>1, <2>4 DEF Seen
  <2>6. result[t] = NoObject /\ Asked[t] = c
    BY <2>1 DEF Asked
  <2> HIDE DEF c
  <2> QED
    BY <2>1, <2>2, <2>4, <2>5, <2>6, NothingAssumption DEF Service!Next, Service!Take
<1>22. ASSUME NEW t \in Tasks, BeginLoad(t) PROVE [Service!Next]_Service!vars
  <2>1. /\ pc[t] \notin {"wfile", "rload"} /\ cs[t] \in Checksums /\ cs' = cs
        /\ pc' = [pc EXCEPT ![t] = pc'[t]] /\ pc'[t] \in {"wfile", "rload"}
        /\ result' = result /\ about' = about
    BY <1>22 DEF BeginLoad, Inside, Goto
  <2> QED
    BY <2>1, OpenSeen
<1>23. ASSUME NEW t \in Tasks, Loaded(t) PROVE [Service!Next]_Service!vars
  <2> DEFINE c == cs[t]
  <2>1. PICK o \in Objects : /\ about[o] = NoChecksum
                             /\ about' = [about EXCEPT ![o] = c]
                             /\ result' = [result EXCEPT ![t] = o]
    BY <1>23 DEF Loaded
  <2>2. /\ pc[t] = "rload" /\ c \in Checksums /\ cs' = cs
        /\ pc' = [pc EXCEPT ![t] = "rdone"]
    BY <1>23 DEF Loaded, Goto
  <2>3. File[c] = t /\ File' = [File EXCEPT ![c] = NoTask]
    BY <2>2, Closing
  <2>4. wr[living[t]] = NoObject /\ living[t] # NoRecord /\ alive[c] = living[t]
    BY <2>2 DEF LivingLinked, RecordsAgree, RecordAgreement, RecordUser
  <2>5. \A p \in Objects : about[p] # c
    BY <2>2, <2>4, NothingAssumption DEF LivingLinked
  <2>6. Entry[c] = NoObject /\ \A d \in Checksums : Entry[d] # o
    BY <2>1, <2>2, <2>5, NothingAssumption DEF Seen
  <2>7. \A d \in Checksums \ {c} : Entry'[d] = Entry[d]
    <3> SUFFICES ASSUME NEW d \in Checksums \ {c} PROVE Entry'[d] = Entry[d]
      OBVIOUS
    <3>1. EntryOf(d)' = EntryOf(d)
      BY <2>1, NothingAssumption DEF EntryOf
    <3> QED
      BY <3>1 DEF Entry
  <2>8. Entry'[c] = o
    BY <2>1, <2>2 DEF Seen
  <2>9. Entry' = [Entry EXCEPT ![c] = o]
    BY <2>7, <2>8 DEF Seen
  <2>10. Asked' = Asked
    BY <2>2, AskedKept
  <2> HIDE DEF c
  <2> QED
    BY <2>1, <2>2, <2>3, <2>6, <2>9, <2>10 DEF Service!Next, Service!Decache
<1>24. ASSUME NEW t \in Tasks, LoadFailed(t) PROVE [Service!Next]_Service!vars
  <2>1. /\ pc[t] \in {"wfile", "rload"} /\ cs[t] \in Checksums /\ cs' = cs
        /\ pc' = [pc EXCEPT ![t] = pc'[t]] /\ pc'[t] \notin {"wfile", "rload"}
        /\ result' = result /\ about' = about
    BY <1>24 DEF LoadFailed, Goto
  <2> QED
    BY <2>1, CloseSeen
<1>25. ASSUME NEW t \in Tasks, FinishRead(t) PROVE [Service!Next]_Service!vars
  <2>1. Return(t) /\ about' = about
    BY <1>25 DEF FinishRead
  <2>2. pc[t] \notin {"wfile", "rload"} /\ cs[t] \in Checksums /\ awaiting[t] = NoTask
    BY <1>25, NothingAssumption DEF FinishRead, Inside, OwnerOfAwaited
  <2>3. /\ \A u \in {w \in Tasks : awaiting[w] = t} : u # t /\ cs[u] = cs[t] /\ result[u] = NoObject
        /\ result' = [u \in Tasks |-> IF u = t THEN NoObject
                                      ELSE IF u \in {w \in Tasks : awaiting[w] = t} THEN result[t] ELSE result[u]]
    BY <1>25, <2>2, ProcessesAssumption DEF FinishRead, Inside, OwnerOfAwaited, Deliver
  <2> QED
    BY <2>1, <2>2, <2>3, AnswerSeen
<1>26. ASSUME NEW t \in Tasks, DropReading(t) PROVE [Service!Next]_Service!vars
  BY <1>26, Unseen, ProcessesAssumption, NothingAssumption DEF DropReading, Goto,
    Inside
<1>27. ASSUME NEW t \in Tasks, ResolveLiving(t) PROVE [Service!Next]_Service!vars
  <2>1. Return(t) /\ about' = about
    BY <1>27 DEF ResolveLiving
  <2>2. pc[t] \notin {"wfile", "rload"} /\ cs[t] \in Checksums /\ awaiting[t] = NoTask
    BY <1>27, NothingAssumption DEF ResolveLiving, Inside, OwnerOfAwaited
  <2>3. /\ \A u \in {w \in Tasks : awaiting[w] = t} : u # t /\ cs[u] = cs[t] /\ result[u] = NoObject
        /\ result' = [u \in Tasks |-> IF u = t THEN NoObject
                                      ELSE IF u \in {w \in Tasks : awaiting[w] = t} THEN result[t] ELSE result[u]]
    BY <1>27, <2>2, ProcessesAssumption DEF ResolveLiving, Inside, OwnerOfAwaited, Deliver
  <2> QED
    BY <2>1, <2>2, <2>3, AnswerSeen
<1>28. ASSUME NEW t \in Tasks, ReadFollowed(t) PROVE [Service!Next]_Service!vars
  <2>1. Return(t) /\ about' = about
    BY <1>28 DEF ReadFollowed
  <2>2. pc[t] \notin {"wfile", "rload"} /\ cs[t] \in Checksums
    BY <1>28 DEF ReadFollowed, Inside
  <2>3. result' = [result EXCEPT ![t] = NoObject]
    BY <1>28 DEF ReadFollowed, Inside
  <2> QED
    BY <2>1, <2>2, <2>3, AnswerSeenAlone
<1>29. ASSUME NEW t \in Tasks, Enumerated(t) PROVE [Service!Next]_Service!vars
  BY <1>29, Unseen, ProcessesAssumption, NothingAssumption DEF Enumerated, Goto,
    Return, Inside
<1>30. ASSUME NEW o \in Objects, Forget(o) PROVE [Service!Next]_Service!vars
  <2>1. /\ about[o] # NoChecksum /\ \A t \in Tasks : result[t] # o
        /\ about' = [about EXCEPT ![o] = NoChecksum]
        /\ pc' = pc /\ cs' = cs /\ result' = result
    BY <1>30 DEF Forget
  <2>2. PICK c \in Checksums : about[o] = c
    BY <2>1
  <2>3. Asked' = Asked /\ File' = File
    BY <2>1, AskedKept, FileKept
  <2>4. Entry[c] = o
    BY <2>2 DEF Seen
  <2>5. \A d \in Checksums \ {c} : Entry'[d] = Entry[d]
    <3> SUFFICES ASSUME NEW d \in Checksums \ {c} PROVE Entry'[d] = Entry[d]
      OBVIOUS
    <3>1. EntryOf(d)' = EntryOf(d)
      BY <2>1, <2>2, NothingAssumption DEF EntryOf
    <3> QED
      BY <3>1 DEF Entry
  <2>6. Entry'[c] = NoObject
    <3>1. \A p \in Objects : about'[p] # c
      BY <2>1, <2>2, <2>4, NothingAssumption DEF Seen
    <3> QED
      BY <3>1 DEF Entry, EntryOf
  <2>7. Entry' = [Entry EXCEPT ![c] = NoObject]
    BY <2>5, <2>6 DEF Seen
  <2>8. Service!Forget(c)
    BY <2>1, <2>3, <2>4, <2>7, NothingAssumption DEF Service!Forget
  <2> QED
    BY <2>8 DEF Service!Next
<1>31. ASSUME Wake PROVE [Service!Next]_Service!vars
  BY <1>31, Unseen, ProcessesAssumption, NothingAssumption DEF Wake, Goto
<1>32. ASSUME BeginScan PROVE [Service!Next]_Service!vars
  BY <1>32, Unseen, ProcessesAssumption, NothingAssumption DEF BeginScan, Goto,
    Inside
<1>33. ASSUME NEW c \in Checksums, SkipActive(c) PROVE [Service!Next]_Service!vars
  BY <1>33, Unseen, ProcessesAssumption, NothingAssumption DEF SkipActive
<1>34. ASSUME NEW c \in Checksums, Consider(c) PROVE [Service!Next]_Service!vars
  BY <1>34, Unseen, ProcessesAssumption, NothingAssumption DEF Consider, Goto
<1>35. ASSUME Prune PROVE [Service!Next]_Service!vars
  BY <1>35, Unseen, ProcessesAssumption, NothingAssumption DEF Prune, Goto, Inside
<1>36. ASSUME EndScan PROVE [Service!Next]_Service!vars
  BY <1>36, Unseen, ProcessesAssumption, NothingAssumption DEF EndScan, Goto
<1>37. CASE UNCHANGED vars
  BY <1>37, Unseen DEF vars
<1> QED
  BY <1>1, <1>2, <1>3, <1>4, <1>5, <1>6, <1>7, <1>8, <1>9, <1>10, <1>11, <1>12,
    <1>13, <1>14, <1>15, <1>16, <1>17, <1>18, <1>19, <1>20, <1>21, <1>22, <1>23,
    <1>24, <1>25, <1>26, <1>27, <1>28, <1>29, <1>30, <1>31, <1>32, <1>33, <1>34,
    <1>35, <1>36, <1>37
    DEF Next, SweepStep, Sweep, Call, Step, Writer, Reader, WriterAlive, ReaderAlive

\* The service starts as the cache does.
LEMMA InitService == Init => Service!Init
<1> SUFFICES ASSUME Init PROVE Service!Init
  OBVIOUS
<1>1. Asked = [t \in Tasks |-> NoChecksum]
  BY DEF Init, Asked, Processes
<1>2. \A c \in Checksums : EntryOf(c) = {} /\ FileUser(c) = {}
  BY NothingAssumption DEF Init, EntryOf, FileUser, Processes
<1>3. /\ Entry = [c \in Checksums |-> NoObject]
      /\ File = [c \in Checksums |-> NoTask]
  BY <1>2 DEF Entry, File
<1> QED
  BY <1>1, <1>3 DEF Service!Init, Init

\* The entry cache manager implements CacheService: seen by its callers, with
\* no gates and no tables, a file has one user, a checksum one entry, and every
\* answer is that entry.
THEOREM ServiceImplemented == Spec => ServiceSpec
<1>1. IInv /\ IInv' /\ Accounts /\ [Next]_vars => [Service!Next]_Service!vars
  <2>1. IInv' => Seen'
    BY SeenFacts, PTL
  <2> QED
    BY <2>1, SeenFacts, ServiceStep
<1> QED
  BY <1>1, InitService, InvariantHolds, AccountsHold, PTL
    DEF Spec, ServiceSpec, Service!Spec
=============================================================================
