---------------------- MODULE TransactionManagerProofs ----------------------
(***************************************************************************)
(* Proofs about TransactionManager.  IInv is inductive; from it follow     *)
(* that the backend runs one transaction at a time, that the transaction a *)
(* request is merged into is on the list, that the holds on an entry count *)
(* the transactions about it which have not been let go of, that no queue  *)
(* is forgotten, and that the manager implements SerialTransactions.       *)
(***************************************************************************)
EXTENDS TransactionManager, FiniteSetTheorems, SequenceTheorems, TLAPS

\* The requests whose holds have not been released.
Held == {r \in added : \A b \in Batches : r \in content[b] => phase[b] # "gone"}

\* Those of them that are about an entry.
HeldAbout(e) == {r \in Held : e \in uses[r]}

LEMMA HoldBalanceIsHeld == HoldBalance <=> \A e \in Entries : hold[e] = Cardinality(HeldAbout(e))
BY DEF HoldBalance, HoldsOn, HeldAbout, Held

LEMMA Singletons ==
    \A b, d : <<b>> # <<>> /\ (<<b>> = <<d>> => b = d)
OBVIOUS

\* The queue is empty or holds one batch.
LEMMA ShortQueue ==
    ASSUME TypeOK, QueueOfOne
    PROVE  queue = <<>> \/ \E b \in Batches : queue = <<b>> /\ phase[b] = "queued"
<1>1. CASE Len(queue) = 0
  BY <1>1 DEF TypeOK
<1>2. CASE Len(queue) = 1
  <2>1. queue = <<queue[1]>> /\ queue[1] \in Batches
    BY <1>2 DEF TypeOK
  <2> QED
    BY <2>1 DEF QueueOfOne
<1>3. Len(queue) \in Nat
  BY LenProperties DEF TypeOK
<1> QED
  BY <1>1, <1>2, <1>3 DEF QueueOfOne

\* dispatch_next sleeps, waits for the current batch or starts the queued one.
LEMMA Dispatched ==
    ASSUME NEW q, NEW cur, NEW pause, NEW ph,
           q = <<>> \/ \E b \in Batches : q = <<b>>,
           DispatchNext(q, cur, pause, ph)
    PROVE  \/ /\ q = <<>> \/ pause
              /\ loop' = NoBatch /\ queue' = q /\ current' = cur /\ phase' = ph
           \/ /\ q # <<>> /\ ~ pause /\ cur # NoBatch
              /\ loop' = loop /\ queue' = q /\ current' = cur /\ phase' = ph
           \/ \E b \in Batches :
                /\ q = <<b>> /\ ~ pause /\ cur = NoBatch
                /\ queue' = <<>> /\ current' = b /\ loop' = b
                /\ phase' = [ph EXCEPT ![b] = "spawned"]
<1>1. \A b : Head(<<b>>) = b /\ Tail(<<b>>) = <<>>
  OBVIOUS
<1> QED
  BY <1>1 DEF DispatchNext

\* The end of bz_transaction_manager_add starts the queued batch or lets it wait.
LEMMA Enqueued ==
    ASSUME NEW b \in Batches, NEW ph, Enqueue(<<b>>, ph)
    PROVE  \/ /\ loop # NoBatch \/ paused \/ current # NoBatch
              /\ queue' = <<b>> /\ current' = current /\ loop' = loop /\ phase' = ph
           \/ /\ loop = NoBatch /\ ~ paused /\ current = NoBatch
              /\ queue' = <<>> /\ current' = b /\ loop' = b
              /\ phase' = [ph EXCEPT ![b] = "spawned"]
<1>1. CASE loop = NoBatch /\ ~ paused
  <2>1. DispatchNext(<<b>>, current, paused, ph)
    BY <1>1 DEF Enqueue
  <2>2. \A d : <<b>> # <<>> /\ (<<b>> = <<d>> => d = b)
    OBVIOUS
  <2> QED
    BY <1>1, <2>1, <2>2, Dispatched
<1>2. CASE ~ (loop = NoBatch /\ ~ paused)
  BY <1>2 DEF Enqueue
<1> QED
  BY <1>1, <1>2

LEMMA InitInvariant == Init => IInv
<1> SUFFICES ASSUME Init PROVE IInv
  OBVIOUS
<1>1. TypeOK
  <2>1. queue \in Seq(Batches)
    BY DEF Init
  <2>2. /\ uses \in [Requests -> SUBSET Entries]
        /\ content \in [Batches -> SUBSET Requests]
        /\ phase \in [Batches -> Phases]
        /\ outcome \in [Batches -> {"none", "success", "failure"}]
        /\ hold \in [Entries -> Int]
    BY DEF Init, Phases
  <2> QED
    BY <2>1, <2>2 DEF Init, TypeOK
<1>2. HoldBalance
  <2>1. \A e \in Entries : HeldAbout(e) = {} /\ hold[e] = 0
    BY DEF Init, HeldAbout, Held
  <2> QED
    BY <2>1, FS_EmptySet, HoldBalanceIsHeld
<1>3. QueueOfOne
  BY DEF Init, QueueOfOne
<1>4. Merged
  BY DEF Init, Merged
<1> QED
  BY <1>1, <1>2, <1>3, <1>4
  DEF Init, IInv, CurrentOnly, OneAtATime, Answered, QueuedOnList, NoSleepingQueue

\* A request that is new holds the entries it names once more.
LEMMA HoldAdded ==
    ASSUME TypeOK, Merged, HoldBalance, NEW r \in Requests, NEW E \in SUBSET Entries,
           r \notin added, added' = added \cup {r},
           uses' = [uses EXCEPT ![r] = E], Hold(E),
           \A b \in Batches : phase'[b] = "gone" <=> phase[b] = "gone",
           \A b \in Batches : content'[b] = content[b] \/ content'[b] = content[b] \cup {r},
           \A b \in Batches : r \in content'[b] => phase'[b] # "gone"
    PROVE  HoldBalance'
<1>1. Held' = Held \cup {r} /\ r \notin Held
  BY DEF Held, Merged
<1>2. ASSUME NEW e \in Entries
      PROVE  hold'[e] = Cardinality(HeldAbout(e)')
  <2>1. HeldAbout(e)' = HeldAbout(e) \cup (IF e \in E THEN {r} ELSE {})
    BY <1>1 DEF HeldAbout, Held, TypeOK
  <2>2. IsFiniteSet(HeldAbout(e)) /\ r \notin HeldAbout(e)
    BY <1>1, FS_Subset, RequestsAssumption DEF HeldAbout, Held, TypeOK
  <2>3. hold[e] = Cardinality(HeldAbout(e))
    BY HoldBalanceIsHeld
  <2>4. CASE e \in E
    <3>1. Cardinality(HeldAbout(e) \cup {r}) = Cardinality(HeldAbout(e)) + 1
      BY <2>2, FS_AddElement
    <3> QED
      BY <2>1, <2>3, <2>4, <3>1 DEF Hold
  <2>5. CASE e \notin E
    BY <2>1, <2>3, <2>5 DEF Hold
  <2> QED
    BY <2>4, <2>5
<1> QED
  BY <1>2 DEF HoldBalance, HoldsOn, HeldAbout, Held

\* A step that frees no batch keeps the balance.
LEMMA HoldKept ==
    ASSUME HoldBalance, UNCHANGED <<added, uses, content, hold>>,
           \A b \in Batches : phase'[b] = "gone" <=> phase[b] = "gone"
    PROVE  HoldBalance'
<1>1. \A e \in Entries : HeldAbout(e)' = HeldAbout(e)
  BY DEF HeldAbout, Held
<1> QED
  BY <1>1 DEF HoldBalance, HoldsOn, HeldAbout, Held

-----------------------------------------------------------------------------
\* Every action preserves the invariant.

LEMMA AddNewStep ==
    ASSUME IInv, NEW r \in Requests, NEW E \in SUBSET Entries, AddNew(r, E)
    PROVE  IInv'
<1> DEFINE ph == [phase EXCEPT ![r] = "queued"]
<1> USE DEF IInv, Batches
<1>1. /\ r \notin added /\ queue = <<>> /\ added' = added \cup {r}
      /\ uses' = [uses EXCEPT ![r] = E] /\ Hold(E)
      /\ content' = [content EXCEPT ![r] = {r}]
      /\ store' = store \cup {r} /\ paused' = paused /\ outcome' = outcome
  BY DEF AddNew
<1>2. \/ /\ loop # NoBatch \/ paused \/ current # NoBatch
         /\ queue' = <<r>> /\ current' = current /\ loop' = loop /\ phase' = ph
      \/ /\ loop = NoBatch /\ ~ paused /\ current = NoBatch
         /\ queue' = <<>> /\ current' = r /\ loop' = r
         /\ phase' = [ph EXCEPT ![r] = "spawned"]
  <2> HIDE DEF ph
  <2>1. Enqueue(<<r>>, ph)
    BY DEF AddNew, ph
  <2> QED
    BY <2>1, Enqueued
<1>3. phase[r] = "none" /\ content[r] = {} /\ outcome[r] = "none"
  BY <1>1 DEF Merged, Answered, TypeOK
<1>4. \A b \in Batches : b # r => phase[b] # "queued"
  BY <1>1 DEF QueueOfOne
<1>5. \A b \in Batches : r \notin content[b]
  BY <1>1 DEF Merged
<1>6. TypeOK'
  <2>1. queue' \in Seq(Batches)
    <3>1. <<r>> \in Seq(Batches) /\ <<>> \in Seq(Batches)
      OBVIOUS
    <3> QED
      BY <1>2, <3>1
  <2>2. phase' \in [Batches -> Phases]
    BY <1>2 DEF TypeOK, Phases
  <2>3. hold' \in [Entries -> Int]
    BY <1>1 DEF TypeOK, Hold
  <2> QED
    BY <1>1, <1>2, <2>1, <2>2, <2>3 DEF TypeOK
<1>7. /\ phase'[r] = IF queue' = <<>> THEN "spawned" ELSE "queued"
      /\ \A b \in Batches : b # r => phase'[b] = phase[b]
  BY <1>2, Singletons DEF TypeOK
<1>8. QueueOfOne'
  <2>1. queue' = <<>> \/ queue' = <<r>>
    BY <1>2
  <2>2. Len(queue') <= 1
    <3>1. CASE queue' = <<>>
      BY <3>1
    <3>2. CASE queue' = <<r>>
      BY <3>2
    <3> QED
      BY <2>1, <3>1, <3>2
  <2>3. ASSUME NEW b \in Batches PROVE phase'[b] = "queued" <=> queue' = <<b>>
    BY <1>4, <1>7, <2>1, Singletons
  <2> QED
    BY <2>2, <2>3 DEF QueueOfOne
<1>9. CurrentOnly'
  BY <1>2, <1>3, <1>7, NoBatchAssumption DEF CurrentOnly, OneAtATime, TypeOK
<1>10. Answered'
  BY <1>1, <1>3, <1>7 DEF Answered
<1>11. Merged'
  BY <1>1, <1>3, <1>5, <1>7 DEF Merged, TypeOK
<1>12. QueuedOnList'
  <2>1. \A j \in 1..Len(queue') : queue'[j] = r
    BY <1>2
  <2> QED
    BY <1>1, <2>1 DEF QueuedOnList
<1>13. HoldBalance'
  BY <1>1, <1>3, <1>5, <1>7, HoldAdded DEF TypeOK
<1>14. NoSleepingQueue'
  BY <1>1, <1>2 DEF NoSleepingQueue
<1> QED
  BY <1>6, <1>8, <1>9, <1>10, <1>11, <1>12, <1>13, <1>14

LEMMA AddMergedStep ==
    ASSUME IInv, NEW r \in Requests, NEW E \in SUBSET Entries, AddMerged(r, E)
    PROVE  IInv'
<1> USE DEF IInv, Batches
<1>1. PICK b \in Batches : queue = <<b>> /\ phase[b] = "queued"
  BY ShortQueue DEF AddMerged
<1>2. /\ r \notin added /\ added' = added \cup {r}
      /\ uses' = [uses EXCEPT ![r] = E] /\ Hold(E)
      /\ content' = [content EXCEPT ![b] = @ \cup {r}]
      /\ store' = store /\ paused' = paused /\ outcome' = outcome
  <2>1. queue[Len(queue)] = b
    BY <1>1
  <2> QED
    BY <2>1 DEF AddMerged
<1>3. \/ /\ loop # NoBatch \/ paused \/ current # NoBatch
         /\ queue' = <<b>> /\ current' = current /\ loop' = loop /\ phase' = phase
      \/ /\ loop = NoBatch /\ ~ paused /\ current = NoBatch
         /\ queue' = <<>> /\ current' = b /\ loop' = b
         /\ phase' = [phase EXCEPT ![b] = "spawned"]
  <2>1. Enqueue(<<b>>, phase)
    BY <1>1 DEF AddMerged
  <2> QED
    BY <2>1, Enqueued
<1>4. b \in content[b] /\ outcome[b] = "none" /\ b \in store /\ b # r
  <2>1. b = queue[1] /\ 1 \in 1..Len(queue)
    BY <1>1
  <2> QED
    BY <1>1, <1>2, <2>1 DEF Merged, Answered, QueuedOnList
<1>5. \A d \in Batches : d # b => phase[d] # "queued"
  <2>1. \A d : <<b>> = <<d>> => b = d
    OBVIOUS
  <2> QED
    BY <1>1, <2>1 DEF QueueOfOne
<1>6. \A d \in Batches : r \notin content[d]
  BY <1>2 DEF Merged
<1>7. TypeOK'
  <2>1. queue' \in Seq(Batches)
    <3>1. <<b>> \in Seq(Batches) /\ <<>> \in Seq(Batches)
      OBVIOUS
    <3> QED
      BY <1>3, <3>1
  <2>2. phase' \in [Batches -> Phases]
    BY <1>3 DEF TypeOK, Phases
  <2>3. hold' \in [Entries -> Int]
    BY <1>2 DEF TypeOK, Hold
  <2>4. current' \in Batches \cup {NoBatch} /\ loop' \in Batches \cup {NoBatch}
    BY <1>3 DEF TypeOK
  <2>5. content' \in [Batches -> SUBSET Requests]
    BY <1>2 DEF TypeOK
  <2>6. added' \subseteq Requests /\ uses' \in [Requests -> SUBSET Entries]
    BY <1>2 DEF TypeOK
  <2> QED
    BY <1>2, <2>1, <2>2, <2>3, <2>4, <2>5, <2>6 DEF TypeOK
<1>8. /\ phase'[b] = IF queue' = <<>> THEN "spawned" ELSE "queued"
      /\ \A d \in Batches : d # b => phase'[d] = phase[d]
  BY <1>1, <1>3, Singletons DEF TypeOK
<1>9. QueueOfOne'
  <2>1. queue' = <<>> \/ queue' = <<b>>
    BY <1>3
  <2>2. Len(queue') <= 1
    <3>1. CASE queue' = <<>>
      BY <3>1
    <3>2. CASE queue' = <<b>>
      BY <3>2
    <3> QED
      BY <2>1, <3>1, <3>2
  <2>3. ASSUME NEW d \in Batches PROVE phase'[d] = "queued" <=> queue' = <<d>>
    BY <1>5, <1>8, <2>1, Singletons
  <2> QED
    BY <2>2, <2>3 DEF QueueOfOne
<1>10. CurrentOnly'
  BY <1>1, <1>3, <1>8, NoBatchAssumption DEF CurrentOnly, OneAtATime, TypeOK
<1>11. Answered'
  BY <1>1, <1>2, <1>4, <1>8 DEF Answered
<1>12. Merged'
  <2>1. \A d \in Batches : content'[d] = IF d = b THEN content[b] \cup {r} ELSE content[d]
    BY <1>2 DEF TypeOK
  <2>2. phase[b] # "none" /\ phase'[b] # "none"
    BY <1>1, <1>8
  <2>3. added' = UNION {content'[d] : d \in Batches}
    BY <1>2, <2>1 DEF Merged
  <2>4. \A c, d \in Batches : content'[c] \cap content'[d] # {} => c = d
    BY <1>6, <2>1 DEF Merged
  <2>5. \A d \in Batches : phase'[d] # "none" <=> d \in content'[d]
    BY <1>4, <1>8, <2>1, <2>2 DEF Merged
  <2>6. \A d \in Batches : phase'[d] = "none" => content'[d] = {}
    BY <1>8, <2>1, <2>2 DEF Merged
  <2> QED
    BY <2>3, <2>4, <2>5, <2>6 DEF Merged
<1>13. QueuedOnList'
  <2>1. \A j \in 1..Len(queue') : queue'[j] = b
    BY <1>3
  <2> QED
    BY <1>2, <1>4, <2>1 DEF QueuedOnList
<1>14. HoldBalance'
  <2>1. \A d \in Batches : content'[d] = content[d] \/ content'[d] = content[d] \cup {r}
    BY <1>2 DEF TypeOK
  <2>2. \A d \in Batches : r \in content'[d] => d = b
    BY <1>2, <1>6 DEF TypeOK
  <2>3. phase'[b] # "gone" /\ \A d \in Batches : phase'[d] = "gone" <=> phase[d] = "gone"
    BY <1>1, <1>8
  <2> QED
    BY <1>2, <2>1, <2>2, <2>3, HoldAdded DEF TypeOK
<1>15. NoSleepingQueue'
  BY <1>1, <1>2, <1>3, NoBatchAssumption DEF NoSleepingQueue
<1> QED
  BY <1>7, <1>9, <1>10, <1>11, <1>12, <1>13, <1>14, <1>15

\* The batch that waits is started, when none runs.
LEMMA StartQueued ==
    ASSUME IInv, NEW b \in Batches, queue = <<b>>,
           \A d \in Batches : phase[d] \notin {"spawned", "running"},
           queue' = <<>>, current' = b, loop' = b,
           phase' = [phase EXCEPT ![b] = "spawned"],
           paused' \in BOOLEAN,
           UNCHANGED <<added, uses, content, outcome, store, hold>>
    PROVE  IInv'
<1> USE DEF IInv
<1>1. phase[b] = "queued" /\ \A d \in Batches : d # b => phase[d] # "queued"
  BY Singletons DEF QueueOfOne
<1>2. /\ phase'[b] = "spawned"
      /\ \A d \in Batches : d # b => phase'[d] = phase[d]
  BY DEF TypeOK
<1>3. TypeOK'
  <2>1. phase' \in [Batches -> Phases]
    BY DEF TypeOK, Phases
  <2>2. queue' \in Seq(Batches)
    OBVIOUS
  <2> QED
    BY <2>1, <2>2 DEF TypeOK
<1>4. QueueOfOne'
  BY <1>1, <1>2, Singletons DEF QueueOfOne
<1>5. CurrentOnly'
  BY <1>2 DEF CurrentOnly, OneAtATime
<1>6. Answered'
  BY <1>1, <1>2 DEF Answered
<1>7. Merged'
  BY <1>1, <1>2 DEF Merged
<1>8. QueuedOnList'
  BY DEF QueuedOnList
<1>9. HoldBalance'
  BY <1>1, <1>2, HoldKept
<1>10. NoSleepingQueue'
  BY NoBatchAssumption DEF NoSleepingQueue, Batches
<1> QED
  BY <1>3, <1>4, <1>5, <1>6, <1>7, <1>8, <1>9, <1>10

\* The loop, the current batch and the pause flag change, no batch does.
LEMMA LoopStep ==
    ASSUME IInv,
           UNCHANGED <<added, uses, content, queue, phase, outcome, store, hold>>,
           paused' \in BOOLEAN, current' \in Batches \cup {NoBatch},
           loop' \in Batches \cup {NoBatch}, CurrentOnly', NoSleepingQueue'
    PROVE  IInv'
<1> USE DEF IInv
<1>1. TypeOK'
  BY DEF TypeOK
<1>2. QueueOfOne' /\ Answered' /\ Merged' /\ QueuedOnList'
  BY DEF QueueOfOne, Answered, Merged, QueuedOnList
<1>3. HoldBalance'
  BY HoldKept
<1> QED
  BY <1>1, <1>2, <1>3

LEMMA ThenLoopStep ==
    ASSUME IInv, ThenLoop
    PROVE  IInv'
<1> USE DEF IInv
<1>1. /\ loop \in Batches /\ current = loop /\ phase[loop] = "finished"
      /\ UNCHANGED <<added, uses, content, paused, outcome, store, hold>>
  BY DEF ThenLoop, TypeOK, CurrentOnly
<1>2. \A d \in Batches : phase[d] \notin {"spawned", "running"}
  BY <1>1 DEF CurrentOnly, OneAtATime
<1>3. queue = <<>> \/ \E b \in Batches : queue = <<b>>
  BY ShortQueue
<1>4. DispatchNext(queue, NoBatch, paused, phase)
  BY DEF ThenLoop
<1>5. CASE /\ queue = <<>> \/ paused
           /\ loop' = NoBatch /\ queue' = queue /\ current' = NoBatch /\ phase' = phase
  <2>1. CurrentOnly'
    BY <1>2, <1>5 DEF CurrentOnly, OneAtATime
  <2>2. NoSleepingQueue'
    BY <1>1, <1>5 DEF NoSleepingQueue
  <2> QED
    BY <1>1, <1>5, <2>1, <2>2, LoopStep DEF TypeOK
<1>6. CASE \E b \in Batches :
                /\ queue = <<b>> /\ ~ paused
                /\ queue' = <<>> /\ current' = b /\ loop' = b
                /\ phase' = [phase EXCEPT ![b] = "spawned"]
  BY <1>1, <1>2, <1>6, StartQueued DEF TypeOK, NoSleepingQueue
<1> QED
  BY <1>3, <1>4, <1>5, <1>6, Dispatched

LEMMA SetPausedStep ==
    ASSUME IInv, NEW pause \in BOOLEAN, SetPaused(pause)
    PROVE  IInv'
<1> USE DEF IInv
<1>1. /\ paused' = pause
      /\ UNCHANGED <<added, uses, content, outcome, store, hold>>
  BY DEF SetPaused
<1>2. CASE /\ UNCHANGED <<queue, phase, current>> /\ loop' \in {loop, NoBatch}
           /\ pause \/ queue = <<>> \/ current # NoBatch
  <2>1. CurrentOnly' /\ NoSleepingQueue'
    BY <1>1, <1>2 DEF CurrentOnly, OneAtATime, NoSleepingQueue
  <2> QED
    BY <1>1, <1>2, <2>1, LoopStep DEF TypeOK
<1>3. CASE pause
  BY <1>2, <1>3 DEF SetPaused
<1>4. CASE ~ pause
  <2>1. DispatchNext(queue, current, pause, phase)
    BY <1>4 DEF SetPaused
  <2>2. queue = <<>> \/ \E b \in Batches : queue = <<b>>
    BY ShortQueue
  <2>3. CASE \E b \in Batches :
                /\ queue = <<b>> /\ current = NoBatch
                /\ queue' = <<>> /\ current' = b /\ loop' = b
                /\ phase' = [phase EXCEPT ![b] = "spawned"]
    <3>1. \A d \in Batches : phase[d] \notin {"spawned", "running"}
      BY <2>3, NoBatchAssumption DEF CurrentOnly, OneAtATime, Batches
    <3> QED
      BY <1>1, <2>3, <3>1, StartQueued
  <2>4. CASE /\ UNCHANGED <<queue, phase, current>> /\ loop' \in {loop, NoBatch}
             /\ queue = <<>> \/ current # NoBatch
    BY <1>2, <2>4
  <2>5. \/ /\ queue = <<>> /\ loop' = NoBatch
           /\ queue' = queue /\ current' = current /\ phase' = phase
        \/ /\ current # NoBatch /\ loop' = loop
           /\ queue' = queue /\ current' = current /\ phase' = phase
        \/ \E b \in Batches :
                /\ queue = <<b>> /\ current = NoBatch
                /\ queue' = <<>> /\ current' = b /\ loop' = b
                /\ phase' = [phase EXCEPT ![b] = "spawned"]
    <3> HIDE DEF IInv
    <3> QED
      BY <1>4, <2>1, <2>2, Dispatched
  <2> QED
    BY <2>3, <2>4, <2>5
<1> QED
  BY <1>3, <1>4

\* A batch that has been dispatched goes on.
LEMMA PhaseStep ==
    ASSUME IInv, NEW b \in Batches, NEW x \in Phases \ {"none", "queued"},
           phase[b] \notin {"none", "queued"},
           phase' = [phase EXCEPT ![b] = x],
           UNCHANGED <<added, uses, content, queue, current, loop, paused, store>>,
           outcome' \in [Batches -> {"none", "success", "failure"}],
           hold' \in [Entries -> Int],
           x \in {"spawned", "running"} => b = current,
           x = "gone" => b # current,
           Answered', HoldBalance'
    PROVE  IInv'
<1> USE DEF IInv
<1>1. phase'[b] = x /\ \A d \in Batches : d # b => phase'[d] = phase[d]
  BY DEF TypeOK
<1>2. TypeOK'
  BY DEF TypeOK
<1>3. QueueOfOne'
  BY <1>1 DEF QueueOfOne
<1>4. CurrentOnly'
  BY <1>1 DEF CurrentOnly, OneAtATime
<1>5. Merged'
  BY <1>1 DEF Merged
<1>6. QueuedOnList' /\ NoSleepingQueue'
  BY DEF QueuedOnList, NoSleepingQueue
<1> QED
  BY <1>2, <1>3, <1>4, <1>5, <1>6

LEMMA BeginRunStep ==
    ASSUME IInv, NEW b \in Batches, BeginRun(b) \/ Discard(b)
    PROVE  IInv'
<1>1. PICK x \in {"running", "discarded"} : phase' = [phase EXCEPT ![b] = x]
  BY DEF BeginRun, Discard
<1>2. /\ phase[b] \in {"spawned", "running"} /\ b = current
      /\ UNCHANGED <<added, uses, content, queue, current, loop, paused,
                     outcome, store, hold>>
  BY DEF BeginRun, Discard, IInv, CurrentOnly, OneAtATime
<1>3. Answered'
  BY <1>1, <1>2 DEF Answered, IInv, TypeOK
<1>4. HoldBalance'
  <2>1. \A d \in Batches : phase'[d] = "gone" <=> phase[d] = "gone"
    BY <1>1, <1>2 DEF IInv, TypeOK
  <2> QED
    BY <1>2, <2>1, HoldKept DEF IInv
<1>5. x \in Phases \ {"none", "queued"}
  BY DEF Phases
<1> QED
  BY <1>1, <1>2, <1>3, <1>4, <1>5, PhaseStep DEF IInv, TypeOK

LEMMA EndRunStep ==
    ASSUME IInv, NEW b \in Batches, NEW result \in {"success", "failure"},
           EndRun(b, result)
    PROVE  IInv'
<1>1. /\ phase[b] = "running" /\ phase' = [phase EXCEPT ![b] = "finished"]
      /\ outcome' = [outcome EXCEPT ![b] = result]
      /\ UNCHANGED <<added, uses, content, queue, current, loop, paused, store, hold>>
  BY DEF EndRun
<1>2. Answered'
  BY <1>1 DEF Answered, IInv, TypeOK
<1>3. HoldBalance'
  <2>1. \A d \in Batches : phase'[d] = "gone" <=> phase[d] = "gone"
    BY <1>1 DEF IInv, TypeOK
  <2> QED
    BY <1>1, <2>1, HoldKept DEF IInv
<1>4. /\ outcome' \in [Batches -> {"none", "success", "failure"}]
      /\ hold' \in [Entries -> Int]
  BY <1>1 DEF IInv, TypeOK
<1>5. "finished" \in Phases \ {"none", "queued"}
  BY DEF Phases
<1> QED
  BY <1>1, <1>2, <1>3, <1>4, <1>5, PhaseStep

LEMMA FinishDataStep ==
    ASSUME IInv, NEW b \in Batches, FinishData(b)
    PROVE  IInv'
<1>1. /\ phase[b] = "finished" /\ b # current
      /\ phase' = [phase EXCEPT ![b] = "gone"]
      /\ Release(content[b])
      /\ UNCHANGED <<added, uses, content, queue, current, loop, paused, outcome, store>>
  BY DEF FinishData
<1>2. phase'[b] = "gone" /\ \A d \in Batches : d # b => phase'[d] = phase[d]
  BY <1>1 DEF IInv, TypeOK
<1>3. Answered'
  BY <1>1, <1>2 DEF Answered, IInv
<1>4. Held' = Held \ content[b] /\ content[b] \subseteq Held
  BY <1>1, <1>2 DEF Held, IInv, Merged
<1>5. ASSUME NEW e \in Entries
      PROVE  hold'[e] = Cardinality(HeldAbout(e)') /\ hold'[e] \in Int
  <2> DEFINE freed == {r \in content[b] : e \in uses[r]}
  <2>1. HeldAbout(e)' = HeldAbout(e) \ freed /\ HeldAbout(e) \cap freed = freed
    BY <1>1, <1>4 DEF HeldAbout, Held
  <2>2. IsFiniteSet(HeldAbout(e))
    BY FS_Subset, RequestsAssumption DEF HeldAbout, Held, IInv, TypeOK
  <2>3. Cardinality(HeldAbout(e) \ freed)
            = Cardinality(HeldAbout(e)) - Cardinality(HeldAbout(e) \cap freed)
    <3> HIDE DEF freed
    <3> QED
      BY <2>2, FS_Difference
  <2>4. hold[e] = Cardinality(HeldAbout(e))
    BY HoldBalanceIsHeld DEF IInv
  <2>5. hold'[e] = hold[e] - Cardinality(freed)
    BY <1>1 DEF Release, HoldsOn
  <2>6. IsFiniteSet(HeldAbout(e)')
    BY <2>1, <2>2, FS_Difference
  <2>7. Cardinality(HeldAbout(e)') \in Nat
    BY <2>6, FS_CardinalityType
  <2>8. hold'[e] = Cardinality(HeldAbout(e) \ freed)
    <3> HIDE DEF freed
    <3> QED
      BY <2>1, <2>3, <2>4, <2>5
  <2> QED
    BY <2>1, <2>7, <2>8
<1>6. HoldBalance'
  BY <1>5 DEF HoldBalance, HoldsOn, HeldAbout, Held
<1>7. hold' \in [Entries -> Int]
  BY <1>1, <1>5 DEF Release
<1>8. "gone" \in Phases \ {"none", "queued"}
  BY DEF Phases
<1> QED
  BY <1>1, <1>3, <1>6, <1>7, <1>8, PhaseStep DEF IInv, TypeOK

LEMMA ClearFinishedStep ==
    ASSUME IInv, ClearFinished
    PROVE  IInv'
<1> USE DEF IInv
<1>1. /\ store' = {b \in store : outcome[b] = "none"}
      /\ UNCHANGED <<added, uses, content, queue, current, loop, paused, phase,
                     outcome, hold>>
  BY DEF ClearFinished
<1>2. QueuedOnList'
  <2>1. ASSUME NEW i \in 1..Len(queue)
        PROVE  phase[queue[i]] = "queued" /\ queue[i] \in Batches
    BY ShortQueue
  <2> QED
    BY <1>1, <2>1 DEF QueuedOnList, Answered
<1>3. TypeOK' /\ QueueOfOne' /\ CurrentOnly' /\ Answered' /\ Merged' /\ NoSleepingQueue'
  BY <1>1 DEF TypeOK, QueueOfOne, CurrentOnly, OneAtATime, Answered, Merged,
      NoSleepingQueue
<1>4. HoldBalance'
  BY <1>1, HoldKept
<1> QED
  BY <1>2, <1>3, <1>4

LEMMA StepInvariant == IInv /\ [Next]_vars => IInv'
<1> SUFFICES ASSUME IInv, [Next]_vars PROVE IInv'
  OBVIOUS
<1>1. ASSUME NEW r \in Requests, NEW E \in (SUBSET Entries) \ {{}},
             AddNew(r, E) \/ AddMerged(r, E)
      PROVE  IInv'
  BY <1>1, AddNewStep, AddMergedStep
<1>2. ASSUME NEW b \in Batches, BeginRun(b) \/ FinishData(b) \/ Discard(b)
      PROVE  IInv'
  BY <1>2, BeginRunStep, FinishDataStep
<1>3. ASSUME NEW b \in Batches, NEW result \in {"success", "failure"}, EndRun(b, result)
      PROVE  IInv'
  BY <1>3, EndRunStep
<1>4. CASE UNCHANGED vars
  <2>1. CurrentOnly' /\ NoSleepingQueue'
    BY <1>4 DEF vars, IInv, CurrentOnly, OneAtATime, NoSleepingQueue
  <2> QED
    BY <1>4, <2>1, LoopStep DEF vars, IInv, TypeOK
<1> QED
  BY <1>1, <1>2, <1>3, <1>4, ThenLoopStep, ClearFinishedStep, SetPausedStep DEF Next

-----------------------------------------------------------------------------
\* The invariant holds, for any set of requests and entries and whether or not
\* the manager is paused: src/src/bz-transaction-manager.c keeps its queue,
\* its current batch, its list and the holds of the entries consistent.
THEOREM InvariantHolds == Spec => []IInv
  BY InitInvariant, StepInvariant, PTL DEF Spec

\* The backend runs at most one transaction at a time: bz_transaction_manager_add
\* and then_loop_cb never start one while another runs.
THEOREM RunsOneAtATime == Spec => []OneAtATime
<1>1. IInv => OneAtATime
  BY DEF IInv, CurrentOnly
<1> QED
  BY <1>1, InvariantHolds, PTL

\* The assertion in bz_transaction_manager_add holds: the transaction that a
\* request is merged into is on the list of transactions.
THEOREM MergeFindsTransaction == Spec => []QueuedOnList
<1>1. IInv => QueuedOnList
  BY DEF IInv
<1> QED
  BY <1>1, InvariantHolds, PTL

\* bz_transaction_hold and bz_transaction_release balance: an entry is held
\* once per transaction about it that has not been let go of.
THEOREM HoldsCounted == Spec => []HoldBalance
<1>1. IInv => HoldBalance
  BY DEF IInv
<1> QED
  BY <1>1, InvariantHolds, PTL

\* No request waits while nothing runs and the manager is not paused: add,
\* then_loop_cb and set_paused between them never forget the queue.
THEOREM QueueAwake == Spec => []NoSleepingQueue
<1>1. IInv => NoSleepingQueue
  BY DEF IInv
<1> QED
  BY <1>1, InvariantHolds, PTL

-----------------------------------------------------------------------------
\* TransactionManager implements SerialTransactions

\* A run that nobody awaits is that of the current batch, and no loop does.
Stays == \A b \in Batches : phase[b] = "discarded" => b = current /\ loop = NoBatch

\* Its batch stays the current one: every way on leads through the loop.
LEMMA StaysStep == IInv /\ Stays /\ [Next]_vars => Stays'
<1> SUFFICES ASSUME IInv, Stays, [Next]_vars PROVE Stays'
  OBVIOUS
<1> USE DEF IInv, TypeOK, Stays
<1>1. queue = <<>> \/ \E b \in Batches : queue = <<b>> /\ phase[b] = "queued"
  BY ShortQueue
<1>2. ASSUME NEW r \in Requests, NEW E, AddNew(r, E) PROVE Stays'
  <2> DEFINE ph == [phase EXCEPT ![r] = "queued"]
  <2>1. Enqueue(<<r>>, ph) /\ r \in Batches
    BY <1>2 DEF AddNew, Batches
  <2>2. ph \in [Batches -> Phases] /\ \A d \in Batches : ph[d] = "discarded" => phase[d] = "discarded"
    BY DEF Phases
  <2> HIDE DEF ph
  <2> QED
    BY <2>1, <2>2, Enqueued, NoBatchAssumption DEF Batches
<1>3. ASSUME NEW r \in Requests, NEW E, AddMerged(r, E) PROVE Stays'
  <2>1. PICK b \in Batches : queue = <<b>>
    BY <1>1, <1>3 DEF AddMerged
  <2>2. Enqueue(<<b>>, phase)
    BY <1>3, <2>1 DEF AddMerged
  <2> QED
    BY <2>2, Enqueued, NoBatchAssumption DEF Batches
<1>4. ASSUME NEW b \in Batches, BeginRun(b) PROVE Stays'
  BY <1>4 DEF BeginRun
<1>5. ASSUME NEW b \in Batches, FinishData(b) PROVE Stays'
  BY <1>5 DEF FinishData
<1>6. ASSUME NEW b \in Batches, Discard(b) PROVE Stays'
  BY <1>6 DEF Discard, CurrentOnly, OneAtATime
<1>7. ASSUME NEW b \in Batches, NEW result, EndRun(b, result) PROVE Stays'
  BY <1>7 DEF EndRun
<1>8. CASE ThenLoop
  <2>1. DispatchNext(queue, NoBatch, paused, phase) /\ loop # NoBatch
    BY <1>8 DEF ThenLoop
  <2> QED
    BY <1>1, <2>1, Dispatched
<1>9. CASE ClearFinished
  BY <1>9 DEF ClearFinished
<1>10. ASSUME NEW pause \in BOOLEAN, SetPaused(pause) PROVE Stays'
  <2>1. CASE pause
    BY <1>10, <2>1 DEF SetPaused
  <2>2. CASE ~ pause
    <3>1. DispatchNext(queue, current, pause, phase)
      BY <1>10, <2>2 DEF SetPaused
    <3> QED
      BY <1>1, <2>2, <3>1, Dispatched, NoBatchAssumption DEF Batches
  <2> QED
    BY <2>1, <2>2
<1>11. CASE UNCHANGED vars
  BY <1>11 DEF vars
<1> QED
  BY <1>2, <1>3, <1>4, <1>5, <1>6, <1>7, <1>8, <1>9, <1>10, <1>11 DEF Next

\* Waiting, Active and Answers without the sets and choices that define them.
Seen ==
    /\ queue = <<>> => Waiting = {}
    /\ \A b \in Batches : queue = <<b>> => Waiting = content[b]
    /\ (\A b \in Batches : phase[b] \notin Begun) => Active = {}
    /\ \A b \in Batches : phase[b] \in Begun => Active = content[b]
    /\ \A b \in Batches : \A r \in content[b] : Answers[r] = outcome[b]
    /\ \A r \in Requests \ added : Answers[r] = "none"
    /\ Waiting \subseteq added /\ Active \subseteq added

LEMMA SeenFacts == IInv /\ Stays => Seen
<1> SUFFICES ASSUME IInv, Stays PROVE Seen
  OBVIOUS
<1> USE DEF IInv
<1>1. queue = <<>> => Waiting = {}
  <2>1. queue = <<>> => \A b \in Batches : phase[b] # "queued"
    BY Singletons DEF QueueOfOne
  <2> QED
    BY <2>1 DEF Waiting
<1>2. ASSUME NEW b \in Batches, queue = <<b>> PROVE Waiting = content[b]
  <2>1. \A d \in Batches : phase[d] = "queued" <=> d = b
    BY <1>2, Singletons DEF QueueOfOne
  <2> QED
    BY <2>1 DEF Waiting
<1>3. (\A b \in Batches : phase[b] \notin Begun) => Active = {}
  BY DEF Active
<1>4. ASSUME NEW b \in Batches, phase[b] \in Begun PROVE Active = content[b]
  <2>1. \A d \in Batches : phase[d] \in Begun <=> d = b
    BY <1>4 DEF Begun, CurrentOnly, OneAtATime, Stays
  <2> QED
    BY <2>1 DEF Active
<1>5. ASSUME NEW b \in Batches, NEW r \in content[b] PROVE Answers[r] = outcome[b]
  <2>1. r \in Requests /\ \A d \in Batches : r \in content[d] <=> d = b
    BY <1>5 DEF Merged, TypeOK
  <2>2. Answers[r] = Answer(r)
    BY <2>1 DEF Answers
  <2>3. outcome[b] \in {"none", "success", "failure"}
    BY DEF TypeOK
  <2>4. CASE outcome[b] = "none"
    BY <2>1, <2>2, <2>4 DEF Answer
  <2>5. CASE outcome[b] # "none"
    <3>1. \A d \in Batches : r \in content[d] /\ outcome[d] # "none" <=> d = b
      BY <2>1, <2>5
    <3>2. (CHOOSE d \in Batches : r \in content[d] /\ outcome[d] # "none") = b
      BY <3>1
    <3> QED
      BY <2>2, <3>1, <3>2 DEF Answer
  <2> QED
    BY <2>4, <2>5
<1>6. ASSUME NEW r \in Requests \ added PROVE Answers[r] = "none"
  <2>1. \A b \in Batches : r \notin content[b]
    BY <1>6 DEF Merged
  <2> QED
    BY <2>1 DEF Answers, Answer
<1>7. Waiting \subseteq added /\ Active \subseteq added
  BY DEF Waiting, Active, Merged
<1> QED
  BY <1>1, <1>2, <1>3, <1>4, <1>5, <1>6, <1>7 DEF Seen

\* A step that keeps what is merged and answered, and moves no batch into or
\* out of the queue or a run, is not seen.
LEMMA Unseen ==
    ASSUME content' = content, outcome' = outcome,
           \A b \in Batches : /\ phase'[b] = "queued" <=> phase[b] = "queued"
                              /\ phase'[b] \in Begun <=> phase[b] \in Begun
    PROVE  UNCHANGED Serial!vars
<1>1. Waiting' = Waiting /\ Active' = Active
  BY DEF Waiting, Active
<1>2. Answers' = Answers
  BY DEF Answers, Answer
<1> QED
  BY <1>1, <1>2 DEF Serial!vars

\* Who was answered keeps the answer, who was not gets none.
LEMMA AnswersKept ==
    ASSUME IInv, Seen, Seen', outcome' = outcome, added \subseteq added',
           \A b \in Batches : content[b] \subseteq content'[b],
           \A r \in added' \ added : Answers'[r] = "none"
    PROVE  Answers' = Answers
<1>1. ASSUME NEW r \in Requests PROVE Answers'[r] = Answers[r]
  <2>1. CASE r \in added
    <3>1. PICK b \in Batches : r \in content[b]
      BY <2>1 DEF IInv, Merged
    <3>2. Answers[r] = outcome[b]
      BY <3>1 DEF Seen
    <3>3. Answers'[r] = outcome'[b]
      BY <3>1 DEF Seen
    <3> QED
      BY <3>2, <3>3
  <2>2. CASE r \notin added
    BY <2>2 DEF Seen
  <2> QED
    BY <2>1, <2>2
<1>2. Answers = [r \in Requests |-> Answers[r]] /\ Answers' = [r \in Requests |-> Answers'[r]]
  BY DEF Answers
<1> QED
  BY <1>1, <1>2

\* The queued batch starts when nothing runs.
LEMMA StartSeen ==
    ASSUME IInv, Stays, Seen, Seen', NEW b \in Batches, queue = <<b>>, queue' = <<>>,
           current = NoBatch \/ phase[current] = "finished",
           phase' = [phase EXCEPT ![b] = "spawned"],
           content' = content, outcome' = outcome
    PROVE  Serial!Next
<1>1. \A d \in Batches : phase[d] \notin Begun
  BY NoBatchAssumption DEF IInv, CurrentOnly, OneAtATime, Stays, Begun, Batches
<1>2. phase'[b] \in Begun
  BY DEF IInv, TypeOK, Begun
<1>3. Waiting = content[b] /\ Active = {}
  BY <1>1 DEF Seen
<1>4. Waiting' = {} /\ Active' = content[b]
  BY <1>2 DEF Seen
<1>5. Answers' = Answers
  BY DEF Answers, Answer
<1> QED
  BY <1>3, <1>4, <1>5 DEF Serial!Next, Serial!Start

\* A request goes into the batch that waits, which waits on or starts.
LEMMA SubmitSeen ==
    ASSUME IInv, Stays, Seen, Seen', NEW r \in Requests, NEW b \in Batches, NEW ph,
           r \notin added, added' = added \cup {r}, outcome' = outcome,
           content' = [content EXCEPT ![b] = content[b] \cup {r}],
           Waiting = content[b], outcome[b] = "none", phase[b] \notin Begun,
           ph = [phase EXCEPT ![b] = "queued"], Enqueue(<<b>>, ph)
    PROVE  Serial!Next
<1> USE DEF IInv, TypeOK
<1>1. /\ content'[b] = Waiting \cup {r}
      /\ \A d \in Batches \ {b} : content'[d] = content[d]
  OBVIOUS
<1>2. Answers'[r] = "none"
  BY <1>1 DEF Seen
<1>3. Answers' = Answers
  BY <1>1, <1>2, AnswersKept
<1>4. /\ r \notin Waiting \cup Active /\ Answers[r] = "none"
  BY DEF Seen
<1>5. CASE queue' = <<b>> /\ phase' = ph
  <2>1. Waiting' = Waiting \cup {r}
    BY <1>1, <1>5 DEF Seen
  <2>2. \A d \in Batches : /\ phase'[d] \in Begun <=> phase[d] \in Begun
                           /\ phase[d] \in Begun => content'[d] = content[d]
    BY <1>1, <1>5 DEF Begun
  <2>3. Active' = Active
    BY <2>2 DEF Active
  <2>4. Serial!Submit(r)
    BY <1>3, <1>4, <2>1, <2>3 DEF Serial!Submit
  <2> QED
    BY <2>4 DEF Serial!Next
<1>6. CASE /\ current = NoBatch /\ queue' = <<>>
           /\ phase' = [ph EXCEPT ![b] = "spawned"]
  <2>1. \A d \in Batches : phase[d] \notin Begun
    BY <1>6, NoBatchAssumption DEF CurrentOnly, OneAtATime, Stays, Begun, Batches
  <2>2. phase'[b] \in Begun
    BY <1>6 DEF Begun
  <2>3. Active = {} /\ Active' = Waiting \cup {r} /\ Waiting' = {}
    BY <1>1, <1>6, <2>1, <2>2 DEF Seen
  <2>4. Serial!SubmitAndStart(r)
    BY <1>3, <1>4, <2>3 DEF Serial!SubmitAndStart
  <2> QED
    BY <2>4 DEF Serial!Next
<1> QED
  BY <1>5, <1>6, Enqueued

\* Every step of the manager is a step of SerialTransactions, or not seen.
LEMMA SerialStep ==
    IInv /\ Stays /\ Seen /\ Seen' /\ [Next]_vars => [Serial!Next]_Serial!vars
<1> SUFFICES ASSUME IInv, Stays, Seen, Seen', [Next]_vars
             PROVE  [Serial!Next]_Serial!vars
  OBVIOUS
<1> USE DEF IInv, TypeOK
<1>1. queue = <<>> \/ \E b \in Batches : queue = <<b>> /\ phase[b] = "queued"
  BY ShortQueue
<1>2. ASSUME NEW r \in Requests, NEW E, AddNew(r, E) PROVE Serial!Next
  <2>1. r \in Batches /\ r \notin added /\ queue = <<>>
    BY <1>2 DEF AddNew, Batches
  <2>2. content[r] = {} /\ phase[r] = "none"
    BY <2>1 DEF Merged
  <2>3. Waiting = content[r] /\ outcome[r] = "none" /\ phase[r] \notin Begun
    BY <2>1, <2>2 DEF Seen, Answered, Begun
  <2>4. /\ added' = added \cup {r} /\ outcome' = outcome
        /\ content' = [content EXCEPT ![r] = content[r] \cup {r}]
        /\ Enqueue(<<r>>, [phase EXCEPT ![r] = "queued"])
    BY <1>2, <2>2 DEF AddNew
  <2> QED
    BY <2>1, <2>3, <2>4, SubmitSeen
<1>3. ASSUME NEW r \in Requests, NEW E, AddMerged(r, E) PROVE Serial!Next
  <2>1. PICK b \in Batches : queue = <<b>> /\ phase[b] = "queued"
    BY <1>1, <1>3 DEF AddMerged
  <2>2. Waiting = content[b] /\ outcome[b] = "none" /\ phase[b] \notin Begun
    BY <2>1 DEF Seen, Answered, Begun
  <2>3. queue[Len(queue)] = b
    BY <2>1
  <2>4. /\ added' = added \cup {r} /\ outcome' = outcome /\ r \notin added
        /\ content' = [content EXCEPT ![b] = content[b] \cup {r}]
        /\ Enqueue(<<b>>, phase)
    BY <1>3, <2>1, <2>3 DEF AddMerged
  <2>5. phase = [phase EXCEPT ![b] = "queued"]
    BY <2>1
  <2> QED
    BY <2>2, <2>4, <2>5, SubmitSeen
<1>4. ASSUME NEW b \in Batches, BeginRun(b) \/ FinishData(b) \/ Discard(b)
      PROVE  UNCHANGED Serial!vars
  <2>1. /\ content' = content /\ outcome' = outcome
        /\ \A d \in Batches : /\ phase'[d] = "queued" <=> phase[d] = "queued"
                              /\ phase'[d] \in Begun <=> phase[d] \in Begun
    BY <1>4 DEF BeginRun, FinishData, Discard, Begun
  <2> QED
    BY <2>1, Unseen
<1>5. ASSUME NEW b \in Batches, NEW result \in {"success", "failure"}, EndRun(b, result)
      PROVE  Serial!Next
  <2>1. /\ phase[b] = "running" /\ phase' = [phase EXCEPT ![b] = "finished"]
        /\ outcome' = [outcome EXCEPT ![b] = result]
        /\ UNCHANGED <<content, added>>
    BY <1>5 DEF EndRun
  <2>2. b \in content[b] /\ Active = content[b]
    BY <2>1 DEF Merged, Seen, Begun
  <2>3. \A d \in Batches : phase[d] \in Begun => d = b
    BY <2>1 DEF CurrentOnly, OneAtATime, Stays, Begun
  <2>4. Active' = {}
    BY <2>1, <2>3 DEF Seen, Begun
  <2>5. Waiting' = Waiting
    BY <2>1 DEF Waiting
  <2>6. ASSUME NEW r \in Requests
        PROVE  Answers'[r] = IF r \in Active THEN result ELSE Answers[r]
    <3>1. CASE r \in content[b]
      BY <2>1, <2>2, <3>1 DEF Seen
    <3>2. CASE r \in added \ content[b]
      <4>1. PICK d \in Batches : r \in content[d]
        BY <3>2 DEF Merged
      <4>2. d # b /\ outcome'[d] = outcome[d]
        BY <2>1, <3>2, <4>1
      <4> QED
        BY <2>1, <2>2, <3>2, <4>1, <4>2 DEF Seen
    <3>3. CASE r \notin added
      BY <2>1, <2>2, <3>3 DEF Seen
    <3> QED
      BY <3>1, <3>2, <3>3
  <2>7. Answers' = [r \in Requests |-> IF r \in Active THEN result ELSE Answers[r]]
    BY <2>6 DEF Answers
  <2>8. Serial!Finish(result)
    BY <2>2, <2>4, <2>5, <2>7 DEF Serial!Finish
  <2> QED
    BY <2>8 DEF Serial!Next
<1>6. CASE ThenLoop
  <2>1. /\ DispatchNext(queue, NoBatch, paused, phase) /\ content' = content
        /\ outcome' = outcome /\ loop # NoBatch /\ phase[loop] = "finished"
    BY <1>6 DEF ThenLoop
  <2>2. phase[current] = "finished"
    BY <2>1 DEF CurrentOnly
  <2>3. \/ phase' = phase
        \/ \E b \in Batches : /\ queue = <<b>> /\ queue' = <<>>
                              /\ phase' = [phase EXCEPT ![b] = "spawned"]
    BY <1>1, <2>1, Dispatched
  <2> QED
    BY <2>1, <2>2, <2>3, Unseen, StartSeen
<1>7. CASE ClearFinished
  BY <1>7, Unseen DEF ClearFinished
<1>8. ASSUME NEW pause \in BOOLEAN, SetPaused(pause) PROVE [Serial!Next]_Serial!vars
  <2>1. content' = content /\ outcome' = outcome
    BY <1>8 DEF SetPaused
  <2>2. CASE pause
    BY <1>8, <2>1, <2>2, Unseen DEF SetPaused
  <2>3. CASE ~ pause
    <3>1. DispatchNext(queue, current, pause, phase)
      BY <1>8, <2>3 DEF SetPaused
    <3>2. \/ phase' = phase
          \/ \E b \in Batches : /\ queue = <<b>> /\ queue' = <<>> /\ current = NoBatch
                                /\ phase' = [phase EXCEPT ![b] = "spawned"]
      BY <1>1, <2>3, <3>1, Dispatched
    <3> QED
      BY <2>1, <3>2, Unseen, StartSeen
  <2> QED
    BY <2>2, <2>3
<1>9. CASE UNCHANGED vars
  BY <1>9, Unseen DEF vars
<1> QED
  BY <1>2, <1>3, <1>4, <1>5, <1>6, <1>7, <1>8, <1>9 DEF Next

\* The manager starts as SerialTransactions does.
LEMMA InitSerial == Init => Serial!Init /\ Stays
<1> SUFFICES ASSUME Init PROVE Serial!Init /\ Stays
  OBVIOUS
<1>1. Waiting = {} /\ Active = {} /\ Stays
  BY DEF Init, Waiting, Active, Begun, Stays
<1>2. Answers = [r \in Requests |-> "none"]
  BY DEF Init, Answers, Answer
<1> QED
  BY <1>1, <1>2 DEF Serial!Init

\* The transaction manager implements SerialTransactions: with the merging of
\* bz_transaction_manager_add, pauses and runs that are discarded, requests are
\* still served group by group, and each gets the outcome of its group.
THEOREM SerialImplemented == Spec => SerialSpec
<1>1. IInv /\ IInv' /\ Stays /\ Stays' /\ [Next]_vars => [Serial!Next]_Serial!vars
  <2>1. IInv' /\ Stays' => Seen'
    BY SeenFacts, PTL
  <2> QED
    BY <2>1, SeenFacts, SerialStep
<1>2. IInv /\ Stays /\ [Next]_vars => Stays'
  BY StaysStep
<1> QED
  BY <1>1, <1>2, InitSerial, InvariantHolds, PTL
    DEF Spec, SerialSpec, Serial!Spec
=============================================================================
