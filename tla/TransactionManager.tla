------------------------- MODULE TransactionManager -------------------------
(***************************************************************************)
(* The transaction manager, src/src/bz-transaction-manager.c, with the     *)
(* holds that src/src/bz-transaction.c takes on entries.  Everything here  *)
(* runs on the main thread, so an action is a call, a fiber between two    *)
(* awaits, or the callback of a future.                                    *)
(*                                                                         *)
(* A BzTransaction given to bz_transaction_manager_add is a request.  The  *)
(* QueuedScheduleData that is made for a request may have later requests   *)
(* merged into its transaction; it is named by its first request and       *)
(* called a batch.  The backend's run of a batch is external.              *)
(***************************************************************************)
EXTENDS Integers, Sequences, FiniteSets

CONSTANTS
    Requests,    \* the transactions that callers add
    Entries,     \* the entries that transactions install, update or remove
    NoBatch

ASSUME NoBatchAssumption == NoBatch \notin Requests
ASSUME RequestsAssumption == IsFiniteSet(Requests)

Batches == Requests

VARIABLES
    added,      \* the requests made so far
    uses,       \* the entries of each of them
    content,    \* the requests that are merged into the transaction of a batch
    queue,      \* the GQueue of batches, its tail first
    current,    \* the batch that was dispatched last, until it is over
    loop,       \* the batch the dispatch loop awaits, if there is a loop
    paused,
    phase,      \* how far a batch is
    outcome,    \* the "success" of its transaction and the value of its promise
    store,      \* the list of transactions that is shown
    hold        \* the hold count of every entry

vars == <<added, uses, content, queue, current, loop, paused, phase, outcome,
          store, hold>>

Phases == {"none", "queued", "spawned", "running", "finished", "discarded", "gone"}

TypeOK ==
    /\ added \subseteq Requests
    /\ uses \in [Requests -> SUBSET Entries]
    /\ content \in [Batches -> SUBSET Requests]
    /\ queue \in Seq(Batches)
    /\ current \in Batches \cup {NoBatch}
    /\ loop \in Batches \cup {NoBatch}
    /\ paused \in BOOLEAN
    /\ phase \in [Batches -> Phases]
    /\ outcome \in [Batches -> {"none", "success", "failure"}]
    /\ store \subseteq Batches
    /\ hold \in [Entries -> Int]

Init ==
    /\ added = {}
    /\ uses = [r \in Requests |-> {}]
    /\ content = [b \in Batches |-> {}]
    /\ queue = <<>>
    /\ current = NoBatch
    /\ loop = NoBatch
    /\ paused = FALSE
    /\ phase = [b \in Batches |-> "none"]
    /\ outcome = [b \in Batches |-> "none"]
    /\ store = {}
    /\ hold = [e \in Entries |-> 0]

-----------------------------------------------------------------------------
\* bz_transaction_hold and bz_transaction_release: once per entry of every
\* request that is merged into the transaction.
Hold(E) == hold' = [e \in Entries |-> IF e \in E THEN hold[e] + 1 ELSE hold[e]]

\* Mutant: an entry that several requests name is released once.
ReleaseOnce(R) ==
    hold' = [e \in Entries |-> IF \E r \in R : e \in uses[r] THEN hold[e] - 1 ELSE hold[e]]

HoldsOn(e, R) == Cardinality({r \in R : e \in uses[r]})

Release(R) == hold' = [e \in Entries |-> hold[e] - HoldsOn(e, R)]

\* dispatch_next, in a state where the queue, the current batch, the pause
\* flag and the phases have become q, cur, pause and ph.
DispatchNext(q, cur, pause, ph) ==
    \/ /\ q = <<>> \/ pause
       /\ loop' = NoBatch
       /\ queue' = q /\ current' = cur /\ phase' = ph
    \/ /\ q # <<>> /\ ~ pause /\ cur # NoBatch
       /\ queue' = q /\ current' = cur /\ phase' = ph /\ UNCHANGED loop
    \/ /\ q # <<>> /\ ~ pause /\ cur = NoBatch
       /\ queue' = Tail(q)
       /\ current' = Head(q)
       /\ loop' = Head(q)
       /\ phase' = [ph EXCEPT ![Head(q)] = "spawned"]

\* The end of bz_transaction_manager_add: q and ph carry the new request.
Enqueue(q, ph) ==
    IF loop = NoBatch /\ ~ paused
    THEN DispatchNext(q, current, paused, ph)
    ELSE queue' = q /\ phase' = ph /\ UNCHANGED <<current, loop>>

\* A batch of its own for the request.
AddNew(r, E) ==
    /\ r \notin added
    /\ queue = <<>>
    /\ added' = added \cup {r}
    /\ uses' = [uses EXCEPT ![r] = E]
    /\ Hold(E)
    /\ content' = [content EXCEPT ![r] = {r}]
    /\ store' = store \cup {r}
    /\ Enqueue(<<r>>, [phase EXCEPT ![r] = "queued"])
    /\ UNCHANGED <<paused, outcome>>

\* Mutant: the merged transaction has only the entries of the new request.
AddReplacing(r, E) ==
    /\ r \notin added
    /\ queue # <<>>
    /\ added' = added \cup {r}
    /\ uses' = [uses EXCEPT ![r] = E]
    /\ Hold(E)
    /\ content' = [content EXCEPT ![queue[Len(queue)]] = {r}]
    /\ Enqueue(queue, phase)
    /\ UNCHANGED <<paused, outcome, store>>

\* The transaction of the batch at the head of the queue is replaced, in the
\* queue and in the list, by one merged from it and the request.
AddMerged(r, E) ==
    /\ r \notin added
    /\ queue # <<>>
    /\ added' = added \cup {r}
    /\ uses' = [uses EXCEPT ![r] = E]
    /\ Hold(E)
    /\ LET b == queue[Len(queue)]
       IN  content' = [content EXCEPT ![b] = @ \cup {r}]
    /\ Enqueue(queue, phase)
    /\ UNCHANGED <<paused, outcome, store>>

\* transaction_fiber: the merged transaction goes to the backend.
BeginRun(b) ==
    /\ phase[b] = "spawned"
    /\ phase' = [phase EXCEPT ![b] = "running"]
    /\ UNCHANGED <<added, uses, content, queue, current, loop, paused, outcome,
                   store, hold>>

\* Mutant: the promise is resolved only when the transaction succeeded.
EndRunSilently(b, result) ==
    /\ phase[b] = "running"
    /\ phase' = [phase EXCEPT ![b] = "finished"]
    /\ outcome' = [outcome EXCEPT ![b] = IF result = "success" THEN result ELSE "none"]
    /\ UNCHANGED <<added, uses, content, queue, current, loop, paused, store, hold>>

\* The backend is done, transaction_fiber returns, transaction_finally marks
\* the transaction and resolves the promise.
EndRun(b, result) ==
    /\ phase[b] = "running"
    /\ phase' = [phase EXCEPT ![b] = "finished"]
    /\ outcome' = [outcome EXCEPT ![b] = result]
    /\ UNCHANGED <<added, uses, content, queue, current, loop, paused, store, hold>>

\* Mutant: the loop ends with the batch.
ThenStop ==
    /\ loop # NoBatch
    /\ phase[loop] = "finished"
    /\ current' = NoBatch
    /\ loop' = NoBatch
    /\ UNCHANGED <<added, uses, content, queue, paused, phase, outcome, store, hold>>

\* then_loop_cb
ThenLoop ==
    /\ loop # NoBatch
    /\ phase[loop] = "finished"
    /\ DispatchNext(queue, NoBatch, paused, phase)
    /\ UNCHANGED <<added, uses, content, paused, outcome, store, hold>>

\* finish_queued_schedule_data: nothing references the batch any more.
FinishData(b) ==
    /\ phase[b] = "finished"
    /\ b # current /\ b # loop
    /\ phase' = [phase EXCEPT ![b] = "gone"]
    /\ Release(content[b])
    /\ UNCHANGED <<added, uses, content, queue, current, loop, paused, outcome, store>>

\* Mutant: everything that does not run is cleared.
ClearQueued ==
    /\ store' = {b \in store : phase[b] \in {"spawned", "running"}}
    /\ store' # store
    /\ UNCHANGED <<added, uses, content, queue, current, loop, paused, phase,
                   outcome, hold>>

\* bz_transaction_manager_clear_finished
ClearFinished ==
    /\ store' = {b \in store : outcome[b] = "none"}
    /\ store' # store
    /\ UNCHANGED <<added, uses, content, queue, current, loop, paused, phase,
                   outcome, hold>>

\* bz_transaction_manager_set_paused
SetPaused(pause) ==
    /\ paused # pause
    /\ paused' = pause
    /\ IF pause THEN UNCHANGED <<queue, current, loop, phase>>
       ELSE DispatchNext(queue, current, pause, phase)
    /\ UNCHANGED <<added, uses, content, outcome, store, hold>>

\* A run whose loop was cleared under it may have nobody left who awaits it:
\* its future is discarded before transaction_finally is called.
Discard(b) ==
    /\ phase[b] \in {"spawned", "running"}
    /\ loop = NoBatch
    /\ phase' = [phase EXCEPT ![b] = "discarded"]
    /\ UNCHANGED <<added, uses, content, queue, current, loop, paused, outcome,
                   store, hold>>

Next ==
    \/ \E r \in Requests, E \in (SUBSET Entries) \ {{}} : AddNew(r, E) \/ AddMerged(r, E)
    \/ \E b \in Batches :
        \/ BeginRun(b) \/ FinishData(b) \/ Discard(b)
        \/ \E result \in {"success", "failure"} : EndRun(b, result)
    \/ ThenLoop
    \/ ClearFinished
    \/ \E pause \in BOOLEAN : SetPaused(pause)

Spec == Init /\ [][Next]_vars

\* The main loop runs fibers and callbacks that can run.  A run of the backend
\* does not have to end.
Fairness ==
    /\ WF_vars(ThenLoop)
    /\ \A b \in Batches :
        WF_vars(BeginRun(b)) /\ WF_vars(FinishData(b))

FairSpec == Spec /\ Fairness

-----------------------------------------------------------------------------
\* Properties

\* The backend runs one transaction at a time, whoever adds and whenever.
OneAtATime ==
    \A b \in Batches : phase[b] \in {"spawned", "running"} => b = current

\* The assertion of bz_transaction_manager_add: the transaction a request is
\* merged into is on the list, in spite of what was cleared from it.
QueuedOnList == \A i \in 1..Len(queue) : queue[i] \in store

\* "is holding" says exactly that a transaction about the entry has been
\* added and has not been let go of, through merges and releases.
HoldBalance ==
    \A e \in Entries :
        hold[e] = HoldsOn(e, {r \in added :
            \A b \in Batches : r \in content[b] => phase[b] # "gone"})

\* No request waits while the loop sleeps and nothing runs: add dispatches only
\* when there is no loop, so a loop that ends, or is stopped by a pause, must
\* leave nothing behind that the next call of dispatch_next would not find.
NoSleepingQueue == loop = NoBatch /\ current = NoBatch /\ ~ paused => queue = <<>>

\* The backend never comes to the end of a run.
RunGoesOn == \E b \in Batches : [](phase[b] = "running")

\* What the promise of the request was resolved with.
Answer(r) ==
    IF \E b \in Batches : r \in content[b] /\ outcome[b] # "none"
    THEN LET b == CHOOSE b \in Batches : r \in content[b] /\ outcome[b] # "none"
         IN  outcome[b]
    ELSE "none"

\* set_paused cleared the loop under a run: nobody will clear current.
Stalled == loop = NoBatch /\ current # NoBatch

\* Every transaction added is run and answered, unless the manager is paused
\* or a run of the backend, before it or its own, does not end.
\* docs/overview.md: "Queue an arbitrary number of transactions ... or
\* continue to append new transactions freely".
AddedAnswered ==
    \A r \in Requests : r \in added ~> Answer(r) # "none" \/ paused \/ RunGoesOn

\* What the code does keep of it: every transaction added is answered, in spite
\* of pauses that end, unless an unpause stalls the loop.
AddedServed ==
    \A r \in Requests :
        r \in added ~> Answer(r) # "none" \/ Stalled \/ RunGoesOn \/ []paused

\* What SerialTransactions sees of the manager.  To callers a run that was
\* discarded is one that does not end.
Waiting == UNION {content[b] : b \in {d \in Batches : phase[d] = "queued"}}
Begun == {"spawned", "running", "discarded"}
Active == UNION {content[b] : b \in {d \in Batches : phase[d] \in Begun}}
Answers == [r \in Requests |-> Answer(r)]

Serial == INSTANCE SerialTransactions WITH
    waiting <- Waiting, active <- Active, answer <- Answers

\* The manager serves requests in the way of SerialTransactions: add with its
\* merging, the dispatch loop and the ends of runs are its steps.
SerialSpec == Serial!Spec

-----------------------------------------------------------------------------
\* The inductive invariant behind OneAtATime, QueuedOnList, HoldBalance and
\* NoSleepingQueue

\* Later requests are merged into the one batch that waits, if there is one.
QueueOfOne ==
    /\ Len(queue) <= 1
    /\ \A b \in Batches : phase[b] = "queued" <=> queue = <<b>>

\* The current batch is the only one the backend may be running.
CurrentOnly ==
    /\ OneAtATime
    /\ current # NoBatch => phase[current] \notin {"none", "queued", "gone"}
    /\ loop # NoBatch => loop = current

\* A batch is answered when its run is over.
Answered == \A b \in Batches : outcome[b] # "none" <=> phase[b] \in {"finished", "gone"}

\* Every request belongs to one batch, which bears the name of a request.
Merged ==
    /\ added = UNION {content[b] : b \in Batches}
    /\ \A b, d \in Batches : content[b] \cap content[d] # {} => b = d
    /\ \A b \in Batches : phase[b] # "none" <=> b \in content[b]
    /\ \A b \in Batches : phase[b] = "none" => content[b] = {}

IInv ==
    /\ TypeOK /\ QueueOfOne /\ CurrentOnly /\ Answered /\ Merged
    /\ QueuedOnList /\ HoldBalance /\ NoSleepingQueue
=============================================================================
