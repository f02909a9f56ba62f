----------------------------- MODULE EntryCache -----------------------------
(***************************************************************************)
(* The entry cache manager, src/src/bz-entry-cache-manager.c: application  *)
(* entries are written to one file per checksum and decached from it on    *)
(* demand.  Every call runs as a fiber of a thread pool; the fibers share  *)
(* three hash tables and the files, and coordinate with "guards", the FIFO *)
(* gates of src/src/util.h.  A gate is modelled by the queue of the fibers *)
(* that have begun a guard on it and not cleared it: the head is inside.   *)
(*                                                                         *)
(* A fiber runs between two awaits as one action, except that beginning a  *)
(* guard (Arrive) is a step apart from the guarded section it opens.       *)
(***************************************************************************)
EXTENDS Integers, Sequences, FiniteSets

CONSTANTS
    Tasks,       \* the fibers of the add, get and enumerate_disk calls
    Sweeper,     \* the periodic watch_work_fiber
    Checksums,   \* checksums of the unique ids of entries
    Records,     \* LivingEntryData structures
    Objects,     \* BzEntry objects made by decaching a file
    Slots,       \* the MAX_CONCURRENT_WRITES write slots
    NoTask, NoChecksum, NoRecord, NoObject, NoSlot

Processes == Tasks \cup {Sweeper}

ASSUME ProcessesAssumption == Sweeper \notin Tasks /\ NoTask \notin Processes
ASSUME NothingAssumption ==
    /\ NoChecksum \notin Checksums
    /\ NoRecord \notin Records
    /\ NoObject \notin Objects
    /\ NoSlot \notin Slots
ASSUME SlotsAssumption == IsFiniteSet(Slots) /\ Slots # {}
ASSUME GatesAssumption ==
    /\ {"alive", "reading", "writing"} \cap (Slots \cup Records) = {}
    /\ Slots \cap Records = {}

GlobalGates == {"alive", "reading", "writing"}
Gates == GlobalGates \cup Slots \cup Records

VARIABLES
    started,    \* the init promise is resolved
    pc,         \* where each fiber is
    cs,         \* the checksum it works on
    slot,       \* the write slot it picked
    living,     \* its reference to a LivingEntryData
    result,     \* the BzEntry it holds a strong reference to
    awaiting,   \* the fiber whose promise it awaits
    queue,      \* for every gate, the fibers with a pending guard on it
    queued,     \* ongoing_queued, the counter of every slot
    writing,    \* writing_hash: the fiber that owns the promise
    reading,    \* reading_hash: the fiber that owns the promise
    alive,      \* alive_hash
    wr,         \* the weak reference of every LivingEntryData
    about,      \* for every decached object that still exists, its checksum
    left        \* what the sweep has yet to look at

locals == <<cs, slot, living, result, awaiting>>
tables == <<writing, reading, alive>>
objects == <<wr, about>>
vars == <<started, pc, locals, queue, queued, tables, objects, left>>

WriterLabels == {"wslot", "wreg", "walive", "wliving", "wfile", "wdone"}
ReaderLabels == {"rcheck", "rwait", "rreg", "rfollow", "ralive", "rfound",
                 "rfresh", "rload", "rdrop", "rresolve", "rdone"}
GlobalLabels == {"galive", "greading", "gwriting"}
Labels == {"idle", "scan", "sprune"}
            \cup WriterLabels \cup ReaderLabels \cup GlobalLabels

TypeOK ==
    /\ started \in BOOLEAN
    /\ pc \in [Processes -> Labels]
    /\ cs \in [Processes -> Checksums \cup {NoChecksum}]
    /\ slot \in [Tasks -> Slots \cup {NoSlot}]
    /\ living \in [Tasks -> Records \cup {NoRecord}]
    /\ result \in [Tasks -> Objects \cup {NoObject}]
    /\ awaiting \in [Tasks -> Tasks \cup {NoTask}]
    /\ queue \in [Gates -> Seq(Processes)]
    /\ queued \in [Slots -> Int]
    /\ writing \in [Checksums -> Tasks \cup {NoTask}]
    /\ reading \in [Checksums -> Tasks \cup {NoTask}]
    /\ alive \in [Checksums -> Records \cup {NoRecord}]
    /\ wr \in [Records -> Objects \cup {NoObject}]
    /\ about \in [Objects -> Checksums \cup {NoChecksum}]
    /\ left \subseteq Checksums

Init ==
    /\ started = FALSE
    /\ pc = [p \in Processes |-> "idle"]
    /\ cs = [p \in Processes |-> NoChecksum]
    /\ slot = [t \in Tasks |-> NoSlot]
    /\ living = [t \in Tasks |-> NoRecord]
    /\ result = [t \in Tasks |-> NoObject]
    /\ awaiting = [t \in Tasks |-> NoTask]
    /\ queue = [g \in Gates |-> <<>>]
    /\ queued = [s \in Slots |-> 0]
    /\ writing = [c \in Checksums |-> NoTask]
    /\ reading = [c \in Checksums |-> NoTask]
    /\ alive = [c \in Checksums |-> NoRecord]
    /\ wr = [r \in Records |-> NoObject]
    /\ about = [o \in Objects |-> NoChecksum]
    /\ left = {}

-----------------------------------------------------------------------------
\* Guards

\* The gate the fiber is at: the one its next guarded section begins with.
GateLabels == (WriterLabels \ {"wfile"}) \cup GlobalLabels \cup {"sprune"}
    \cup (ReaderLabels \ {"rwait", "rfollow", "rload", "rresolve"})

GateOf(p) ==
    CASE pc[p] = "wslot" -> slot[p]
      [] pc[p] \in {"wreg", "wdone", "rcheck", "gwriting"} -> "writing"
      [] pc[p] \in {"rreg", "rdrop", "rdone", "greading"} -> "reading"
      [] pc[p] \in {"walive", "ralive", "galive"} -> "alive"
      [] pc[p] \in {"wliving", "rfound", "rfresh"} -> living[p]
      [] pc[p] = "sprune" -> alive[cs[p]]

InQueue(p, g) == \E i \in 1..Len(queue[g]) : queue[g][i] = p

\* p began its guard on g and nobody before it still holds one.
First(p, g) == queue[g] # <<>> /\ Head(queue[g]) = p

\* queue once p has cleared its guard on every gate of G: whoever waits for
\* it goes on.
Cleared(p, G) ==
    [g \in Gates |-> IF g \in G /\ First(p, g) THEN Tail(queue[g]) ELSE queue[g]]

\* p may run the section guarded by its gate.
Inside(p, label) == pc[p] = label /\ First(p, GateOf(p))

Goto(p, label) == pc' = [pc EXCEPT ![p] = label]

\* Beginning a guard: under the gate's mutex the fiber becomes its last.
\* Every user of the three tables awaits the init promise before.
Arrive(p) ==
    /\ pc[p] \in GateLabels
    /\ pc[p] \in {"wreg", "rcheck"} => started
    /\ ~ InQueue(p, GateOf(p))
    /\ queue' = [queue EXCEPT ![GateOf(p)] = Append(@, p)]
    /\ UNCHANGED <<started, pc, locals, queued, tables, objects, left>>

\* The fiber returns: its references and its guards are gone.
Return(t) ==
    /\ Goto(t, "idle")
    /\ cs' = [cs EXCEPT ![t] = NoChecksum]
    /\ slot' = [slot EXCEPT ![t] = NoSlot]
    /\ living' = [living EXCEPT ![t] = NoRecord]
    /\ queue' = Cleared(t, Gates)

\* The owner's promise is settled: those who await it go on.
Settle(owner) ==
    awaiting' = [t \in Tasks |->
                    IF awaiting[t] = owner THEN NoTask ELSE awaiting[t]]

-----------------------------------------------------------------------------
\* Writing: bz_entry_cache_manager_add and write_task_fiber

\* The fiber starts in the slot with the least fibers in line.
Add(t, c) ==
    /\ pc[t] = "idle"
    /\ \E s \in Slots :
        /\ \A other \in Slots : queued[s] <= queued[other]
        /\ slot' = [slot EXCEPT ![t] = s]
        /\ queued' = [queued EXCEPT ![s] = @ + 1]
    /\ cs' = [cs EXCEPT ![t] = c]
    /\ Goto(t, "wslot")
    /\ UNCHANGED <<started, living, result, awaiting, queue, tables, objects, left>>

\* Mutant: the counter of the slot is not decremented.
EnterSlotCounted(t) ==
    /\ Inside(t, "wslot")
    /\ Goto(t, "wreg")
    /\ UNCHANGED <<started, locals, queue, queued, tables, objects, left>>

EnterSlot(t) ==
    /\ Inside(t, "wslot")
    /\ queued' = [queued EXCEPT ![slot[t]] = @ - 1]
    /\ Goto(t, "wreg")
    /\ UNCHANGED <<started, locals, queue, tables, objects, left>>

\* The checksum is being written already: the call is rejected.
RegisterRejected(t) ==
    /\ Inside(t, "wreg")
    /\ writing[cs[t]] # NoTask
    /\ Return(t)
    /\ UNCHANGED <<started, result, awaiting, queued, tables, objects, left>>

\* Mutant: the guard on the slot is cleared with the one on the table.
RegisterWriteLeavingSlot(t) ==
    /\ Inside(t, "wreg")
    /\ writing[cs[t]] = NoTask
    /\ writing' = [writing EXCEPT ![cs[t]] = t]
    /\ queue' = Cleared(t, {"writing", slot[t]})
    /\ Goto(t, "walive")
    /\ UNCHANGED <<started, locals, queued, reading, alive, objects, left>>

RegisterWrite(t) ==
    /\ Inside(t, "wreg")
    /\ writing[cs[t]] = NoTask
    /\ writing' = [writing EXCEPT ![cs[t]] = t]
    /\ queue' = Cleared(t, {"writing"})
    /\ Goto(t, "walive")
    /\ UNCHANGED <<started, locals, queued, reading, alive, objects, left>>

\* A new LivingEntryData takes the storage of one nobody references.
Unused(r) ==
    /\ \A c \in Checksums : alive[c] # r
    /\ \A t \in Tasks : living[t] # r

\* The fiber references the record of its checksum, made when there is none.
LookUp(t) ==
    /\ alive[cs[t]] # NoRecord
    /\ living' = [living EXCEPT ![t] = alive[cs[t]]]
    /\ UNCHANGED <<alive, wr>>

\* Mutant: the new record is not put into alive_hash.
MakePrivate(t) ==
    /\ alive[cs[t]] = NoRecord
    /\ \E r \in Records :
        /\ Unused(r)
        /\ living' = [living EXCEPT ![t] = r]
        /\ wr' = [wr EXCEPT ![r] = NoObject]
    /\ UNCHANGED alive

Make(t) ==
    /\ alive[cs[t]] = NoRecord
    /\ \E r \in Records :
        /\ Unused(r)
        /\ living' = [living EXCEPT ![t] = r]
        /\ alive' = [alive EXCEPT ![cs[t]] = r]
        /\ wr' = [wr EXCEPT ![r] = NoObject]

WriterAlive(t) ==
    /\ Inside(t, "walive")
    /\ LookUp(t) \/ Make(t)
    /\ queue' = Cleared(t, {"alive"})
    /\ Goto(t, "wliving")
    /\ UNCHANGED <<started, cs, slot, result, awaiting, queued, writing,
                   reading, about, left>>

\* The guard on the record is passed: serialization, then the file.
BeginFile(t) ==
    /\ Inside(t, "wliving")
    /\ Goto(t, "wfile")
    /\ UNCHANGED <<started, locals, queue, queued, tables, objects, left>>

\* The file is written, or one of the steps failed; the slot is given up,
\* the guard on the record is not.
EndFile(t) ==
    /\ pc[t] = "wfile"
    /\ queue' = Cleared(t, {slot[t]})
    /\ slot' = [slot EXCEPT ![t] = NoSlot]
    /\ Goto(t, "wdone")
    /\ UNCHANGED <<started, cs, living, result, awaiting, queued, tables,
                   objects, left>>

\* Mutant: the promise leaves the table unsettled.
FinishWriteSilently(t) ==
    /\ Inside(t, "wdone")
    /\ writing' = [writing EXCEPT ![cs[t]] = NoTask]
    /\ Return(t)
    /\ UNCHANGED <<started, result, awaiting, queued, reading, alive, objects, left>>

\* The promise is resolved or rejected; both guards go together.
FinishWrite(t) ==
    /\ Inside(t, "wdone")
    /\ writing' = [writing EXCEPT ![cs[t]] = NoTask]
    /\ Settle(t)
    /\ Return(t)
    /\ UNCHANGED <<started, result, queued, reading, alive, objects, left>>

Writer(t) ==
    \/ EnterSlot(t) \/ RegisterRejected(t) \/ RegisterWrite(t)
    \/ WriterAlive(t) \/ BeginFile(t) \/ EndFile(t) \/ FinishWrite(t)

-----------------------------------------------------------------------------
\* Reading: bz_entry_cache_manager_get and read_task_fiber

Get(t, c) ==
    /\ pc[t] = "idle"
    /\ cs' = [cs EXCEPT ![t] = c]
    /\ Goto(t, "rcheck")
    /\ UNCHANGED <<started, slot, living, result, awaiting, queue, queued,
                   tables, objects, left>>

\* A write that is going on is awaited first, once.
CheckWriting(t) ==
    /\ Inside(t, "rcheck")
    /\ awaiting' = [awaiting EXCEPT ![t] = writing[cs[t]]]
    /\ queue' = Cleared(t, {"writing"})
    /\ Goto(t, IF writing[cs[t]] = NoTask THEN "rreg" ELSE "rwait")
    /\ UNCHANGED <<started, cs, slot, living, result, queued, tables, objects, left>>

WriteAwaited(t) ==
    /\ pc[t] = "rwait"
    /\ awaiting[t] = NoTask
    /\ Goto(t, "rreg")
    /\ UNCHANGED <<started, locals, queue, queued, tables, objects, left>>

\* Another fiber decaches the same entry: its promise is returned.
JoinRead(t) ==
    /\ Inside(t, "rreg")
    /\ reading[cs[t]] # NoTask
    /\ awaiting' = [awaiting EXCEPT ![t] = reading[cs[t]]]
    /\ queue' = Cleared(t, {"reading"})
    /\ Goto(t, "rfollow")
    /\ UNCHANGED <<started, cs, slot, living, result, queued, tables, objects, left>>

RegisterRead(t) ==
    /\ Inside(t, "rreg")
    /\ reading[cs[t]] = NoTask
    /\ reading' = [reading EXCEPT ![cs[t]] = t]
    /\ queue' = Cleared(t, {"reading"})
    /\ Goto(t, "ralive")
    /\ UNCHANGED <<started, locals, queued, writing, alive, objects, left>>

\* A record that was found may carry a living entry, a fresh one may not.
ReaderAlive(t) ==
    /\ Inside(t, "ralive")
    /\ \/ LookUp(t) /\ Goto(t, "rfound")
       \/ Make(t) /\ Goto(t, "rfresh")
    /\ queue' = Cleared(t, {"alive"})
    /\ UNCHANGED <<started, cs, slot, result, awaiting, queued, writing,
                   reading, about, left>>

\* The weak reference leads to an entry that still exists.
TakeLiving(t) ==
    /\ Inside(t, "rfound")
    /\ wr[living[t]] # NoObject
    /\ result' = [result EXCEPT ![t] = wr[living[t]]]
    /\ queue' = Cleared(t, {living[t]})
    /\ Goto(t, "rdrop")
    /\ UNCHANGED <<started, cs, slot, living, awaiting, queued, tables, objects, left>>

\* Mutant: the file is read even though there is a living entry.
BeginLoadAnyway(t) ==
    /\ Inside(t, "rfresh") \/ Inside(t, "rfound")
    /\ Goto(t, "rload")
    /\ UNCHANGED <<started, locals, queue, queued, tables, objects, left>>

\* There is no living entry: the file is read with the guard held.
BeginLoad(t) ==
    /\ \/ Inside(t, "rfresh")
       \/ Inside(t, "rfound") /\ wr[living[t]] = NoObject
    /\ Goto(t, "rload")
    /\ UNCHANGED <<started, locals, queue, queued, tables, objects, left>>

\* Mutant: the weak reference is not initialized with the entry.
LoadedUnlinked(t) ==
    /\ pc[t] = "rload"
    /\ \E o \in Objects :
        /\ about[o] = NoChecksum
        /\ about' = [about EXCEPT ![o] = cs[t]]
        /\ result' = [result EXCEPT ![t] = o]
    /\ Goto(t, "rdone")
    /\ UNCHANGED <<started, cs, slot, living, awaiting, queue, queued, tables,
                   wr, left>>

Loaded(t) ==
    /\ pc[t] = "rload"
    /\ \E o \in Objects :
        /\ about[o] = NoChecksum
        /\ about' = [about EXCEPT ![o] = cs[t]]
        /\ wr' = [wr EXCEPT ![living[t]] = o]
        /\ result' = [result EXCEPT ![t] = o]
    /\ Goto(t, "rdone")
    /\ UNCHANGED <<started, cs, slot, living, awaiting, queue, queued, tables, left>>

\* The file is absent, or is no serialized entry.
LoadFailed(t) ==
    /\ pc[t] = "rload"
    /\ Goto(t, "rdone")
    /\ UNCHANGED <<started, locals, queue, queued, tables, objects, left>>

\* Those who await t's promise receive its value with it.
Deliver(t) ==
    result' = [u \in Tasks |->
                IF u = t THEN NoObject
                ELSE IF awaiting[u] = t THEN result[t] ELSE result[u]]

FinishRead(t) ==
    /\ Inside(t, "rdone")
    /\ reading' = [reading EXCEPT ![cs[t]] = NoTask]
    /\ Settle(t)
    /\ Deliver(t)
    /\ Return(t)
    /\ UNCHANGED <<started, queued, writing, alive, objects, left>>

\* With a living entry, the promise leaves the table before it is resolved.
DropReading(t) ==
    /\ Inside(t, "rdrop")
    /\ reading' = [reading EXCEPT ![cs[t]] = NoTask]
    /\ queue' = Cleared(t, {"reading"})
    /\ Goto(t, "rresolve")
    /\ UNCHANGED <<started, locals, queued, writing, alive, objects, left>>

\* Mutant: a fiber that found a living entry does not resolve its promise.
ResolveNobody(t) ==
    /\ pc[t] = "rresolve"
    /\ result' = [result EXCEPT ![t] = NoObject]
    /\ Return(t)
    /\ UNCHANGED <<started, awaiting, queued, tables, objects, left>>

ResolveLiving(t) ==
    /\ pc[t] = "rresolve"
    /\ Settle(t)
    /\ Deliver(t)
    /\ Return(t)
    /\ UNCHANGED <<started, queued, tables, objects, left>>

ReadFollowed(t) ==
    /\ pc[t] = "rfollow"
    /\ awaiting[t] = NoTask
    /\ result' = [result EXCEPT ![t] = NoObject]
    /\ Return(t)
    /\ UNCHANGED <<started, awaiting, queued, tables, objects, left>>

Reader(t) ==
    \/ CheckWriting(t) \/ WriteAwaited(t) \/ JoinRead(t) \/ RegisterRead(t)
    \/ ReaderAlive(t) \/ TakeLiving(t) \/ BeginLoad(t) \/ Loaded(t)
    \/ LoadFailed(t) \/ FinishRead(t) \/ DropReading(t) \/ ResolveLiving(t)
    \/ ReadFollowed(t)

\* Nobody inside the manager holds the entry and its users let go of it:
\* weak references to it are cleared.
Forget(o) ==
    /\ about[o] # NoChecksum
    /\ \A t \in Tasks : result[t] # o
    /\ about' = [about EXCEPT ![o] = NoChecksum]
    /\ wr' = [r \in Records |-> IF wr[r] = o THEN NoObject ELSE wr[r]]
    /\ UNCHANGED <<started, pc, locals, queue, queued, tables, left>>

-----------------------------------------------------------------------------
\* enumerate_disk_fiber and the sweep take the three global gates in a row

\* bz_entry_cache_manager_enumerate_disk does not await init.
EnumerateDisk(t) ==
    /\ pc[t] = "idle"
    /\ Goto(t, "galive")
    /\ UNCHANGED <<started, locals, queue, queued, tables, objects, left>>

HoldNext(p) ==
    /\ \/ Inside(p, "galive") /\ Goto(p, "greading")
       \/ Inside(p, "greading") /\ Goto(p, "gwriting")
    /\ UNCHANGED <<started, locals, queue, queued, tables, objects, left>>

Enumerated(t) ==
    /\ Inside(t, "gwriting")
    /\ Return(t)
    /\ UNCHANGED <<started, result, awaiting, queued, tables, objects, left>>

\* watch_init_fiber
Start ==
    /\ ~ started
    /\ started' = TRUE
    /\ UNCHANGED <<pc, locals, queue, queued, tables, objects, left>>

\* The interval is over.
Wake ==
    /\ started
    /\ pc[Sweeper] = "idle"
    /\ Goto(Sweeper, "galive")
    /\ UNCHANGED <<started, locals, queue, queued, tables, objects, left>>

BeginScan ==
    /\ Inside(Sweeper, "gwriting")
    /\ left' = {c \in Checksums : alive[c] # NoRecord}
    /\ Goto(Sweeper, "scan")
    /\ UNCHANGED <<started, locals, queue, queued, tables, objects>>

\* An entry with a task in progress is left alone.
SkipActive(c) ==
    /\ pc[Sweeper] = "scan"
    /\ c \in left
    /\ reading[c] # NoTask \/ writing[c] # NoTask
    /\ left' = left \ {c}
    /\ UNCHANGED <<started, pc, locals, queue, queued, tables, objects>>

\* Mutant: only tasks that read are in progress.
ConsiderWritten(c) ==
    /\ pc[Sweeper] = "scan"
    /\ c \in left
    /\ reading[c] = NoTask
    /\ left' = left \ {c}
    /\ cs' = [cs EXCEPT ![Sweeper] = c]
    /\ Goto(Sweeper, "sprune")
    /\ UNCHANGED <<started, slot, living, result, awaiting, queue, queued,
                   tables, objects>>

\* Mutant: only tasks that write are in progress.
ConsiderRead(c) ==
    /\ pc[Sweeper] = "scan"
    /\ c \in left
    /\ writing[c] = NoTask
    /\ left' = left \ {c}
    /\ cs' = [cs EXCEPT ![Sweeper] = c]
    /\ Goto(Sweeper, "sprune")
    /\ UNCHANGED <<started, slot, living, result, awaiting, queue, queued,
                   tables, objects>>

Consider(c) ==
    /\ pc[Sweeper] = "scan"
    /\ c \in left
    /\ reading[c] = NoTask /\ writing[c] = NoTask
    /\ left' = left \ {c}
    /\ cs' = [cs EXCEPT ![Sweeper] = c]
    /\ Goto(Sweeper, "sprune")
    /\ UNCHANGED <<started, slot, living, result, awaiting, queue, queued,
                   tables, objects>>

\* Mutant: every record that is considered is pruned.
PruneAll ==
    /\ Inside(Sweeper, "sprune")
    /\ alive' = [alive EXCEPT ![cs[Sweeper]] = NoRecord]
    /\ queue' = Cleared(Sweeper, {alive[cs[Sweeper]]})
    /\ cs' = [cs EXCEPT ![Sweeper] = NoChecksum]
    /\ Goto(Sweeper, "scan")
    /\ UNCHANGED <<started, slot, living, result, awaiting, queued, writing,
                   reading, objects, left>>

\* Inside the record's guard: an entry the application forgot is pruned.
Prune ==
    /\ Inside(Sweeper, "sprune")
    /\ alive' = IF wr[alive[cs[Sweeper]]] = NoObject
                THEN [alive EXCEPT ![cs[Sweeper]] = NoRecord] ELSE alive
    /\ queue' = Cleared(Sweeper, {alive[cs[Sweeper]]})
    /\ cs' = [cs EXCEPT ![Sweeper] = NoChecksum]
    /\ Goto(Sweeper, "scan")
    /\ UNCHANGED <<started, slot, living, result, awaiting, queued, writing,
                   reading, objects, left>>

EndScan ==
    /\ pc[Sweeper] = "scan"
    /\ left = {}
    /\ queue' = Cleared(Sweeper, Gates)
    /\ Goto(Sweeper, "idle")
    /\ UNCHANGED <<started, locals, queued, tables, objects, left>>

Sweep ==
    \/ Wake \/ HoldNext(Sweeper) \/ BeginScan \/ Prune \/ EndScan
    \/ \E c \in Checksums : SkipActive(c) \/ Consider(c)

-----------------------------------------------------------------------------
Call(t) ==
    \/ EnumerateDisk(t)
    \/ \E c \in Checksums : Add(t, c) \/ Get(t, c)

Step(t) == Arrive(t) \/ Writer(t) \/ Reader(t) \/ HoldNext(t) \/ Enumerated(t)

SweepStep == Arrive(Sweeper) \/ Sweep

Next ==
    \/ Start
    \/ SweepStep
    \/ \E t \in Tasks : Call(t) \/ Step(t)
    \/ \E o \in Objects : Forget(o)

Spec == Init /\ [][Next]_vars

\* The schedulers run every fiber that can run; callers owe nothing.
Fairness ==
    /\ WF_vars(Start)
    /\ WF_vars(SweepStep)
    /\ \A t \in Tasks : WF_vars(Step(t))

FairSpec == Spec /\ Fairness

-----------------------------------------------------------------------------
\* Properties

\* A file of the cache is written or read by one fiber at a time: the guards
\* on the LivingEntryData of a checksum protect its file.
FileExclusion ==
    \A t, u \in Tasks :
        /\ pc[t] \in {"wfile", "rload"} /\ pc[u] \in {"wfile", "rload"}
        /\ cs[t] = cs[u]
        => t = u

\* The guard on a record is worth something only while all fibers of one
\* checksum use the same record: the one in alive_hash, which a sweep must
\* not prune under them.
RecordAgreement ==
    \A t \in Tasks : living[t] # NoRecord => alive[cs[t]] = living[t]

\* The application never holds two decached entries of one checksum: as long
\* as one exists, gets answer with it.
OneLivingObject ==
    \A o, p \in Objects : about[o] # NoChecksum /\ about[o] = about[p] => o = p

\* A sweep holds the three global gates while it takes the gate of a record:
\* it must find it free, or every fiber of the cache waits for every other.
SweepNeverWaits ==
    pc[Sweeper] = "sprune" =>
        \A t \in Tasks : ~ InQueue(t, alive[cs[Sweeper]])

\* p can go on only when q has: q is inside the gate that p is in line for, or
\* owns the promise that p awaits.
Waits(p, q) ==
    \/ /\ pc[p] \in GateLabels
       /\ InQueue(p, GateOf(p)) /\ First(q, GateOf(p))
       /\ p # q
    \/ pc[p] \in {"rwait", "rfollow"} /\ awaiting[p] = q

\* Fibers hold up to three guards, and the slot's, when they begin the next
\* one or await another fiber, and not all in the same order; still they never
\* wait in a circle: in every group, one waits for nobody of the group.
NoCircularWait ==
    \A group \in SUBSET Processes :
        group # {} => \E p \in group : \A q \in group : ~ Waits(p, q)

\* As long as calls or a sweep go on, one of them waits for nobody.
SomebodyGoes ==
    (\E p \in Processes : pc[p] # "idle") =>
        \E p \in Processes : pc[p] # "idle" /\ \A q \in Processes : ~ Waits(p, q)

\* A promise is awaited only while its owner has yet to settle it, and the
\* owner works for the checksum that was asked for.
OwnerOfAwaited ==
    \A t \in Tasks : awaiting[t] # NoTask =>
        /\ cs[awaiting[t]] = cs[t]
        /\ pc[t] = "rwait" =>
            pc[awaiting[t]] \in {"walive", "wliving", "wfile", "wdone"}
        /\ pc[t] = "rfollow" =>
            pc[awaiting[t]] \in {"ralive", "rfound", "rfresh", "rload",
                                 "rdrop", "rresolve", "rdone"}
        /\ pc[t] \in {"rwait", "rfollow"}

\* The slots limit how many writes are under way ("Rate limit to reduce
\* competition for resources"), whatever the interleaving of the two mutexes.
WriteLimit ==
    Cardinality({t \in Tasks : pc[t] \in {"wreg", "walive", "wliving", "wfile"}})
        <= Cardinality(Slots)

\* The writes that wait for a slot.
WaitFor(s) == {t \in Tasks : pc[t] = "wslot" /\ slot[t] = s}

\* ongoing_queued, kept under a mutex of its own, is the number of writes
\* that wait for their slot, and an unsigned number that never wraps.
QueuedCount == \A s \in Slots : queued[s] = Cardinality(WaitFor(s))

\* Every add, get and enumerate_disk call answers.
CallsReturn == \A t \in Tasks : pc[t] # "idle" ~> pc[t] = "idle"

\* A sweep that began ends.
SweepsEnd == pc[Sweeper] # "idle" ~> pc[Sweeper] = "idle"

\* What CacheService sees of the cache.
FileUser(c) == {t \in Tasks : pc[t] \in {"wfile", "rload"} /\ cs[t] = c}
EntryOf(c) == {o \in Objects : about[o] = c}

Asked == [t \in Tasks |-> cs[t]]
Entry == [c \in Checksums |->
            IF EntryOf(c) = {} THEN NoObject ELSE CHOOSE o \in EntryOf(c) : TRUE]
File == [c \in Checksums |->
            IF FileUser(c) = {} THEN NoTask ELSE CHOOSE t \in FileUser(c) : TRUE]

Service == INSTANCE CacheService WITH
    asked <- Asked, given <- result, entry <- Entry, file <- File

\* The cache keeps the promises of CacheService: files, entries and answers
\* as the callers see them.
ServiceSpec == Service!Spec

-----------------------------------------------------------------------------
\* The inductive invariant behind FileExclusion, RecordAgreement,
\* OneLivingObject and SweepNeverWaits

\* The labels at which a fiber owns the entry of its checksum in
\* writing_hash, in reading_hash; uses a record; has a guard on one.
WriteOwner == {"walive", "wliving", "wfile", "wdone"}
ReadOwner == {"ralive", "rfound", "rfresh", "rload", "rdrop", "rdone"}
RecordUser == {"wliving", "wfile", "wdone", "rfound", "rfresh", "rload",
               "rdrop", "rresolve", "rdone"}
RecordHolder == {"wfile", "wdone", "rload", "rdone"}
RecordQueuer == RecordHolder \cup {"wliving", "rfound", "rfresh"}

\* What each label says of the fiber's own variables.
Located ==
    /\ \A t \in Tasks :
        /\ pc[t] \in WriterLabels \cup ReaderLabels => cs[t] \in Checksums
        /\ pc[t] \in {"wslot", "wreg", "walive", "wliving", "wfile"} => slot[t] \in Slots
        /\ pc[t] \in RecordUser <=> living[t] # NoRecord
        /\ awaiting[t] # NoTask => pc[t] \in {"rwait", "rfollow"}
        /\ pc[t] \notin {"scan", "sprune"}
    /\ pc[Sweeper] \in {"idle", "scan", "sprune"} \cup GlobalLabels

\* Both hash tables know who works on a checksum.
Registered ==
    \A t \in Tasks :
        /\ pc[t] \in WriteOwner => writing[cs[t]] = t
        /\ pc[t] \in ReadOwner => reading[cs[t]] = t

\* Who has passed a gate is its first until he clears his guard.
Guarded ==
    /\ \A t \in Tasks : pc[t] \in RecordHolder => First(t, living[t])
    /\ pc[Sweeper] \in {"greading", "gwriting", "scan", "sprune"} => First(Sweeper, "alive")
    /\ pc[Sweeper] \in {"gwriting", "scan", "sprune"} => First(Sweeper, "reading")
    /\ pc[Sweeper] \in {"scan", "sprune"} => First(Sweeper, "writing")

\* A queue names a fiber once, and that of a record only its users.
Queues ==
    /\ \A g \in Gates : \A i, j \in 1..Len(queue[g]) :
            queue[g][i] = queue[g][j] => i = j
    /\ \A r \in Records, t \in Tasks :
            InQueue(t, r) => pc[t] \in RecordQueuer /\ living[t] = r

\* Records belong to one checksum, and fibers agree on them.
RecordsAgree ==
    /\ RecordAgreement
    /\ \A c, d \in Checksums : alive[c] # NoRecord /\ alive[c] = alive[d] => c = d

\* The record of a checksum leads to its entry as long as that exists.
LivingLinked ==
    /\ \A o \in Objects : about[o] # NoChecksum =>
            /\ alive[about[o]] # NoRecord
            /\ wr[alive[about[o]]] = o
    /\ \A t \in Tasks :
            /\ pc[t] \in {"rfresh", "rload"} => wr[living[t]] = NoObject
            /\ pc[t] \in {"rdrop", "rresolve"} =>
                result[t] # NoObject /\ wr[living[t]] = result[t]

\* What a sweep has yet to look at does not change under it.
SweepStable ==
    /\ pc[Sweeper] \in {"scan", "sprune"} => \A c \in left : alive[c] # NoRecord
    /\ pc[Sweeper] = "sprune" =>
        /\ cs[Sweeper] \in Checksums \ left
        /\ alive[cs[Sweeper]] # NoRecord
        /\ writing[cs[Sweeper]] = NoTask
        /\ reading[cs[Sweeper]] = NoTask

IInv ==
    /\ TypeOK /\ Located /\ Registered /\ Guarded /\ Queues
    /\ RecordsAgree /\ LivingLinked /\ SweepStable

-----------------------------------------------------------------------------
\* What it takes beyond IInv for OwnerOfAwaited, WriteLimit, QueuedCount and
\* the implementation of CacheService

\* The hash tables know nobody but those who work on the checksum.
Owners ==
    \A c \in Checksums :
        /\ writing[c] # NoTask => pc[writing[c]] \in WriteOwner /\ cs[writing[c]] = c
        /\ reading[c] # NoTask => pc[reading[c]] \in ReadOwner /\ cs[reading[c]] = c

\* Who has passed the gate of its slot is its first until the file is written.
SlotUser == {"wreg", "walive", "wliving", "wfile"}
SlotsKept == \A t \in Tasks : pc[t] \in SlotUser => First(t, slot[t])

Counted == QueuedCount /\ \A s \in Slots : IsFiniteSet(WaitFor(s))

\* The weak reference of a record leads to an entry of its checksum.
LinkedLiving ==
    \A c \in Checksums :
        alive[c] # NoRecord /\ wr[alive[c]] # NoObject => about[wr[alive[c]]] = c

\* Where a fiber may have an answer, and where it has a checksum.
Answers ==
    \A t \in Tasks :
        /\ result[t] # NoObject =>
            /\ pc[t] \in {"rdrop", "rresolve", "rdone", "rfollow"}
            /\ awaiting[t] = NoTask
        /\ pc[t] \in {"idle"} \cup GlobalLabels => cs[t] = NoChecksum

\* Who may be in line at a gate: those it is the next gate of, and those that
\* passed it and keep it.
AtAlive == {"walive", "ralive", "galive", "greading", "gwriting", "scan", "sprune"}
AtReading == {"rreg", "rdrop", "rdone", "greading", "gwriting", "scan", "sprune"}
AtWriting == {"wreg", "wdone", "rcheck", "gwriting", "scan", "sprune"}
AtSlot == {"wslot"} \cup SlotUser

Placed(p) ==
    /\ InQueue(p, "alive") => pc[p] \in AtAlive
    /\ InQueue(p, "reading") => pc[p] \in AtReading
    /\ InQueue(p, "writing") => pc[p] \in AtWriting
    /\ \A s \in Slots :
        InQueue(p, s) => p \in Tasks /\ pc[p] \in AtSlot /\ slot[p] = s
    /\ \A r \in Records :
        InQueue(p, r) /\ p = Sweeper => pc[p] = "sprune" /\ alive[cs[p]] = r
    /\ p \in Tasks =>
        /\ pc[p] \in {"greading", "gwriting"} => First(p, "alive")
        /\ pc[p] = "gwriting" => First(p, "reading")

Lines == \A p \in Processes : Placed(p)

Accounts ==
    /\ Owners /\ OwnerOfAwaited /\ SlotsKept /\ Counted /\ LinkedLiving /\ Answers
=============================================================================
