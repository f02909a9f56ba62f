--------------------------- MODULE DownloadWorker ---------------------------
(***************************************************************************)
(* Downloads, src/src/bz-download-worker.c and src/src/dl-worker.c: a      *)
(* BzDownloadWorker owns a subprocess and a pipe in each direction.  A     *)
(* call is a line in one pipe; the answer, a line in the other, names only *)
(* the destination, so a later call for a destination replaces the earlier *)
(* one.  The subprocess may die at any moment; its BzDownloadWorker is     *)
(* replaced when somebody asks for a worker after the exit was noticed.    *)
(*                                                                         *)
(* Calls come from any thread; the fibers of calls and the monitors run on *)
(* the main thread, one action between two awaits.                         *)
(***************************************************************************)
EXTENDS Integers, Sequences, FiniteSets

CONSTANTS
    Calls,       \* the promises of bz_download_worker_invoke
    Dests,       \* paths that files are downloaded to
    Workers,     \* BzDownloadWorker objects, each with its subprocess
    Size,        \* bz_get_n_download_workers
    PipeSize,    \* lines the pipe to a subprocess has room for
    NoCall, NoDest, NoWorker

ASSUME SizeAssumption == Size \in Nat \ {0} /\ PipeSize \in Nat \ {0}
ASSUME NothingAssumption ==
    NoCall \notin Calls /\ NoDest \notin Dests /\ NoWorker \notin Workers

VARIABLES
    defaults,   \* default_workers, <<>> while there are none
    turn,       \* next_default_worker
    obj,        \* whether each object exists
    proc,       \* whether its subprocess runs
    noticed,    \* GLib has collected the exit of the subprocess
    monitor,    \* the fiber that reads the answers
    waiting,    \* the table of promises by destination
    gate,       \* write_gate: the calls with a pending guard, in order
    stdin,      \* lines on their way to the subprocess
    stdout,     \* answers on their way back
    jobs,       \* what the subprocess downloads
    pc,         \* where the fiber of each call is
    dest,       \* the destination of the call
    via,        \* the worker it was given to
    promise,    \* what the caller awaits
    landed      \* calls whose download ended well

pools == <<defaults, turn>>
workers == <<obj, proc, noticed, monitor>>
pipes == <<stdin, stdout, jobs, landed>>
calls == <<dest, via>>
vars == <<pools, workers, waiting, gate, pipes, pc, calls, promise>>

Settled == {"true", "rejected"}
Answers == [to : Dests, ok : BOOLEAN]

TypeOK ==
    /\ defaults \in [1..Size -> Workers] \cup {<<>>}
    /\ turn \in 0..(Size - 1)
    /\ obj \in [Workers -> {"none", "live", "gone"}]
    /\ proc \in [Workers -> {"none", "running", "exited"}]
    /\ noticed \in [Workers -> BOOLEAN]
    /\ monitor \in [Workers -> {"reading", "ended", "failed"}]
    /\ waiting \in [Workers -> [Dests -> Calls \cup {NoCall}]]
    /\ gate \in [Workers -> Seq(Calls)]
    /\ stdin \in [Workers -> Seq(Calls)]
    /\ stdout \in [Workers -> Seq(Answers)]
    /\ jobs \in [Workers -> SUBSET Calls]
    /\ pc \in [Calls -> {"idle", "spawned", "queued", "writing", "written", "done"}]
    /\ dest \in [Calls -> Dests \cup {NoDest}]
    /\ via \in [Calls -> Workers \cup {NoWorker}]
    /\ promise \in [Calls -> {"none", "pending"} \cup Settled]
    /\ landed \subseteq Calls

Init ==
    /\ defaults = <<>>
    /\ turn = 0
    /\ obj = [w \in Workers |-> "none"]
    /\ proc = [w \in Workers |-> "none"]
    /\ noticed = [w \in Workers |-> FALSE]
    /\ monitor = [w \in Workers |-> "reading"]
    /\ waiting = [w \in Workers |-> [d \in Dests |-> NoCall]]
    /\ gate = [w \in Workers |-> <<>>]
    /\ stdin = [w \in Workers |-> <<>>]
    /\ stdout = [w \in Workers |-> <<>>]
    /\ jobs = [w \in Workers |-> {}]
    /\ pc = [k \in Calls |-> "idle"]
    /\ dest = [k \in Calls |-> NoDest]
    /\ via = [k \in Calls |-> NoWorker]
    /\ promise = [k \in Calls |-> "none"]
    /\ landed = {}

-----------------------------------------------------------------------------
\* The table of promises

Goto(k, label) == pc' = [pc EXCEPT ![k] = label]

\* The promises that wait at the workers of W.
WaitingAt(W) == {k \in Calls : \E w \in W, d \in Dests : waiting[w][d] = k}

Emptied(W) ==
    [w \in Workers |-> IF w \in W THEN [d \in Dests |-> NoCall] ELSE waiting[w]]

\* terminate for every worker of W.
Terminate(W) ==
    /\ waiting' = Emptied(W)
    /\ promise' = [k \in Calls |-> IF k \in WaitingAt(W) THEN "rejected" ELSE promise[k]]

InDefaults(w) == defaults # <<>> /\ \E i \in 1..Size : defaults[i] = w

\* A fiber in line for the pipe keeps its worker; those that lose their place
\* among the defaults, and that nobody keeps, are disposed of.
Kept(w) == \E k \in Calls : via[k] = w /\ pc[k] = "queued"

-----------------------------------------------------------------------------
\* bz_download_worker_get_default and bz_download_worker_invoke

\* The defaults after those whose subprocess has ended were recreated.
Refreshed ==
    {D \in [1..Size -> Workers] :
        /\ \A i, j \in 1..Size : i # j => D[i] # D[j]
        /\ \A i \in 1..Size :
            IF defaults # <<>> /\ ~ noticed[defaults[i]]
            THEN D[i] = defaults[i]
            ELSE obj[D[i]] = "none"}

Call(k, d) ==
    /\ pc[k] = "idle"
    /\ \E D \in Refreshed :
        LET fresh == {w \in Workers : obj[w] = "none" /\ \E i \in 1..Size : D[i] = w}
            lost == {w \in Workers : /\ InDefaults(w) /\ ~ Kept(w)
                                     /\ \A i \in 1..Size : D[i] # w}
        IN  /\ defaults' = D
            /\ via' = [via EXCEPT ![k] = D[turn + 1]]
            /\ obj' = [w \in Workers |-> IF w \in fresh THEN "live"
                                         ELSE IF w \in lost THEN "gone" ELSE obj[w]]
            /\ proc' = [w \in Workers |-> IF w \in fresh THEN "running" ELSE proc[w]]
            /\ waiting' = Emptied(lost)
            /\ promise' = [u \in Calls |-> IF u = k THEN "pending"
                                           ELSE IF u \in WaitingAt(lost) THEN "rejected"
                                           ELSE promise[u]]
    /\ turn' = (turn + 1) % Size
    /\ dest' = [dest EXCEPT ![k] = d]
    /\ Goto(k, "spawned")
    /\ UNCHANGED <<noticed, monitor, gate, pipes>>

\* bz_reap_default_download_workers, when the last window closes.
Reap ==
    /\ defaults # <<>>
    /\ LET lost == {w \in Workers : InDefaults(w) /\ ~ Kept(w)}
       IN  /\ obj' = [w \in Workers |-> IF w \in lost THEN "gone" ELSE obj[w]]
           /\ Terminate(lost)
    /\ proc' = [w \in Workers |-> IF InDefaults(w) THEN "exited" ELSE proc[w]]
    /\ stdin' = [w \in Workers |-> IF InDefaults(w) THEN <<>> ELSE stdin[w]]
    /\ jobs' = [w \in Workers |-> IF InDefaults(w) THEN {} ELSE jobs[w]]
    /\ defaults' = <<>>
    /\ turn' = 0
    /\ UNCHANGED <<noticed, monitor, gate, stdout, landed, pc, calls>>

-----------------------------------------------------------------------------
\* invoke_worker_fiber

\* The worker was discarded before the fiber began.
Discarded(k) ==
    /\ pc[k] = "spawned"
    /\ obj[via[k]] = "gone"
    /\ Goto(k, "done")
    /\ UNCHANGED <<pools, workers, waiting, gate, pipes, calls, promise>>

\* Mutant: the call that is replaced is not told.
RegisterSilently(k) ==
    LET w == via[k] IN
    /\ pc[k] = "spawned"
    /\ obj[w] = "live"
    /\ waiting' = [waiting EXCEPT ![w][dest[k]] = k]
    /\ gate' = [gate EXCEPT ![w] = Append(@, k)]
    /\ Goto(k, "queued")
    /\ UNCHANGED <<pools, workers, pipes, calls, promise>>

\* The promise takes the place of an earlier one for the destination, and the
\* fiber gets in line for the pipe.
Register(k) ==
    LET w == via[k]
        existing == waiting[w][dest[k]]
    IN
    /\ pc[k] = "spawned"
    /\ obj[w] = "live"
    /\ waiting' = [waiting EXCEPT ![w][dest[k]] = k]
    /\ promise' = [u \in Calls |-> IF u = existing THEN "rejected" ELSE promise[u]]
    /\ gate' = [gate EXCEPT ![w] = Append(@, k)]
    /\ Goto(k, "queued")
    /\ UNCHANGED <<pools, workers, pipes, calls>>

\* The guard is passed and the reference to the worker given up.
Enter(k) ==
    LET w == via[k]
        lost == IF InDefaults(w) \/ \E u \in Calls \ {k} : via[u] = w /\ pc[u] = "queued"
                THEN {} ELSE {w}
    IN
    /\ pc[k] = "queued"
    /\ gate[w] # <<>> /\ Head(gate[w]) = k
    /\ obj' = [x \in Workers |-> IF x \in lost THEN "gone" ELSE obj[x]]
    /\ Terminate(lost)
    /\ Goto(k, "writing")
    /\ UNCHANGED <<pools, proc, noticed, monitor, gate, pipes, calls>>

\* A line fits into the pipe or waits; the promise may be settled by now.
WriteLine(k) ==
    LET w == via[k] IN
    /\ pc[k] = "writing"
    /\ proc[w] = "running"
    /\ Len(stdin[w]) < PipeSize
    /\ stdin' = [stdin EXCEPT ![w] = Append(@, k)]
    /\ Goto(k, "written")
    /\ UNCHANGED <<pools, workers, waiting, gate, stdout, jobs, landed, calls, promise>>

LeaveGate(k) ==
    /\ gate' = [gate EXCEPT ![via[k]] = Tail(@)]
    /\ Goto(k, "done")

Written(k) ==
    /\ pc[k] = "written"
    /\ LeaveGate(k)
    /\ UNCHANGED <<pools, workers, waiting, pipes, calls, promise>>

\* The promise was settled before the line was in the pipe.
Abandon(k) ==
    /\ pc[k] = "writing"
    /\ promise[k] \in Settled
    /\ LeaveGate(k)
    /\ UNCHANGED <<pools, workers, waiting, pipes, calls, promise>>

\* Mutant: the promise is rejected where it stands.
WriteFailsKeeping(k) ==
    /\ pc[k] = "writing"
    /\ proc[via[k]] = "exited"
    /\ promise[k] = "pending"
    /\ LeaveGate(k)
    /\ promise' = [promise EXCEPT ![k] = "rejected"]
    /\ UNCHANGED <<pools, workers, waiting, pipes, calls>>

\* Nobody reads the pipe any more.
WriteFails(k) ==
    LET w == via[k] IN
    /\ pc[k] = "writing"
    /\ proc[w] = "exited"
    /\ promise[k] = "pending"
    /\ LeaveGate(k)
    /\ IF obj[w] = "live"
       THEN /\ waiting' = [waiting EXCEPT ![w][dest[k]] = NoCall]
            /\ promise' = [promise EXCEPT ![k] = "rejected"]
       ELSE UNCHANGED <<waiting, promise>>
    /\ UNCHANGED <<pools, workers, pipes, calls>>

Fiber(k) ==
    \/ Discarded(k) \/ Register(k) \/ Enter(k) \/ WriteLine(k)
    \/ Written(k) \/ Abandon(k) \/ WriteFails(k)

-----------------------------------------------------------------------------
\* The subprocess, dl-worker.c

TakeLine(w) ==
    /\ proc[w] = "running"
    /\ stdin[w] # <<>>
    /\ jobs' = [jobs EXCEPT ![w] = @ \cup {Head(stdin[w])}]
    /\ stdin' = [stdin EXCEPT ![w] = Tail(@)]
    /\ UNCHANGED <<pools, workers, waiting, gate, stdout, landed, pc, calls, promise>>

Download(w, k, ok) ==
    /\ proc[w] = "running"
    /\ k \in jobs[w]
    /\ jobs' = [jobs EXCEPT ![w] = @ \ {k}]
    /\ stdout' = [stdout EXCEPT ![w] = Append(@, [to |-> dest[k], ok |-> ok])]
    /\ landed' = IF ok THEN landed \cup {k} ELSE landed
    /\ UNCHANGED <<pools, workers, waiting, gate, stdin, pc, calls, promise>>

\* It crashes, or reads the end of its input: what it has not answered is lost.
Exit(w) ==
    /\ proc[w] = "running"
    /\ proc' = [proc EXCEPT ![w] = "exited"]
    /\ stdin' = [stdin EXCEPT ![w] = <<>>]
    /\ jobs' = [jobs EXCEPT ![w] = {}]
    /\ UNCHANGED <<pools, obj, noticed, monitor, waiting, gate, stdout, landed,
                   pc, calls, promise>>

Notice(w) ==
    /\ proc[w] = "exited"
    /\ ~ noticed[w]
    /\ noticed' = [noticed EXCEPT ![w] = TRUE]
    /\ UNCHANGED <<pools, obj, proc, monitor, waiting, gate, pipes, pc, calls, promise>>

-----------------------------------------------------------------------------
\* monitor_worker_fiber

\* Mutant: an answer leaves the promise in the table.
AnswerKeeping(w) ==
    LET answer == Head(stdout[w])
        k == waiting[w][answer.to]
    IN
    /\ obj[w] = "live" /\ monitor[w] = "reading"
    /\ stdout[w] # <<>>
    /\ stdout' = [stdout EXCEPT ![w] = Tail(@)]
    /\ promise' = [u \in Calls |-> IF u = k THEN (IF answer.ok THEN "true" ELSE "rejected")
                                   ELSE promise[u]]
    /\ UNCHANGED <<pools, workers, waiting, gate, stdin, jobs, landed, pc, calls>>

\* Mutant: whatever the subprocess answers is taken for success.
AnswerTrue(w) ==
    LET k == waiting[w][Head(stdout[w]).to] IN
    /\ obj[w] = "live" /\ monitor[w] = "reading"
    /\ stdout[w] # <<>>
    /\ stdout' = [stdout EXCEPT ![w] = Tail(@)]
    /\ promise' = [u \in Calls |-> IF u = k THEN "true" ELSE promise[u]]
    /\ waiting' = [waiting EXCEPT ![w][Head(stdout[w]).to] = NoCall]
    /\ UNCHANGED <<pools, workers, gate, stdin, jobs, landed, pc, calls>>

\* The promise that waits for the destination, if there is one, is settled.
Answer(w) ==
    LET answer == Head(stdout[w])
        k == waiting[w][answer.to]
    IN
    /\ obj[w] = "live" /\ monitor[w] = "reading"
    /\ stdout[w] # <<>>
    /\ stdout' = [stdout EXCEPT ![w] = Tail(@)]
    /\ promise' = [u \in Calls |-> IF u = k THEN (IF answer.ok THEN "true" ELSE "rejected")
                                   ELSE promise[u]]
    /\ waiting' = [waiting EXCEPT ![w][answer.to] = NoCall]
    /\ UNCHANGED <<pools, workers, gate, stdin, jobs, landed, pc, calls>>

\* Mutant: the monitor ends and leaves the promises in the table.
EndOfAnswersSilently(w) ==
    /\ obj[w] = "live" /\ monitor[w] = "reading"
    /\ stdout[w] = <<>>
    /\ proc[w] = "exited"
    /\ monitor' = [monitor EXCEPT ![w] = "ended"]
    /\ UNCHANGED <<pools, obj, proc, noticed, waiting, gate, pipes, pc, calls, promise>>

\* The pipe is empty and nobody has it open for writing.
EndOfAnswers(w) ==
    /\ obj[w] = "live" /\ monitor[w] = "reading"
    /\ stdout[w] = <<>>
    /\ proc[w] = "exited"
    /\ monitor' = [monitor EXCEPT ![w] = "ended"]
    /\ Terminate({w})
    /\ UNCHANGED <<pools, obj, proc, noticed, gate, pipes, pc, calls>>

\* The pipe cannot be read, or a line makes no sense.
ReadingFails(w) ==
    /\ obj[w] = "live" /\ monitor[w] = "reading"
    /\ monitor' = [monitor EXCEPT ![w] = "failed"]
    /\ Terminate({w})
    /\ UNCHANGED <<pools, obj, proc, noticed, gate, pipes, pc, calls>>

Monitor(w) == Answer(w) \/ EndOfAnswers(w) \/ ReadingFails(w)

Next ==
    \/ \E k \in Calls : Fiber(k) \/ \E d \in Dests : Call(k, d)
    \/ \E w \in Workers :
        \/ TakeLine(w) \/ Exit(w) \/ Notice(w) \/ Monitor(w)
        \/ \E k \in Calls, ok \in BOOLEAN : Download(w, k, ok)
    \/ Reap

Spec == Init /\ [][Next]_vars

\* The main loop runs every fiber, and the subprocess reads its input.  It has
\* no time limit for a download, so none has to end.
FairSpec ==
    /\ Spec
    /\ \A k \in Calls : WF_vars(Fiber(k))
    /\ \A w \in Workers :
        /\ WF_vars(TakeLine(w))
        /\ WF_vars(Answer(w) \/ EndOfAnswers(w))

-----------------------------------------------------------------------------
Registered(k) == pc[k] \in {"queued", "writing", "written", "done"}

\* The table holds exactly the pending promises that reached a worker which
\* still exists, each under its destination: answering, replacing, failing
\* and terminating settle a promise when, and only when, they remove it.
TableOfPending ==
    \A w \in Workers, d \in Dests, k \in Calls :
        waiting[w][d] = k <=> /\ via[k] = w /\ dest[k] = d
                              /\ Registered(k) /\ promise[k] = "pending"
                              /\ obj[w] = "live"

\* What a caller was told is never told again, whoever comes by later:
\* monitor, replacement, failed write, disposal.
SettledOnce ==
    [][\A k \in Calls : promise[k] \in Settled => promise'[k] = promise[k]]_vars

\* The caller is told of success only when a download to its destination
\* ended well in the subprocess that its line was for.
HonestAnswer ==
    \A k \in Calls :
        promise[k] = "true" =>
            \E u \in landed : dest[u] = dest[k] /\ via[u] = via[k]

\* Once the monitor has seen the end of the pipe, nobody will answer: a
\* promise is in the table only while its fiber has yet to find out.
NoVainWait ==
    \A w \in Workers, d \in Dests :
        monitor[w] = "ended" /\ waiting[w][d] # NoCall =>
            pc[waiting[w][d]] \in {"queued", "writing"}

\* A call that reached its worker is answered, replaced or rejected, also
\* when the subprocess dies, unless its download goes on for ever or the
\* monitor gave up on the pipe.
CallsSettle ==
    \A k \in Calls :
        pc[k] = "queued" ~>
            \/ promise[k] \in Settled
            \/ \E w \in Workers : via[k] = w /\ monitor[w] = "failed"
            \/ \E w \in Workers : [](k \in jobs[w])

\* The write_gate of a worker.
AtGate == {"queued", "writing", "written"}
InGate(k, w) == \E i \in 1..Len(gate[w]) : gate[w][i] = k

\* Whoever waits for the pipe of a worker is in line behind a fiber of the
\* same worker that has yet to leave it: no guard is left behind by a fiber
\* that ended, whichever way, and no fiber waits without one.
LineServed ==
    \A k \in Calls :
        pc[k] = "queued" =>
            /\ InGate(k, via[k])
            /\ LET first == Head(gate[via[k]])
               IN via[first] = via[k] /\ pc[first] \in AtGate

-----------------------------------------------------------------------------
\* What makes these invariants inductive.

\* Workers are made once, and live while they are defaults or in use.
Made ==
    \A w \in Workers :
        /\ InDefaults(w) => obj[w] = "live"
        /\ obj[w] = "none" => monitor[w] = "reading"
        /\ monitor[w] = "ended" => proc[w] = "exited"

\* A call knows its worker and its destination once it is made, and nobody
\* settles its promise before its fiber put it into the table.
Placed ==
    \A k \in Calls :
        /\ pc[k] = "idle" <=> promise[k] = "none"
        /\ pc[k] # "idle" => via[k] \in Workers /\ dest[k] \in Dests
        /\ pc[k] # "idle" => obj[via[k]] # "none"
        /\ pc[k] = "spawned" => promise[k] = "pending"
        /\ pc[k] = "queued" => obj[via[k]] = "live"

\* Who writes into the pipe of a worker is the first in line for it.
InLine ==
    \A k \in Calls :
        pc[k] \in {"writing", "written"} =>
            gate[via[k]] # <<>> /\ Head(gate[via[k]]) = k

\* The gate names the fibers that are at it, each of them once.
LineComplete ==
    \A w \in Workers :
        /\ \A k \in Calls : InGate(k, w) <=> via[k] = w /\ pc[k] \in AtGate
        /\ \A i, j \in 1..Len(gate[w]) : gate[w][i] = gate[w][j] => i = j

\* Lines and downloads are of calls to the worker they are found at, and an
\* answer that tells of success is about a download that ended well.
Traceable ==
    /\ \A w \in Workers :
        /\ \A i \in 1..Len(stdin[w]) : pc[stdin[w][i]] # "idle" /\ via[stdin[w][i]] = w
        /\ \A k \in jobs[w] : pc[k] # "idle" /\ via[k] = w
        /\ \A i \in 1..Len(stdout[w]) :
            stdout[w][i].ok =>
                \E u \in landed : dest[u] = stdout[w][i].to /\ via[u] = w
    /\ \A u \in landed : pc[u] # "idle"

\* The invariant of the proofs: with it, the table, the answers and the
\* monitor's end fit together in every reachable state.
IInv ==
    /\ TypeOK /\ Made /\ Placed /\ InLine /\ Traceable
    /\ TableOfPending /\ HonestAnswer /\ NoVainWait
=============================================================================
