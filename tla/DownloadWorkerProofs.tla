------------------------ MODULE DownloadWorkerProofs ------------------------
(***************************************************************************)
(* Proofs about DownloadWorker.  IInv is inductive: what the table holds   *)
(* is exactly what is pending, so every action that settles promises       *)
(* settles pending ones; lines, downloads and answers can be traced to     *)
(* calls of the same worker, so an answer of success is the truth.  With   *)
(* LineComplete, nobody waits for the pipe behind a fiber that has ended.  *)
(***************************************************************************)
EXTENDS DownloadWorker, SequenceTheorems, TLAPS

\* What a call does to the workers: D are the defaults after it, lost are
\* those that are disposed of.
CallEffect(k, D, lost) ==
    /\ D \in [1..Size -> Workers] /\ lost \in SUBSET Workers
    /\ \A i \in 1..Size : \/ obj[D[i]] = "none"
                          \/ InDefaults(D[i]) /\ obj[D[i]] = "live"
    /\ \A w \in lost : /\ obj[w] = "live" /\ ~ Kept(w)
                       /\ \A i \in 1..Size : D[i] # w
    /\ defaults' = D
    /\ turn + 1 \in 1..Size /\ D[turn + 1] \in Workers
    /\ via' = [via EXCEPT ![k] = D[turn + 1]]
    /\ obj' = [w \in Workers |->
                IF obj[w] = "none" /\ \E i \in 1..Size : D[i] = w THEN "live"
                ELSE IF w \in lost THEN "gone" ELSE obj[w]]
    /\ proc' = [w \in Workers |->
                IF obj[w] = "none" /\ \E i \in 1..Size : D[i] = w
                THEN "running" ELSE proc[w]]
    /\ waiting' = Emptied(lost)
    /\ promise' = [u \in Calls |->
                    IF u = k THEN "pending"
                    ELSE IF u \in WaitingAt(lost) THEN "rejected" ELSE promise[u]]

LEMMA CallFacts ==
    ASSUME IInv, NEW k \in Calls, NEW d \in Dests, Call(k, d)
    PROVE  \E D, lost : CallEffect(k, D, lost)
<1>1. PICK D \in Refreshed :
        LET fresh == {w \in Workers : obj[w] = "none" /\ \E i \in 1..Size : D[i] = w}
            lost == {w \in Workers : /\ InDefaults(w) /\ ~ Kept(w)
                                     /\ \A i \in 1..Size : D[i] # w}
        IN  /\ defaults' = D
            /\ via' = [via EXCEPT ![k] = D[turn + 1]]
            /\ obj' = [w \in Workers |-> IF w \in fresh THEN "live"
                                         ELSE IF w \in lost THEN "gone" ELSE obj[w]]
            /\ proc' = [w \in Workers |-> IF w \in fresh THEN "running" ELSE proc[w]]
            /\ waiting' = Emptied(lost)
            /\ promise' = [u \in Calls |-> IF u = k THEN "pending"
                                           ELSE IF u \in WaitingAt(lost) THEN "rejected"
                                           ELSE promise[u]]
  BY DEF Call
<1> DEFINE lost == {w \in Workers : /\ InDefaults(w) /\ ~ Kept(w)
                                    /\ \A i \in 1..Size : D[i] # w}
<1>2. D \in [1..Size -> Workers]
  BY DEF Refreshed
<1>3. ASSUME NEW i \in 1..Size
      PROVE  obj[D[i]] = "none" \/ (InDefaults(D[i]) /\ obj[D[i]] = "live")
  <2>1. CASE defaults # <<>> /\ ~ noticed[defaults[i]]
    <3>1. D[i] = defaults[i] /\ D[i] \in Workers /\ InDefaults(D[i])
      BY <1>2, <2>1 DEF Refreshed, InDefaults
    <3> QED
      BY <3>1 DEF IInv, Made
  <2>2. CASE ~ (defaults # <<>> /\ ~ noticed[defaults[i]])
    BY <2>2 DEF Refreshed
  <2> QED
    BY <2>1, <2>2
<1>4. turn + 1 \in 1..Size
  BY SizeAssumption DEF IInv, TypeOK
<1>5. D[turn + 1] \in Workers
  BY <1>2, <1>4
<1>6. \A w \in lost : obj[w] = "live" /\ ~ Kept(w) /\ \A i \in 1..Size : D[i] # w
  BY DEF IInv, Made
<1>7. obj' = [w \in Workers |->
                IF obj[w] = "none" /\ \E i \in 1..Size : D[i] = w THEN "live"
                ELSE IF w \in lost THEN "gone" ELSE obj[w]]
  BY <1>1
<1>8. proc' = [w \in Workers |->
                IF obj[w] = "none" /\ \E i \in 1..Size : D[i] = w
                THEN "running" ELSE proc[w]]
  BY <1>1
<1>9. /\ waiting' = Emptied(lost)
      /\ promise' = [u \in Calls |->
                    IF u = k THEN "pending"
                    ELSE IF u \in WaitingAt(lost) THEN "rejected" ELSE promise[u]]
      /\ defaults' = D /\ via' = [via EXCEPT ![k] = D[turn + 1]]
  BY <1>1
<1>10. lost \in SUBSET Workers
  OBVIOUS
<1> HIDE DEF lost
<1>11. CallEffect(k, D, lost)
  BY <1>2, <1>3, <1>4, <1>5, <1>6, <1>7, <1>8, <1>9, <1>10 DEF CallEffect
<1> QED
  BY <1>11

\* What the table holds is pending, and its fiber has been there.
LEMMA TableFacts ==
    ASSUME IInv, NEW w \in Workers, NEW d \in Dests, NEW u \in Calls, waiting[w][d] = u
    PROVE  /\ promise[u] = "pending" /\ Registered(u) /\ pc[u] # "spawned"
           /\ via[u] = w /\ dest[u] = d
<1>1. /\ promise[u] = "pending" /\ Registered(u) /\ via[u] = w /\ dest[u] = d
  BY DEF IInv, TableOfPending
<1> QED
  BY <1>1 DEF Registered

LEMMA WaitingFacts ==
    ASSUME IInv, NEW W \in SUBSET Workers
   
      PROVE  \A u \in WaitingAt(W) : u \in Calls /\ promise[u] = "pending" /\ pc[u] # "spawned"
  BY TableFacts DEF WaitingAt

\* terminate settles pending promises of fibers that registered, no others.
LEMMA TerminateFacts ==
    ASSUME IInv, NEW W \in SUBSET Workers, Terminate(W), NEW u \in Calls
    PROVE  /\ promise'[u] = "none" <=> promise[u] = "none"
           /\ pc[u] = "spawned" => promise'[u] = promise[u]
<1>1. promise'[u] = IF u \in WaitingAt(W) THEN "rejected" ELSE promise[u]
  BY DEF Terminate
<1> QED
  BY <1>1, WaitingFacts

-----------------------------------------------------------------------------
\* Every variable keeps its type.
LEMMA TypeStep == IInv /\ [Next]_vars => TypeOK'
<1> SUFFICES ASSUME IInv, [Next]_vars PROVE TypeOK'
  OBVIOUS
<1> USE DEF TypeOK, IInv, Placed, InLine, Settled, pools, workers, pipes, calls
<1>1. ASSUME NEW k \in Calls, NEW d \in Dests, Call(k, d) PROVE TypeOK'
  <2> HIDE DEF IInv
  <2>1. PICK D, lost : CallEffect(k, D, lost)
    BY <1>1, CallFacts
  <2> USE DEF IInv, CallEffect
  <2>2. waiting' \in [Workers -> [Dests -> Calls \cup {NoCall}]]
    BY <2>1 DEF Emptied
  <2>3. turn' \in 0..(Size - 1)
    BY <1>1, SizeAssumption DEF Call
  <2>4. /\ promise' \in [Calls -> {"none", "pending"} \cup Settled]
        /\ via' \in [Calls -> Workers \cup {NoWorker}]
    BY <2>1
  <2>5. obj' \in [Workers -> {"none", "live", "gone"}]
    BY <2>1
  <2>6. proc' \in [Workers -> {"none", "running", "exited"}]
    BY <2>1
  <2> QED
    BY <1>1, <2>1, <2>2, <2>3, <2>4, <2>5, <2>6 DEF Call, Goto
<1>2. ASSUME Reap PROVE TypeOK'
  <2>1. stdin' \in [Workers -> Seq(Calls)]
    BY <1>2, EmptySeq DEF Reap
  <2>2. waiting' \in [Workers -> [Dests -> Calls \cup {NoCall}]]
    BY <1>2 DEF Reap, Terminate, Emptied
  <2>3. promise' \in [Calls -> {"none", "pending"} \cup Settled]
    BY <1>2 DEF Reap, Terminate
  <2>4. obj' \in [Workers -> {"none", "live", "gone"}]
        /\ proc' \in [Workers -> {"none", "running", "exited"}]
        /\ jobs' \in [Workers -> SUBSET Calls]
    BY <1>2 DEF Reap
  <2> QED
    BY <1>2, <2>1, <2>2, <2>3, <2>4, SizeAssumption DEF Reap
<1>3. ASSUME NEW k \in Calls, Discarded(k) PROVE TypeOK'
  BY <1>3, NothingAssumption, SizeAssumption DEF Discarded, Answers, Goto
<1>4. ASSUME NEW k \in Calls, Register(k) PROVE TypeOK'
  BY <1>4, NothingAssumption, SizeAssumption, AppendProperties DEF Register,
      Answers, Goto
<1>5. ASSUME NEW k \in Calls, Enter(k) PROVE TypeOK'
  BY <1>5, NothingAssumption, SizeAssumption DEF Enter, Answers, Terminate,
      Emptied, WaitingAt, Goto
<1>6. ASSUME NEW k \in Calls, WriteLine(k) PROVE TypeOK'
  BY <1>6, NothingAssumption, SizeAssumption, AppendProperties DEF WriteLine,
      Answers, Goto
<1>7. ASSUME NEW k \in Calls, Written(k) PROVE TypeOK'
  BY <1>7, NothingAssumption, SizeAssumption, HeadTailProperties DEF Written,
      Answers, LeaveGate, Goto
<1>8. ASSUME NEW k \in Calls, Abandon(k) PROVE TypeOK'
  BY <1>8, NothingAssumption, SizeAssumption, HeadTailProperties DEF Abandon,
      Answers, LeaveGate, Goto
<1>9. ASSUME NEW k \in Calls, WriteFails(k) PROVE TypeOK'
  <2>1. k \in Calls /\ via[k] \in Workers /\ dest[k] \in Dests /\ gate[via[k]] # <<>>
    BY <1>9 DEF WriteFails
  <2>2. gate' \in [Workers -> Seq(Calls)]
    BY <1>9, <2>1, HeadTailProperties DEF WriteFails, LeaveGate
  <2>3. CASE obj[via[k]] = "live"
    <3>1. waiting' = [waiting EXCEPT ![via[k]][dest[k]] = NoCall]
      BY <1>9, <2>3 DEF WriteFails
    <3>2. waiting' \in [Workers -> [Dests -> Calls \cup {NoCall}]]
      BY <3>1, <2>1
    <3>3. promise' \in [Calls -> {"none", "pending"} \cup Settled]
      BY <1>9, <2>1, <2>3 DEF WriteFails
    <3> QED
      BY <1>9, <2>2, <3>2, <3>3 DEF WriteFails, LeaveGate, Goto
  <2>4. CASE obj[via[k]] # "live"
    BY <1>9, <2>2, <2>4 DEF WriteFails, LeaveGate, Goto
  <2> QED
    BY <2>3, <2>4
<1>10. ASSUME NEW w \in Workers, TakeLine(w) PROVE TypeOK'
  <2>1. Head(stdin[w]) \in Calls /\ Tail(stdin[w]) \in Seq(Calls)
    BY <1>10, HeadTailProperties DEF TakeLine
  <2> QED
    BY <1>10, <2>1 DEF TakeLine
<1>11. ASSUME NEW w \in Workers, Exit(w) PROVE TypeOK'
  BY <1>11, NothingAssumption, SizeAssumption, EmptySeq DEF Exit, Answers
<1>12. ASSUME NEW w \in Workers, Notice(w) PROVE TypeOK'
  BY <1>12, NothingAssumption, SizeAssumption DEF Notice, Answers
<1>13. ASSUME NEW w \in Workers, Answer(w) PROVE TypeOK'
  BY <1>13, NothingAssumption, SizeAssumption, HeadTailProperties DEF Answer,
      Answers
<1>14. ASSUME NEW w \in Workers, EndOfAnswers(w) PROVE TypeOK'
  BY <1>14, NothingAssumption, SizeAssumption DEF EndOfAnswers, Answers, Terminate,
      Emptied, WaitingAt
<1>15. ASSUME NEW w \in Workers, ReadingFails(w) PROVE TypeOK'
  BY <1>15, NothingAssumption, SizeAssumption DEF ReadingFails, Answers, Terminate,
      Emptied, WaitingAt
<1>16. ASSUME NEW w \in Workers, NEW k \in Calls, NEW ok \in BOOLEAN, Download(w, k, ok)
      PROVE TypeOK'
  <2>1. [to |-> dest[k], ok |-> ok] \in Answers
    BY <1>16 DEF Download, Answers, Traceable
  <2>2. stdout' \in [Workers -> Seq(Answers)]
    BY <1>16, <2>1, AppendProperties DEF Download
  <2> QED
    BY <1>16, <2>2 DEF Download
<1>17. ASSUME UNCHANGED vars PROVE TypeOK'
  BY <1>17, NothingAssumption, SizeAssumption DEF vars, Answers
<1> HIDE DEF IInv, TypeOK
<1> QED
  BY <1>1, <1>2, <1>3, <1>4, <1>5, <1>6, <1>7, <1>8, <1>9,
    <1>10, <1>11, <1>12, <1>13, <1>14, <1>15, <1>16, <1>17 DEF Next, Fiber, Monitor

\* Workers are made once, and the defaults live.
LEMMA MadeStep == IInv /\ [Next]_vars => Made'
<1> SUFFICES ASSUME IInv, [Next]_vars PROVE Made'
  OBVIOUS
<1> USE DEF TypeOK, IInv, Made, Placed, InDefaults, Kept, pools, workers, pipes,
    calls
<1>1. ASSUME NEW k \in Calls, NEW d \in Dests, Call(k, d) PROVE Made'
  <2> HIDE DEF IInv
  <2>1. PICK D, lost : CallEffect(k, D, lost)
    BY <1>1, CallFacts
  <2> USE DEF IInv, CallEffect
  <2>2. \A w \in Workers : InDefaults(w)' => \E i \in 1..Size : D[i] = w
    BY <2>1 DEF InDefaults
  <2> QED
    BY <1>1, <2>1, <2>2 DEF Call
<1>2. ASSUME Reap PROVE Made'
  BY <1>2, NothingAssumption, SizeAssumption DEF Reap, Terminate, Emptied, WaitingAt
<1>3. ASSUME NEW k \in Calls, Discarded(k) PROVE Made'
  BY <1>3, NothingAssumption, SizeAssumption DEF Discarded, Goto
<1>4. ASSUME NEW k \in Calls, Register(k) PROVE Made'
  BY <1>4, NothingAssumption, SizeAssumption DEF Register, Goto
<1>5. ASSUME NEW k \in Calls, Enter(k) PROVE Made'
  BY <1>5, NothingAssumption, SizeAssumption DEF Enter, Terminate, Emptied,
      WaitingAt, Goto
<1>6. ASSUME NEW k \in Calls, WriteLine(k) PROVE Made'
  BY <1>6, NothingAssumption, SizeAssumption DEF WriteLine, Goto
<1>7. ASSUME NEW k \in Calls, Written(k) PROVE Made'
  BY <1>7, NothingAssumption, SizeAssumption DEF Written, LeaveGate, Goto
<1>8. ASSUME NEW k \in Calls, Abandon(k) PROVE Made'
  BY <1>8, NothingAssumption, SizeAssumption DEF Abandon, LeaveGate, Goto
<1>9. ASSUME NEW k \in Calls, WriteFails(k) PROVE Made'
  BY <1>9, NothingAssumption, SizeAssumption DEF WriteFails, LeaveGate, Goto
<1>10. ASSUME NEW w \in Workers, TakeLine(w) PROVE Made'
  BY <1>10, NothingAssumption, SizeAssumption DEF TakeLine
<1>11. ASSUME NEW w \in Workers, Exit(w) PROVE Made'
  BY <1>11, NothingAssumption, SizeAssumption DEF Exit
<1>12. ASSUME NEW w \in Workers, Notice(w) PROVE Made'
  BY <1>12, NothingAssumption, SizeAssumption DEF Notice
<1>13. ASSUME NEW w \in Workers, Answer(w) PROVE Made'
  BY <1>13, NothingAssumption, SizeAssumption DEF Answer
<1>14. ASSUME NEW w \in Workers, EndOfAnswers(w) PROVE Made'
  BY <1>14, NothingAssumption, SizeAssumption DEF EndOfAnswers, Terminate, Emptied,
      WaitingAt
<1>15. ASSUME NEW w \in Workers, ReadingFails(w) PROVE Made'
  BY <1>15, NothingAssumption, SizeAssumption DEF ReadingFails, Terminate, Emptied,
      WaitingAt
<1>16. ASSUME NEW w \in Workers, NEW k \in Calls, NEW ok \in BOOLEAN, Download(w, k, ok)
      PROVE Made'
  BY <1>16, NothingAssumption, SizeAssumption DEF Download
<1>17. ASSUME UNCHANGED vars PROVE Made'
  BY <1>17, NothingAssumption, SizeAssumption DEF vars
<1> HIDE DEF IInv, Made
<1> QED
  BY <1>1, <1>2, <1>3, <1>4, <1>5, <1>6, <1>7, <1>8, <1>9,
    <1>10, <1>11, <1>12, <1>13, <1>14, <1>15, <1>16, <1>17 DEF Next, Fiber, Monitor

\* Calls keep their worker, which exists when they enter the line.
LEMMA PlacedStep == IInv /\ [Next]_vars => Placed'
<1> SUFFICES ASSUME IInv, [Next]_vars PROVE Placed'
  OBVIOUS
<1> USE DEF TypeOK, IInv, Made, Placed, InDefaults, Kept, Settled, TableOfPending,
    Registered, pools, workers, pipes, calls
<1>1. ASSUME NEW k \in Calls, NEW d \in Dests, Call(k, d) PROVE Placed'
  <2> HIDE DEF IInv
  <2>1. PICK D, lost : CallEffect(k, D, lost)
    BY <1>1, CallFacts
  <2> USE DEF IInv, CallEffect
  <2>2. \A u \in Calls : u # k =>
            /\ pc'[u] = pc[u] /\ via'[u] = via[u] /\ dest'[u] = dest[u]
            /\ promise'[u] = "none" <=> promise[u] = "none"
            /\ pc[u] = "spawned" => promise'[u] = promise[u]
    <3>1. \A u \in WaitingAt(lost) : u \in Calls /\ promise[u] = "pending" /\ pc[u] # "spawned"
      <4>1. lost \in SUBSET Workers
        BY <2>1
      <4> HIDE DEF IInv
      <4> QED
        BY <4>1, WaitingFacts
    <3>2. \A u \in Calls : u # k =>
            promise'[u] = IF u \in WaitingAt(lost) THEN "rejected" ELSE promise[u]
      BY <2>1
    <3>3. \A u \in Calls : u # k =>
            pc'[u] = pc[u] /\ via'[u] = via[u] /\ dest'[u] = dest[u]
      BY <1>1, <2>1 DEF Call, Goto
    <3> QED
      BY <3>1, <3>2, <3>3
  <2>3. /\ pc'[k] = "spawned" /\ via'[k] = D[turn + 1] /\ dest'[k] = d /\ promise'[k] = "pending"
        /\ obj'[D[turn + 1]] # "none" /\ D[turn + 1] \in Workers
    BY <1>1, <2>1 DEF Call, Goto
  <2>4. \A w \in Workers : /\ obj[w] # "none" => obj'[w] # "none"
                           /\ obj[w] = "live" /\ Kept(w) => obj'[w] = "live"
    BY <2>1
  <2>5. \A u \in Calls : pc[u] = "queued" => obj'[via[u]] = "live"
    BY <2>4
  <2>6. \A u \in Calls : pc[u] # "idle" => obj'[via[u]] # "none"
    BY <2>4
  <2> QED
    BY <2>2, <2>3, <2>5, <2>6
<1>2. ASSUME Reap PROVE Placed'
  <2> DEFINE lost == {w \in Workers : InDefaults(w) /\ ~ Kept(w)}
  <2>1. \A u \in Calls : /\ promise'[u] = "none" <=> promise[u] = "none"
                         /\ pc[u] = "spawned" => promise'[u] = promise[u]
    <3>1. lost \in SUBSET Workers /\ Terminate(lost)
      BY <1>2 DEF Reap
    <3> HIDE DEF IInv, lost
    <3> QED
      BY <3>1, TerminateFacts
  <2>2. UNCHANGED <<pc, via, dest>>
    BY <1>2 DEF Reap
  <2>3. \A w \in Workers : /\ obj[w] # "none" => obj'[w] # "none"
                           /\ obj[w] = "live" /\ Kept(w) => obj'[w] = "live"
    BY <1>2 DEF Reap
  <2>4. \A u \in Calls : pc[u] = "queued" => obj'[via[u]] = "live"
    BY <2>3
  <2>5. \A u \in Calls : pc[u] # "idle" => obj'[via[u]] # "none"
    BY <2>3
  <2> HIDE DEF lost
  <2> QED
    BY <2>1, <2>2, <2>4, <2>5
<1>3. ASSUME NEW k \in Calls, Discarded(k) PROVE Placed'
  BY <1>3, NothingAssumption, SizeAssumption DEF Discarded, Goto
<1>4. ASSUME NEW k \in Calls, Register(k) PROVE Placed'
  BY <1>4, NothingAssumption, SizeAssumption DEF Register, Goto
<1>5. ASSUME NEW k \in Calls, Enter(k) PROVE Placed'
  <2> DEFINE lost == IF InDefaults(via[k])
                        \/ \E u \in Calls \ {k} : via[u] = via[k] /\ pc[u] = "queued"
                     THEN {} ELSE {via[k]}
  <2>1. \A u \in Calls : /\ promise'[u] = "none" <=> promise[u] = "none"
                         /\ pc[u] = "spawned" => promise'[u] = promise[u]
    <3>1. lost \in SUBSET Workers /\ Terminate(lost)
      BY <1>5 DEF Enter
    <3> HIDE DEF IInv, lost
    <3> QED
      BY <3>1, TerminateFacts
  <2>2. /\ UNCHANGED <<via, dest>> /\ pc[k] = "queued" /\ pc'[k] = "writing"
        /\ \A u \in Calls : u # k => pc'[u] = pc[u]
        /\ obj' = [x \in Workers |-> IF x \in lost THEN "gone" ELSE obj[x]]
    BY <1>5 DEF Enter, Goto
  <2>3. \A u \in Calls : u # k /\ pc[u] = "queued" => obj'[via[u]] = "live"
    BY <2>2
  <2>4. \A u \in Calls : pc[u] # "idle" => obj'[via[u]] # "none"
    BY <2>2
  <2>5. \A u \in Calls : /\ pc'[u] = "idle" <=> pc[u] = "idle"
                         /\ pc'[u] = "spawned" => pc[u] = "spawned"
                         /\ pc'[u] = "queued" => u # k /\ pc[u] = "queued"
    BY <2>2
  <2>6. \A u \in Calls :
            /\ pc[u] = "idle" <=> promise[u] = "none"
            /\ pc[u] # "idle" => via[u] \in Workers /\ dest[u] \in Dests
            /\ pc[u] = "spawned" => promise[u] = "pending"
    OBVIOUS
  <2>7. via' = via /\ dest' = dest
    BY <2>2
  <2> HIDE DEF lost, IInv, TypeOK
  <2> QED
    BY <2>1, <2>3, <2>4, <2>5, <2>6, <2>7
<1>6. ASSUME NEW k \in Calls, WriteLine(k) PROVE Placed'
  BY <1>6, NothingAssumption, SizeAssumption DEF WriteLine, Goto
<1>7. ASSUME NEW k \in Calls, Written(k) PROVE Placed'
  BY <1>7, NothingAssumption, SizeAssumption DEF Written, LeaveGate, Goto
<1>8. ASSUME NEW k \in Calls, Abandon(k) PROVE Placed'
  BY <1>8, NothingAssumption, SizeAssumption DEF Abandon, LeaveGate, Goto
<1>9. ASSUME NEW k \in Calls, WriteFails(k) PROVE Placed'
  BY <1>9, NothingAssumption, SizeAssumption DEF WriteFails, LeaveGate, Goto
<1>10. ASSUME NEW w \in Workers, TakeLine(w) PROVE Placed'
  BY <1>10, NothingAssumption, SizeAssumption DEF TakeLine
<1>11. ASSUME NEW w \in Workers, Exit(w) PROVE Placed'
  BY <1>11, NothingAssumption, SizeAssumption DEF Exit
<1>12. ASSUME NEW w \in Workers, Notice(w) PROVE Placed'
  BY <1>12, NothingAssumption, SizeAssumption DEF Notice
<1>13. ASSUME NEW w \in Workers, Answer(w) PROVE Placed'
  <2>1. Head(stdout[w]) \in Answers
    BY <1>13, HeadTailProperties DEF Answer
  <2>2. Head(stdout[w]).to \in Dests
    BY <2>1 DEF Answers
  <2>3. \A u \in Calls : u = waiting[w][Head(stdout[w]).to]
            => promise[u] = "pending" /\ pc[u] # "spawned"
    <3> HIDE DEF IInv
    <3> QED
      BY <2>2, TableFacts
  <2>4. \A u \in Calls : /\ promise'[u] = "none" <=> promise[u] = "none"
                         /\ pc[u] = "spawned" => promise'[u] = promise[u]
    BY <1>13, <2>3 DEF Answer
  <2> QED
    BY <1>13, <2>4 DEF Answer
<1>14. ASSUME NEW w \in Workers, EndOfAnswers(w) PROVE Placed'
  <2>1. \A u \in Calls : /\ promise'[u] = "none" <=> promise[u] = "none"
                         /\ pc[u] = "spawned" => promise'[u] = promise[u]
    <3>1. {w} \in SUBSET Workers /\ Terminate({w})
      BY <1>14 DEF EndOfAnswers
    <3> HIDE DEF IInv
    <3> QED
      BY <3>1, TerminateFacts
  <2> QED
    BY <1>14, <2>1 DEF EndOfAnswers
<1>15. ASSUME NEW w \in Workers, ReadingFails(w) PROVE Placed'
  <2>1. \A u \in Calls : /\ promise'[u] = "none" <=> promise[u] = "none"
                         /\ pc[u] = "spawned" => promise'[u] = promise[u]
    <3>1. {w} \in SUBSET Workers /\ Terminate({w})
      BY <1>15 DEF ReadingFails
    <3> HIDE DEF IInv
    <3> QED
      BY <3>1, TerminateFacts
  <2> QED
    BY <1>15, <2>1 DEF ReadingFails
<1>16. ASSUME NEW w \in Workers, NEW k \in Calls, NEW ok \in BOOLEAN, Download(w, k, ok)
      PROVE Placed'
  BY <1>16, NothingAssumption, SizeAssumption DEF Download
<1>17. ASSUME UNCHANGED vars PROVE Placed'
  BY <1>17, NothingAssumption, SizeAssumption DEF vars
<1> HIDE DEF IInv, Placed
<1> QED
  BY <1>1, <1>2, <1>3, <1>4, <1>5, <1>6, <1>7, <1>8, <1>9,
    <1>10, <1>11, <1>12, <1>13, <1>14, <1>15, <1>16, <1>17 DEF Next, Fiber, Monitor

\* The line for the pipe keeps its order.
LEMMA InLineStep == IInv /\ [Next]_vars => InLine'
<1> SUFFICES ASSUME IInv, [Next]_vars PROVE InLine'
  OBVIOUS
<1> USE DEF TypeOK, IInv, Placed, InLine, pools, workers, pipes, calls
<1>1. ASSUME NEW k \in Calls, NEW d \in Dests, Call(k, d) PROVE InLine'
  BY <1>1, NothingAssumption DEF Call, Refreshed, Emptied, WaitingAt, Goto
<1>2. ASSUME Reap PROVE InLine'
  BY <1>2, NothingAssumption DEF Reap, Terminate, Emptied, WaitingAt
<1>3. ASSUME NEW k \in Calls, Discarded(k) PROVE InLine'
  BY <1>3, NothingAssumption DEF Discarded, Goto
<1>4. ASSUME NEW k \in Calls, Register(k) PROVE InLine'
  <2>1. /\ k \in Calls /\ via[k] \in Workers /\ pc[k] = "spawned"
        /\ gate \in [Workers -> Seq(Calls)] /\ DOMAIN pc = Calls
    BY <1>4 DEF Register
  <2>2. /\ gate' = [gate EXCEPT ![via[k]] = Append(gate[via[k]], k)]
        /\ pc' = [pc EXCEPT ![k] = "queued"]
    BY <1>4 DEF Register, Goto
  <2>3. via' = via
    BY <1>4 DEF Register
  <2>4. \A u \in Calls : pc[u] \in {"writing", "written"} =>
            via[u] \in Workers /\ gate[via[u]] # <<>> /\ Head(gate[via[u]]) = u
    OBVIOUS
  <2> HIDE DEF IInv, TypeOK, Placed
  <2>5. ASSUME NEW u \in Calls, pc'[u] \in {"writing", "written"}
        PROVE  gate'[via[u]] # <<>> /\ Head(gate'[via[u]]) = u
    <3>1. /\ via[u] \in Workers /\ gate[via[u]] \in Seq(Calls)
          /\ gate[via[u]] # <<>> /\ Head(gate[via[u]]) = u
      BY <2>1, <2>2, <2>4, <2>5
    <3>2. CASE via[u] = via[k]
      <4>1. gate'[via[u]] = Append(gate[via[u]], k)
        BY <2>1, <2>2, <3>2
      <4> QED
        <5>1. Append(gate[via[u]], k)[1] = gate[via[u]][1] /\ Append(gate[via[u]], k) # <<>>
          BY <2>1, <3>1, AppendProperties, EmptySeq
        <5>2. Append(gate[via[u]], k) \in Seq(Calls)
          BY <2>1, <3>1, AppendProperties
        <5> QED
          BY <3>1, <4>1, <5>1, <5>2
    <3>3. CASE via[u] # via[k]
      BY <2>1, <2>2, <3>1, <3>3
    <3> QED
      BY <3>2, <3>3
  <2> QED
    BY <2>3, <2>5
<1>5. ASSUME NEW k \in Calls, Enter(k) PROVE InLine'
  BY <1>5, NothingAssumption DEF Enter, Terminate, Emptied, WaitingAt, Goto
<1>6. ASSUME NEW k \in Calls, WriteLine(k) PROVE InLine'
  BY <1>6, NothingAssumption DEF WriteLine, Goto
<1>7. ASSUME NEW k \in Calls, Written(k) PROVE InLine'
  BY <1>7, NothingAssumption, HeadTailProperties DEF Written, LeaveGate, Goto
<1>8. ASSUME NEW k \in Calls, Abandon(k) PROVE InLine'
  BY <1>8, NothingAssumption, HeadTailProperties DEF Abandon, LeaveGate, Goto
<1>9. ASSUME NEW k \in Calls, WriteFails(k) PROVE InLine'
  BY <1>9, NothingAssumption, HeadTailProperties DEF WriteFails, LeaveGate, Goto
<1>10. ASSUME NEW w \in Workers, TakeLine(w) PROVE InLine'
  BY <1>10, NothingAssumption DEF TakeLine
<1>11. ASSUME NEW w \in Workers, Exit(w) PROVE InLine'
  BY <1>11, NothingAssumption DEF Exit
<1>12. ASSUME NEW w \in Workers, Notice(w) PROVE InLine'
  BY <1>12, NothingAssumption DEF Notice
<1>13. ASSUME NEW w \in Workers, Answer(w) PROVE InLine'
  BY <1>13, NothingAssumption DEF Answer
<1>14. ASSUME NEW w \in Workers, EndOfAnswers(w) PROVE InLine'
  BY <1>14, NothingAssumption DEF EndOfAnswers, Terminate, Emptied, WaitingAt
<1>15. ASSUME NEW w \in Workers, ReadingFails(w) PROVE InLine'
  BY <1>15, NothingAssumption DEF ReadingFails, Terminate, Emptied, WaitingAt
<1>16. ASSUME NEW w \in Workers, NEW k \in Calls, NEW ok \in BOOLEAN, Download(w, k, ok)
      PROVE InLine'
  BY <1>16, NothingAssumption DEF Download
<1>17. ASSUME UNCHANGED vars PROVE InLine'
  BY <1>17, NothingAssumption DEF vars
<1> HIDE DEF IInv, InLine
<1> QED
  BY <1>1, <1>2, <1>3, <1>4, <1>5, <1>6, <1>7, <1>8, <1>9,
    <1>10, <1>11, <1>12, <1>13, <1>14, <1>15, <1>16, <1>17 DEF Next, Fiber, Monitor

\* What is on its way belongs to the worker it is found at.
LEMMA TraceableStep == IInv /\ [Next]_vars => Traceable'
<1> SUFFICES ASSUME IInv, [Next]_vars PROVE Traceable'
  OBVIOUS
<1> USE DEF TypeOK, IInv, Placed, Traceable, pools, workers, pipes, calls
<1>1. ASSUME NEW k \in Calls, NEW d \in Dests, Call(k, d) PROVE Traceable'
  <2>1. /\ UNCHANGED <<stdin, jobs, stdout, landed>>
        /\ \A u \in Calls : pc[u] # "idle" =>
            pc'[u] # "idle" /\ via'[u] = via[u] /\ dest'[u] = dest[u]
    BY <1>1 DEF Call, Goto
  <2>2. ASSUME NEW w \in Workers, NEW i \in 1..Len(stdin[w])
        PROVE  pc'[stdin[w][i]] # "idle" /\ via'[stdin[w][i]] = w
    <3>1. stdin[w][i] \in Calls
      OBVIOUS
    <3> QED
      BY <2>1, <3>1
  <2>3. ASSUME NEW w \in Workers, NEW u \in jobs[w]
        PROVE  pc'[u] # "idle" /\ via'[u] = w
    BY <2>1
  <2>4. ASSUME NEW w \in Workers, NEW i \in 1..Len(stdout[w]), stdout[w][i].ok
        PROVE  \E u \in landed : dest'[u] = stdout[w][i].to /\ via'[u] = w
    <3>1. PICK u \in landed : dest[u] = stdout[w][i].to /\ via[u] = w
      BY <2>4
    <3> QED
      BY <2>1, <3>1
  <2>5. \A u \in landed : pc'[u] # "idle"
    BY <2>1
  <2>6. stdin' = stdin /\ jobs' = jobs /\ stdout' = stdout /\ landed' = landed
    BY <2>1
  <2> HIDE DEF IInv, TypeOK, Placed
  <2> QED
    BY <2>2, <2>3, <2>4, <2>5, <2>6
<1>2. ASSUME Reap PROVE Traceable'
  <2>1. /\ UNCHANGED <<stdout, landed, pc, via, dest>>
        /\ \A x \in Workers : /\ stdin'[x] = <<>> \/ stdin'[x] = stdin[x]
                              /\ jobs'[x] \subseteq jobs[x]
    BY <1>2 DEF Reap
  <2>2. Len(<<>>) = 0
    OBVIOUS
  <2> HIDE DEF IInv, TypeOK, Placed
  <2>3. Traceable
    BY DEF IInv
  <2>4. ASSUME NEW w \in Workers, NEW i \in 1..Len(stdin'[w])
        PROVE  pc'[stdin'[w][i]] # "idle" /\ via'[stdin'[w][i]] = w
    BY <2>1, <2>2, <2>3, <2>4
  <2>5. ASSUME NEW w \in Workers, NEW u \in jobs'[w]
        PROVE  pc'[u] # "idle" /\ via'[u] = w
    BY <2>1, <2>3, <2>5
  <2> QED
    BY <2>1, <2>3, <2>4, <2>5
<1>3. ASSUME NEW k \in Calls, Discarded(k) PROVE Traceable'
  BY <1>3, NothingAssumption DEF Discarded, Goto
<1>4. ASSUME NEW k \in Calls, Register(k) PROVE Traceable'
  BY <1>4, NothingAssumption DEF Register, Goto
<1>5. ASSUME NEW k \in Calls, Enter(k) PROVE Traceable'
  BY <1>5, NothingAssumption DEF Enter, Terminate, Emptied, WaitingAt, Goto
<1>6. ASSUME NEW k \in Calls, WriteLine(k) PROVE Traceable'
  BY <1>6, NothingAssumption, AppendProperties DEF WriteLine, Goto
<1>7. ASSUME NEW k \in Calls, Written(k) PROVE Traceable'
  BY <1>7, NothingAssumption DEF Written, LeaveGate, Goto
<1>8. ASSUME NEW k \in Calls, Abandon(k) PROVE Traceable'
  BY <1>8, NothingAssumption DEF Abandon, LeaveGate, Goto
<1>9. ASSUME NEW k \in Calls, WriteFails(k) PROVE Traceable'
  BY <1>9, NothingAssumption DEF WriteFails, LeaveGate, Goto
<1>10. ASSUME NEW w \in Workers, TakeLine(w) PROVE Traceable'
  BY <1>10, NothingAssumption, HeadTailProperties DEF TakeLine
<1>11. ASSUME NEW w \in Workers, Exit(w) PROVE Traceable'
  BY <1>11, NothingAssumption DEF Exit
<1>12. ASSUME NEW w \in Workers, Notice(w) PROVE Traceable'
  BY <1>12, NothingAssumption DEF Notice
<1>13. ASSUME NEW w \in Workers, Answer(w) PROVE Traceable'
  BY <1>13, NothingAssumption, HeadTailProperties DEF Answer
<1>14. ASSUME NEW w \in Workers, EndOfAnswers(w) PROVE Traceable'
  BY <1>14, NothingAssumption DEF EndOfAnswers, Terminate, Emptied, WaitingAt
<1>15. ASSUME NEW w \in Workers, ReadingFails(w) PROVE Traceable'
  BY <1>15, NothingAssumption DEF ReadingFails, Terminate, Emptied, WaitingAt
<1>16. ASSUME NEW w \in Workers, NEW k \in Calls, NEW ok \in BOOLEAN, Download(w, k, ok)
      PROVE Traceable'
  BY <1>16, NothingAssumption, AppendProperties DEF Download
<1>17. ASSUME UNCHANGED vars PROVE Traceable'
  BY <1>17, NothingAssumption DEF vars
<1> HIDE DEF IInv, Traceable
<1> QED
  BY <1>1, <1>2, <1>3, <1>4, <1>5, <1>6, <1>7, <1>8, <1>9,
    <1>10, <1>11, <1>12, <1>13, <1>14, <1>15, <1>16, <1>17 DEF Next, Fiber, Monitor

\* Settling and removing from the table go together.
LEMMA TableStep == IInv /\ [Next]_vars => TableOfPending'
<1> SUFFICES ASSUME IInv, [Next]_vars PROVE TableOfPending'
  OBVIOUS
<1> USE DEF TypeOK, IInv, Made, Placed, InDefaults, Kept, Settled, TableOfPending,
    Registered, pools, workers, pipes, calls
<1>1. ASSUME NEW k \in Calls, NEW d \in Dests, Call(k, d) PROVE TableOfPending'
  BY <1>1, NothingAssumption DEF Call, Refreshed, Emptied, WaitingAt, Goto
<1>2. ASSUME Reap PROVE TableOfPending'
  BY <1>2, NothingAssumption DEF Reap, Terminate, Emptied, WaitingAt
<1>3. ASSUME NEW k \in Calls, Discarded(k) PROVE TableOfPending'
  BY <1>3, NothingAssumption DEF Discarded, Goto
<1>4. ASSUME NEW k \in Calls, Register(k) PROVE TableOfPending'
  <2>1. /\ k \in Calls /\ via[k] \in Workers /\ dest[k] \in Dests
        /\ pc[k] = "spawned" /\ promise[k] = "pending" /\ obj[via[k]] = "live"
    BY <1>4 DEF Register
  <2>2. /\ \A w \in Workers, d \in Dests : waiting'[w][d] =
            IF w = via[k] /\ d = dest[k] THEN k ELSE waiting[w][d]
        /\ \A u \in Calls : /\ pc'[u] = IF u = k THEN "queued" ELSE pc[u]
                            /\ promise'[u] = IF u = waiting[via[k]][dest[k]]
                                             THEN "rejected" ELSE promise[u]
        /\ UNCHANGED <<via, dest, obj>>
    BY <1>4, <2>1 DEF Register, Goto
  <2>3. waiting[via[k]][dest[k]] # k
    <3> HIDE DEF IInv
    <3> QED
      BY <2>1, TableFacts
  <2>4. \A w \in Workers, d \in Dests, u \in Calls : u # k =>
            (waiting'[w][d] = u <=> /\ via[u] = w /\ dest[u] = d /\ Registered(u)'
                                    /\ promise'[u] = "pending" /\ obj[w] = "live")
    <3>1. ASSUME NEW w \in Workers, NEW d \in Dests, NEW u \in Calls, u # k,
                 w = via[k], d = dest[k]
         
      PROVE  waiting'[w][d] = u <=> /\ via[u] = w /\ dest[u] = d /\ Registered(u)'
                                        /\ promise'[u] = "pending" /\ obj[w] = "live"
      BY <2>1, <2>2, <3>1
    <3>2. ASSUME NEW w \in Workers, NEW d \in Dests, NEW u \in Calls, u # k,
                 ~ (w = via[k] /\ d = dest[k])
         
      PROVE  waiting'[w][d] = u <=> /\ via[u] = w /\ dest[u] = d /\ Registered(u)'
                                        /\ promise'[u] = "pending" /\ obj[w] = "live"
      BY <2>1, <2>2, <3>2
    <3> QED
      BY <3>1, <3>2
  <2>5. \A w \in Workers, d \in Dests :
            waiting'[w][d] = k <=> /\ via[k] = w /\ dest[k] = d /\ Registered(k)'
                                   /\ promise'[k] = "pending" /\ obj[w] = "live"
    BY <2>1, <2>2, <2>3
  <2> QED
    BY <2>2, <2>4, <2>5
<1>5. ASSUME NEW k \in Calls, Enter(k) PROVE TableOfPending'
  BY <1>5, NothingAssumption DEF Enter, Terminate, Emptied, WaitingAt, Goto
<1>6. ASSUME NEW k \in Calls, WriteLine(k) PROVE TableOfPending'
  BY <1>6, NothingAssumption DEF WriteLine, Goto
<1>7. ASSUME NEW k \in Calls, Written(k) PROVE TableOfPending'
  BY <1>7, NothingAssumption DEF Written, LeaveGate, Goto
<1>8. ASSUME NEW k \in Calls, Abandon(k) PROVE TableOfPending'
  BY <1>8, NothingAssumption DEF Abandon, LeaveGate, Goto
<1>9. ASSUME NEW k \in Calls, WriteFails(k) PROVE TableOfPending'
  BY <1>9, NothingAssumption DEF WriteFails, LeaveGate, Goto
<1>10. ASSUME NEW w \in Workers, TakeLine(w) PROVE TableOfPending'
  BY <1>10, NothingAssumption DEF TakeLine
<1>11. ASSUME NEW w \in Workers, Exit(w) PROVE TableOfPending'
  BY <1>11, NothingAssumption DEF Exit
<1>12. ASSUME NEW w \in Workers, Notice(w) PROVE TableOfPending'
  BY <1>12, NothingAssumption DEF Notice
<1>13. ASSUME NEW w \in Workers, Answer(w) PROVE TableOfPending'
  <2>1. Head(stdout[w]) \in Answers
    BY <1>13, HeadTailProperties DEF Answer
  <2>2. PICK to \in Dests : to = Head(stdout[w]).to
    BY <2>1 DEF Answers
  <2>3. /\ \A x \in Workers, d \in Dests : waiting'[x][d] =
            IF x = w /\ d = to THEN NoCall ELSE waiting[x][d]
        /\ \A u \in Calls : u # waiting[w][to] => promise'[u] = promise[u]
        /\ \A u \in Calls : u = waiting[w][to] => promise'[u] # "pending"
        /\ UNCHANGED <<via, dest, obj, pc>>
    BY <1>13, <2>2 DEF Answer
  <2> QED
    BY <2>2, <2>3, NothingAssumption
<1>14. ASSUME NEW w \in Workers, EndOfAnswers(w) PROVE TableOfPending'
  BY <1>14, NothingAssumption DEF EndOfAnswers, Terminate, Emptied, WaitingAt
<1>15. ASSUME NEW w \in Workers, ReadingFails(w) PROVE TableOfPending'
  BY <1>15, NothingAssumption DEF ReadingFails, Terminate, Emptied, WaitingAt
<1>16. ASSUME NEW w \in Workers, NEW k \in Calls, NEW ok \in BOOLEAN, Download(w, k, ok)
      PROVE TableOfPending'
  BY <1>16, NothingAssumption DEF Download
<1>17. ASSUME UNCHANGED vars PROVE TableOfPending'
  BY <1>17, NothingAssumption DEF vars
<1> HIDE DEF IInv, TableOfPending
<1> QED
  BY <1>1, <1>2, <1>3, <1>4, <1>5, <1>6, <1>7, <1>8, <1>9,
    <1>10, <1>11, <1>12, <1>13, <1>14, <1>15, <1>16, <1>17 DEF Next, Fiber, Monitor

\* Success is reported for a download that ended well.
LEMMA HonestStep == IInv /\ [Next]_vars => HonestAnswer'
<1> SUFFICES ASSUME IInv, [Next]_vars PROVE HonestAnswer'
  OBVIOUS
<1> USE DEF TypeOK, IInv, Placed, HonestAnswer, Traceable, pools, workers, pipes,
    calls
<1>1. ASSUME NEW k \in Calls, NEW d \in Dests, Call(k, d) PROVE HonestAnswer'
  <2> HIDE DEF IInv
  <2>1. PICK D, lost : CallEffect(k, D, lost)
    BY <1>1, CallFacts
  <2> USE DEF IInv
  <2>2. \A u \in Calls : promise'[u] = "true" => u # k /\ promise[u] = "true"
    BY <2>1 DEF CallEffect
  <2>3. /\ landed' = landed
        /\ \A u \in Calls : u # k => dest'[u] = dest[u] /\ via'[u] = via[u]
        /\ \A u \in landed : u # k
    BY <1>1 DEF Call
  <2>4. ASSUME NEW u \in Calls, promise'[u] = "true"
        PROVE  \E x \in landed' : dest'[x] = dest'[u] /\ via'[x] = via'[u]
    <3>1. PICK x \in landed : dest[x] = dest[u] /\ via[x] = via[u]
      BY <2>2, <2>4
    <3>2. x \in Calls /\ x # k /\ u # k
      BY <2>2, <2>3, <2>4
    <3> HIDE DEF IInv, TypeOK, HonestAnswer, Traceable, Placed
    <3>3. /\ dest'[x] = dest[x] /\ via'[x] = via[x]
          /\ dest'[u] = dest[u] /\ via'[u] = via[u] /\ x \in landed'
      BY <2>3, <3>1, <3>2
    <3> QED
      BY <3>1, <3>3
  <2> QED
    BY <2>4
<1>2. ASSUME Reap PROVE HonestAnswer'
  BY <1>2, NothingAssumption DEF Reap, Terminate, Emptied, WaitingAt
<1>3. ASSUME NEW k \in Calls, Discarded(k) PROVE HonestAnswer'
  BY <1>3, NothingAssumption DEF Discarded, Goto
<1>4. ASSUME NEW k \in Calls, Register(k) PROVE HonestAnswer'
  BY <1>4, NothingAssumption DEF Register, Goto
<1>5. ASSUME NEW k \in Calls, Enter(k) PROVE HonestAnswer'
  BY <1>5, NothingAssumption DEF Enter, Terminate, Emptied, WaitingAt, Goto
<1>6. ASSUME NEW k \in Calls, WriteLine(k) PROVE HonestAnswer'
  BY <1>6, NothingAssumption DEF WriteLine, Goto
<1>7. ASSUME NEW k \in Calls, Written(k) PROVE HonestAnswer'
  BY <1>7, NothingAssumption DEF Written, LeaveGate, Goto
<1>8. ASSUME NEW k \in Calls, Abandon(k) PROVE HonestAnswer'
  BY <1>8, NothingAssumption DEF Abandon, LeaveGate, Goto
<1>9. ASSUME NEW k \in Calls, WriteFails(k) PROVE HonestAnswer'
  BY <1>9, NothingAssumption DEF WriteFails, LeaveGate, Goto
<1>10. ASSUME NEW w \in Workers, TakeLine(w) PROVE HonestAnswer'
  BY <1>10, NothingAssumption DEF TakeLine
<1>11. ASSUME NEW w \in Workers, Exit(w) PROVE HonestAnswer'
  BY <1>11, NothingAssumption DEF Exit
<1>12. ASSUME NEW w \in Workers, Notice(w) PROVE HonestAnswer'
  BY <1>12, NothingAssumption DEF Notice
<1>13. ASSUME NEW w \in Workers, Answer(w) PROVE HonestAnswer'
  <2>1. Head(stdout[w]) = stdout[w][1] /\ 1 \in 1..Len(stdout[w]) /\ stdout[w][1] \in Answers
    BY <1>13, HeadTailProperties DEF Answer
  <2> DEFINE to == stdout[w][1].to
  <2>2. to \in Dests
    BY <2>1 DEF Answers
  <2>3. stdout[w][1].ok => \E x \in landed : dest[x] = to /\ via[x] = w
    BY <2>1
  <2>4. /\ \A u \in Calls : promise'[u] = "true" =>
                promise[u] = "true" \/ (u = waiting[w][to] /\ stdout[w][1].ok)
        /\ UNCHANGED <<landed, dest, via>>
    BY <1>13, <2>1 DEF Answer
  <2>5. \A u \in Calls : u = waiting[w][to] => dest[u] = to /\ via[u] = w
    <3> HIDE DEF IInv
    <3> QED
      BY <2>2, TableFacts
  <2> HIDE DEF to
  <2> QED
    BY <2>3, <2>4, <2>5
<1>14. ASSUME NEW w \in Workers, EndOfAnswers(w) PROVE HonestAnswer'
  BY <1>14, NothingAssumption DEF EndOfAnswers, Terminate, Emptied, WaitingAt
<1>15. ASSUME NEW w \in Workers, ReadingFails(w) PROVE HonestAnswer'
  BY <1>15, NothingAssumption DEF ReadingFails, Terminate, Emptied, WaitingAt
<1>16. ASSUME NEW w \in Workers, NEW k \in Calls, NEW ok \in BOOLEAN, Download(w, k, ok)
      PROVE HonestAnswer'
  BY <1>16, NothingAssumption DEF Download
<1>17. ASSUME UNCHANGED vars PROVE HonestAnswer'
  BY <1>17, NothingAssumption DEF vars
<1> HIDE DEF IInv, HonestAnswer
<1> QED
  BY <1>1, <1>2, <1>3, <1>4, <1>5, <1>6, <1>7, <1>8, <1>9,
    <1>10, <1>11, <1>12, <1>13, <1>14, <1>15, <1>16, <1>17 DEF Next, Fiber, Monitor

\* The monitor that ends takes every promise with it.
LEMMA NoVainWaitStep == IInv /\ [Next]_vars => NoVainWait'
<1> SUFFICES ASSUME IInv, [Next]_vars PROVE NoVainWait'
  OBVIOUS
<1> USE DEF TypeOK, IInv, Made, Placed, InLine, NoVainWait, TableOfPending,
    Registered, Settled, pools, workers, pipes, calls
<1>1. ASSUME NEW k \in Calls, NEW d \in Dests, Call(k, d) PROVE NoVainWait'
  BY <1>1, NothingAssumption DEF Call, Refreshed, Emptied, WaitingAt, Goto
<1>2. ASSUME Reap PROVE NoVainWait'
  BY <1>2, NothingAssumption DEF Reap, Terminate, Emptied, WaitingAt
<1>3. ASSUME NEW k \in Calls, Discarded(k) PROVE NoVainWait'
  BY <1>3, NothingAssumption DEF Discarded, Goto
<1>4. ASSUME NEW k \in Calls, Register(k) PROVE NoVainWait'
  BY <1>4, NothingAssumption DEF Register, Goto
<1>5. ASSUME NEW k \in Calls, Enter(k) PROVE NoVainWait'
  BY <1>5, NothingAssumption DEF Enter, Terminate, Emptied, WaitingAt, Goto
<1>6. ASSUME NEW k \in Calls, WriteLine(k) PROVE NoVainWait'
  BY <1>6, NothingAssumption DEF WriteLine, Goto
<1>7. ASSUME NEW k \in Calls, Written(k) PROVE NoVainWait'
  BY <1>7, NothingAssumption DEF Written, LeaveGate, Goto
<1>8. ASSUME NEW k \in Calls, Abandon(k) PROVE NoVainWait'
  BY <1>8, NothingAssumption DEF Abandon, LeaveGate, Goto
<1>9. ASSUME NEW k \in Calls, WriteFails(k) PROVE NoVainWait'
  BY <1>9, NothingAssumption DEF WriteFails, LeaveGate, Goto
<1>10. ASSUME NEW w \in Workers, TakeLine(w) PROVE NoVainWait'
  BY <1>10, NothingAssumption DEF TakeLine
<1>11. ASSUME NEW w \in Workers, Exit(w) PROVE NoVainWait'
  BY <1>11, NothingAssumption DEF Exit
<1>12. ASSUME NEW w \in Workers, Notice(w) PROVE NoVainWait'
  BY <1>12, NothingAssumption DEF Notice
<1>13. ASSUME NEW w \in Workers, Answer(w) PROVE NoVainWait'
  BY <1>13, NothingAssumption DEF Answer
<1>14. ASSUME NEW w \in Workers, EndOfAnswers(w) PROVE NoVainWait'
  BY <1>14, NothingAssumption DEF EndOfAnswers, Terminate, Emptied, WaitingAt
<1>15. ASSUME NEW w \in Workers, ReadingFails(w) PROVE NoVainWait'
  BY <1>15, NothingAssumption DEF ReadingFails, Terminate, Emptied, WaitingAt
<1>16. ASSUME NEW w \in Workers, NEW k \in Calls, NEW ok \in BOOLEAN, Download(w, k, ok)
      PROVE NoVainWait'
  BY <1>16, NothingAssumption DEF Download
<1>17. ASSUME UNCHANGED vars PROVE NoVainWait'
  BY <1>17, NothingAssumption DEF vars
<1> HIDE DEF IInv, NoVainWait
<1> QED
  BY <1>1, <1>2, <1>3, <1>4, <1>5, <1>6, <1>7, <1>8, <1>9,
    <1>10, <1>11, <1>12, <1>13, <1>14, <1>15, <1>16, <1>17 DEF Next, Fiber, Monitor

-----------------------------------------------------------------------------
LEMMA InitInvariant == Init => IInv
<1> SUFFICES ASSUME Init PROVE IInv
  OBVIOUS
<1> USE SizeAssumption, NothingAssumption, EmptySeq DEF Init, Settled
<1>1. TypeOK
  <2>1. /\ stdout \in [Workers -> Seq(Answers)]
        /\ stdin \in [Workers -> Seq(Calls)] /\ gate \in [Workers -> Seq(Calls)]
    OBVIOUS
  <2> QED
    BY <2>1 DEF TypeOK
<1>2. Made
  BY DEF Made, InDefaults
<1>3. Placed /\ InLine /\ Traceable
  BY DEF Placed, InLine, Traceable
<1>4. TableOfPending
  BY DEF TableOfPending, Registered
<1>5. HonestAnswer /\ NoVainWait
  BY DEF HonestAnswer, NoVainWait
<1> QED
  BY <1>1, <1>2, <1>3, <1>4, <1>5 DEF IInv

\* The strengthening is an invariant, for any calls, destinations and workers,
\* any number of defaults and any room in the pipes.
THEOREM InvariantHolds == Spec => []IInv
<1>1. Init => IInv
  BY InitInvariant
<1>2. IInv /\ [Next]_vars => IInv'
  BY TypeStep, MadeStep, PlacedStep, InLineStep, TraceableStep, TableStep,
     HonestStep, NoVainWaitStep DEF IInv
<1> QED
  BY <1>1, <1>2, PTL DEF Spec

\* A promise is in a worker's table exactly while it is pending there.
THEOREM TableExact == Spec => []TableOfPending
<1>1. IInv => TableOfPending
  BY DEF IInv
<1> QED
  BY <1>1, InvariantHolds, PTL

\* Whom bz_download_worker_invoke tells of success, a download to that
\* destination ended well in the subprocess the call was sent to.
THEOREM AnswersHonest == Spec => []HonestAnswer
<1>1. IInv => HonestAnswer
  BY DEF IInv
<1> QED
  BY <1>1, InvariantHolds, PTL

\* After the end of the pipe, no promise stays behind in the table.
THEOREM NobodyLeftBehind == Spec => []NoVainWait
<1>1. IInv => NoVainWait
  BY DEF IInv
<1> QED
  BY <1>1, InvariantHolds, PTL

-----------------------------------------------------------------------------
\* No step settles a promise a second time.
LEMMA SettledStep == IInv /\ [Next]_vars =>
    \A u \in Calls : promise[u] \in Settled => promise'[u] = promise[u]
<1> SUFFICES ASSUME IInv, [Next]_vars, NEW u \in Calls, promise[u] \in Settled
             PROVE  promise'[u] = promise[u]
  OBVIOUS
<1>1. /\ promise[u] # "pending" /\ promise[u] # "none"
      /\ \A w \in Workers, d \in Dests : waiting[w][d] # u
  BY TableFacts DEF Settled
<1>2. ASSUME NEW W \in SUBSET Workers, Terminate(W) PROVE promise'[u] = promise[u]
  BY <1>1, <1>2, WaitingFacts DEF Terminate
<1>3. ASSUME NEW k \in Calls, NEW d \in Dests, Call(k, d)
      PROVE promise'[u] = promise[u]
  <2>1. PICK D, lost : CallEffect(k, D, lost)
    BY <1>3, CallFacts
  <2>2. u # k
    BY <1>1, <1>3 DEF Call, IInv, Placed
  <2>3. u \notin WaitingAt(lost)
    BY <1>1, <2>1, WaitingFacts DEF CallEffect
  <2> QED
    BY <2>1, <2>2, <2>3 DEF CallEffect
<1>4. ASSUME Reap PROVE promise'[u] = promise[u]
  <2> DEFINE lost == {w \in Workers : InDefaults(w) /\ ~ Kept(w)}
  <2>1. lost \in SUBSET Workers /\ Terminate(lost)
    BY <1>4 DEF Reap
  <2> HIDE DEF lost
  <2> QED
    BY <1>2, <2>1
<1>5. ASSUME NEW k \in Calls, Fiber(k) PROVE promise'[u] = promise[u]
  <2>1. CASE Register(k)
    <3>1. via[k] \in Workers /\ dest[k] \in Dests
      BY <2>1 DEF Register, IInv, Placed
    <3> QED
      BY <1>1, <2>1, <3>1 DEF Register
  <2>2. CASE Enter(k)
    <3> DEFINE lost == IF InDefaults(via[k])
                        \/ \E x \in Calls \ {k} : via[x] = via[k] /\ pc[x] = "queued"
                       THEN {} ELSE {via[k]}
    <3>1. lost \in SUBSET Workers
      BY <2>2 DEF Enter, IInv, Placed
    <3>2. Terminate(lost)
      BY <2>2 DEF Enter
    <3> HIDE DEF lost
    <3> QED
      BY <1>2, <3>1, <3>2
  <2>3. CASE WriteFails(k)
    BY <1>1, <2>3 DEF WriteFails, IInv, TypeOK
  <2>4. CASE Discarded(k) \/ WriteLine(k) \/ Written(k) \/ Abandon(k)
    BY <2>4 DEF Discarded, WriteLine, Written, Abandon
  <2> QED
    BY <1>5, <2>1, <2>2, <2>3, <2>4 DEF Fiber
<1>6. ASSUME NEW w \in Workers, Monitor(w) PROVE promise'[u] = promise[u]
  <2>1. CASE Answer(w)
    <3>1. Head(stdout[w]) \in Answers
      BY <2>1, HeadTailProperties DEF Answer, IInv, TypeOK
    <3>2. Head(stdout[w]).to \in Dests
      BY <3>1 DEF Answers
    <3> QED
      BY <1>1, <2>1, <3>2 DEF Answer
  <2>2. CASE EndOfAnswers(w) \/ ReadingFails(w)
    BY <1>2, <2>2 DEF EndOfAnswers, ReadingFails
  <2> QED
    BY <1>6, <2>1, <2>2 DEF Monitor
<1>7. ASSUME NEW w \in Workers,
             \/ TakeLine(w) \/ Exit(w) \/ Notice(w)
             \/ \E k \in Calls, ok \in BOOLEAN : Download(w, k, ok)
      PROVE  promise'[u] = promise[u]
  BY <1>7 DEF TakeLine, Exit, Notice, Download
<1>8. ASSUME UNCHANGED vars PROVE promise'[u] = promise[u]
  BY <1>8 DEF vars
<1> QED
  BY <1>3, <1>4, <1>5, <1>6, <1>7, <1>8 DEF Next

\* What a caller was told is final.
THEOREM ToldOnce == Spec => SettledOnce
<1>1. IInv /\ [Next]_vars =>
        [\A k \in Calls : promise[k] \in Settled => promise'[k] = promise[k]]_vars
  BY SettledStep
<1> QED
  BY <1>1, InvariantHolds, PTL DEF Spec, SettledOnce

-----------------------------------------------------------------------------
\* The line for the pipe

\* What happens elsewhere does not change who is in line.
LEMMA LineKept ==
    ASSUME LineComplete, gate' = gate,
           \A u \in Calls, w \in Workers :
                (via'[u] = w /\ pc'[u] \in AtGate) <=> (via[u] = w /\ pc[u] \in AtGate)
    PROVE  LineComplete'
  BY DEF LineComplete, InGate

\* A fiber that gets in line comes last.
LEMMA LineJoined ==
    ASSUME IInv, LineComplete, NEW k \in Calls, Register(k)
    PROVE  LineComplete'
<1> DEFINE w == via[k]
<1>1. /\ w \in Workers /\ pc[k] = "spawned" /\ via' = via
      /\ gate' = [gate EXCEPT ![w] = Append(@, k)]
      /\ pc' = [pc EXCEPT ![k] = "queued"]
  BY DEF Register, Goto, IInv, Placed, calls
<1>2. gate[w] \in Seq(Calls) /\ gate'[w] = Append(gate[w], k)
  BY <1>1 DEF IInv, TypeOK
<1>3. /\ Len(gate[w]) \in Nat /\ Len(gate'[w]) = Len(gate[w]) + 1
      /\ \A i \in 1..Len(gate[w]) : gate'[w][i] = gate[w][i]
      /\ gate'[w][Len(gate[w]) + 1] = k
  BY <1>2, AppendProperties, LenProperties
<1>4. \A x \in Workers : x # w => gate'[x] = gate[x]
  BY <1>1 DEF IInv, TypeOK
<1>5. \A x \in Workers : ~ InGate(k, x)
  BY <1>1 DEF LineComplete, AtGate
<1>6. \A u \in Calls : pc'[u] = IF u = k THEN "queued" ELSE pc[u]
  BY <1>1 DEF IInv, TypeOK
<1> HIDE DEF w
<1>7. ASSUME NEW x \in Workers, NEW u \in Calls
      PROVE  InGate(u, x)' <=> InGate(u, x) \/ (x = w /\ u = k)
  <2>1. CASE x # w
    BY <1>4, <2>1 DEF InGate
  <2>2. CASE x = w
    BY <1>3, <2>2 DEF InGate
  <2> QED
    BY <2>1, <2>2
<1>8. ASSUME NEW x \in Workers, NEW i \in 1..Len(gate'[x]), NEW j \in 1..Len(gate'[x]),
             gate'[x][i] = gate'[x][j]
      PROVE  i = j
  <2>1. CASE x # w
    BY <1>4, <1>8, <2>1 DEF LineComplete
  <2>2. CASE x = w
    <3>1. \A h \in 1..Len(gate[w]) : gate[w][h] # k
      BY <1>1, <1>5, <2>2 DEF InGate
    <3> QED
      BY <1>3, <1>8, <2>2, <3>1 DEF LineComplete
  <2> QED
    BY <2>1, <2>2
<1>9. via'[k] = w /\ \A u \in Calls : via'[u] = via[u]
  BY <1>1 DEF w
<1>10. ASSUME NEW x \in Workers, NEW u \in Calls
       PROVE  InGate(u, x)' <=> via'[u] = x /\ pc'[u] \in AtGate
  <2>1. InGate(u, x) <=> via[u] = x /\ pc[u] \in AtGate
    BY DEF LineComplete
  <2> QED
    BY <1>5, <1>6, <1>7, <1>9, <2>1 DEF AtGate
<1> QED
  BY <1>8, <1>10 DEF LineComplete

\* A fiber that leaves was the first, and nobody is there twice.
LEMMA LineLeft ==
    ASSUME IInv, LineComplete, NEW k \in Calls, pc[k] \in {"writing", "written"},
           LeaveGate(k), via' = via
    PROVE  LineComplete'
<1> DEFINE w == via[k]
<1>1. /\ w \in Workers /\ gate[w] # <<>> /\ Head(gate[w]) = k
      /\ gate' = [gate EXCEPT ![w] = Tail(@)]
      /\ pc' = [pc EXCEPT ![k] = "done"]
  BY DEF LeaveGate, Goto, IInv, Placed, InLine
<1>2. gate[w] \in Seq(Calls) /\ gate'[w] = Tail(gate[w])
  BY <1>1 DEF IInv, TypeOK
<1>3. /\ Len(gate[w]) \in Nat /\ Len(gate[w]) # 0 /\ Len(gate'[w]) = Len(gate[w]) - 1
      /\ \A i \in 1..Len(gate'[w]) : gate'[w][i] = gate[w][i + 1]
      /\ gate[w][1] = k
  <2> DEFINE q == gate[w]
  <2>1. q \in Seq(Calls) /\ q # <<>> /\ Head(q) = k
    BY <1>1, <1>2
  <2> HIDE DEF q
  <2>2. Len(q) \in Nat /\ Len(q) # 0 /\ q[1] = k
    BY <2>1, LenProperties, EmptySeq
  <2>3. /\ Len(Tail(q)) = Len(q) - 1
        /\ \A i \in 1..Len(Tail(q)) : Tail(q)[i] = q[i + 1]
    BY <2>1, HeadTailProperties
  <2> QED
    BY <1>2, <2>2, <2>3 DEF q
<1>4. \A x \in Workers : x # w => gate'[x] = gate[x]
  BY <1>1 DEF IInv, TypeOK
<1>5. \A u \in Calls : pc'[u] = IF u = k THEN "done" ELSE pc[u]
  BY <1>1 DEF IInv, TypeOK
<1>6. \A u \in Calls : via'[u] = via[u] /\ via[k] = w
  OBVIOUS
<1> HIDE DEF w
<1>7. \A i \in 1..Len(gate[w]) : gate[w][i] = k => i = 1
  <2>1. 1 \in 1..Len(gate[w])
    BY <1>3
  <2> QED
    BY <1>1, <1>3, <2>1 DEF LineComplete
<1>8. ASSUME NEW x \in Workers, NEW u \in Calls
      PROVE  InGate(u, x)' <=> InGate(u, x) /\ ~ (x = w /\ u = k)
  <2>1. CASE x # w
    BY <1>4, <2>1 DEF InGate
  <2>2. CASE x = w
    <3>1. ASSUME NEW i \in 1..Len(gate'[w]), gate'[w][i] = u
          PROVE  InGate(u, w) /\ u # k
      <4>1. i + 1 \in 1..Len(gate[w]) /\ gate[w][i + 1] = u
        BY <1>3, <3>1
      <4> QED
        BY <1>7, <4>1 DEF InGate
    <3>2. ASSUME NEW i \in 1..Len(gate[w]), gate[w][i] = u, u # k
          PROVE  \E j \in 1..Len(gate'[w]) : gate'[w][j] = u
      <4>1. i # 1
        BY <1>3, <3>2
      <4>2. i - 1 \in 1..Len(gate'[w])
        BY <1>3, <4>1
      <4>3. gate'[w][i - 1] = gate[w][(i - 1) + 1] /\ (i - 1) + 1 = i
        BY <1>3, <4>2
      <4> QED
        BY <3>2, <4>2, <4>3
    <3> QED
      BY <2>2, <3>1, <3>2 DEF InGate
  <2> QED
    BY <2>1, <2>2
<1>9. ASSUME NEW x \in Workers, NEW i \in 1..Len(gate'[x]), NEW j \in 1..Len(gate'[x]),
             gate'[x][i] = gate'[x][j]
      PROVE  i = j
  <2>1. CASE x # w
    BY <1>4, <1>9, <2>1 DEF LineComplete
  <2>2. CASE x = w
    <3>1. /\ i + 1 \in 1..Len(gate[w]) /\ j + 1 \in 1..Len(gate[w])
          /\ gate[w][i + 1] = gate[w][j + 1]
      BY <1>3, <1>9, <2>2
    <3>2. i + 1 = j + 1
      BY <1>1, <3>1 DEF LineComplete
    <3> QED
      BY <3>2
  <2> QED
    BY <2>1, <2>2
<1>10. ASSUME NEW x \in Workers, NEW u \in Calls
       PROVE  InGate(u, x)' <=> via'[u] = x /\ pc'[u] \in AtGate
  <2>1. InGate(u, x) <=> via[u] = x /\ pc[u] \in AtGate
    BY DEF LineComplete
  <2> QED
    BY <1>5, <1>6, <1>8, <2>1 DEF AtGate
<1> QED
  BY <1>9, <1>10 DEF LineComplete

\* The gate keeps naming those who are at it.
LEMMA LineStep == IInv /\ LineComplete /\ [Next]_vars => LineComplete'
<1> SUFFICES ASSUME IInv, LineComplete, [Next]_vars PROVE LineComplete'
  OBVIOUS
<1> USE DEF IInv, TypeOK, AtGate, pools, workers, pipes, calls
<1>1. ASSUME NEW k \in Calls, NEW d \in Dests, Call(k, d) PROVE LineComplete'
  <2>1. /\ gate' = gate /\ pc[k] = "idle"
        /\ \A u \in Calls : pc'[u] = IF u = k THEN "spawned" ELSE pc[u]
        /\ \A u \in Calls \ {k} : via'[u] = via[u]
    BY <1>1 DEF Call, Goto
  <2> HIDE DEF IInv, TypeOK
  <2> QED
    BY <2>1, LineKept
<1>2. ASSUME Reap PROVE LineComplete'
  BY <1>2, LineKept DEF Reap
<1>3. ASSUME NEW k \in Calls, Discarded(k) PROVE LineComplete'
  BY <1>3, LineKept DEF Discarded, Goto
<1>4. ASSUME NEW k \in Calls, Register(k) PROVE LineComplete'
  BY <1>4, LineJoined DEF Register
<1>5. ASSUME NEW k \in Calls, Enter(k) PROVE LineComplete'
  BY <1>5, LineKept DEF Enter, Goto
<1>6. ASSUME NEW k \in Calls, WriteLine(k) PROVE LineComplete'
  BY <1>6, LineKept DEF WriteLine, Goto
<1>7. ASSUME NEW k \in Calls, Written(k) PROVE LineComplete'
  BY <1>7, LineLeft DEF Written
<1>8. ASSUME NEW k \in Calls, Abandon(k) PROVE LineComplete'
  BY <1>8, LineLeft DEF Abandon
<1>9. ASSUME NEW k \in Calls, WriteFails(k) PROVE LineComplete'
  BY <1>9, LineLeft DEF WriteFails
<1>10. ASSUME NEW w \in Workers, TakeLine(w) PROVE LineComplete'
  BY <1>10, LineKept DEF TakeLine
<1>11. ASSUME NEW w \in Workers, Exit(w) PROVE LineComplete'
  BY <1>11, LineKept DEF Exit
<1>12. ASSUME NEW w \in Workers, Notice(w) PROVE LineComplete'
  BY <1>12, LineKept DEF Notice
<1>13. ASSUME NEW w \in Workers, Answer(w) PROVE LineComplete'
  BY <1>13, LineKept DEF Answer
<1>14. ASSUME NEW w \in Workers, EndOfAnswers(w) PROVE LineComplete'
  BY <1>14, LineKept DEF EndOfAnswers
<1>15. ASSUME NEW w \in Workers, ReadingFails(w) PROVE LineComplete'
  BY <1>15, LineKept DEF ReadingFails
<1>16. ASSUME NEW w \in Workers, NEW k \in Calls, NEW ok \in BOOLEAN, Download(w, k, ok)
      PROVE  LineComplete'
  BY <1>16, LineKept DEF Download
<1>17. ASSUME UNCHANGED vars PROVE LineComplete'
  BY <1>17, LineKept DEF vars
<1> HIDE DEF IInv
<1> QED
  BY <1>1, <1>2, <1>3, <1>4, <1>5, <1>6, <1>7, <1>8, <1>9, <1>10, <1>11, <1>12,
     <1>13, <1>14, <1>15, <1>16, <1>17 DEF Next, Fiber, Monitor

LEMMA InitLine == Init => LineComplete
  BY DEF Init, LineComplete, InGate, AtGate

\* Whoever waits for the pipe of a subprocess is in line for it, and at the
\* head of the line is a fiber that has yet to write and to leave.
THEOREM PipeServed == Spec => []LineServed
<1>1. ASSUME IInv, LineComplete PROVE LineServed
  <2> SUFFICES ASSUME NEW k \in Calls, pc[k] = "queued"
               PROVE  /\ InGate(k, via[k])
                      /\ LET first == Head(gate[via[k]])
                         IN via[first] = via[k] /\ pc[first] \in AtGate
    BY DEF LineServed
  <2> DEFINE w == via[k]
  <2>1. w \in Workers
    BY <1>1 DEF IInv, Placed
  <2>2. InGate(k, w)
    BY <1>1, <2>1 DEF LineComplete, AtGate
  <2> HIDE DEF w
  <2>3. gate[w] \in Seq(Calls) /\ gate[w] # <<>>
    BY <1>1, <2>1, <2>2, EmptySeq DEF IInv, TypeOK, InGate
  <2>4. /\ Head(gate[w]) \in Calls /\ Head(gate[w]) = gate[w][1]
        /\ 1 \in 1..Len(gate[w])
    BY <2>3, HeadTailProperties, LenProperties, EmptySeq
  <2>5. InGate(Head(gate[w]), w)
    BY <2>4 DEF InGate
  <2> QED
    BY <1>1, <2>1, <2>2, <2>4, <2>5 DEF LineComplete, w
<1>2. IInv /\ LineComplete /\ [Next]_vars => LineComplete'
  BY LineStep
<1> QED
  BY <1>1, <1>2, InitLine, InvariantHolds, PTL DEF Spec
=============================================================================
