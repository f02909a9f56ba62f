------------------------ MODULE TransactionRunProofs ------------------------
(***************************************************************************)
(* Proofs about TransactionRun, for any transactions, entries, operations  *)
(* and installations that are monitored: the invariant IInv, what follows  *)
(* from it, and that the tasks and outcomes the manager shows are a        *)
(* behaviour of OperationStream.                                           *)
(*                                                                         *)
(* The parts of IInv are proved one by one, in the order in which they     *)
(* rest on each other: types; jobs, operations and fibers (JobsOwn); the   *)
(* end of a run (EndOfRun); the channel (Channel, from what Append and     *)
(* Tail do to a message's place); the count of muted changes (Muted); and  *)
(* the truth of a success.  Each lemma about a part has a step for every   *)
(* action.                                                                 *)
(***************************************************************************)
EXTENDS TransactionRun, FiniteSetTheorems, TLAPS

-----------------------------------------------------------------------------
(* Types *)

\* A set of entries that has a member can be the name of a job.
LEMMA JobIsJob ==
    ASSUME NEW j, j \subseteq Entries, NEW e \in j
    PROVE  j \in Jobs
<1>1. j \in SUBSET Entries
  OBVIOUS
<1>2. j \notin {{}}
  OBVIOUS
<1>3. j \in (SUBSET Entries) \ {{}}
  BY <1>1, <1>2
<1> QED BY <1>3 DEF Jobs

\* The jobs of a plan share no entry and are for all that is planned.
LEMMA JobsOfFacts ==
    ASSUME NEW p \in [Entries -> Kinds]
    PROVE  /\ JobsOf(p) \subseteq Jobs
           /\ \A j, k \in JobsOf(p) : j \cap k # {} => j = k
           /\ \A j \in JobsOf(p) : \A e \in j : p[e] # "none"
           /\ \A e \in Entries : p[e] # "none" => \E j \in JobsOf(p) : e \in j
<1> DEFINE Alone == {{e} : e \in {f \in Entries : p[f] \in {"install", "remove"}}}
           Updates(i) == {e \in Entries : p[e] = "update" /\ InstallationOf(e) = i}
<1>1. JobsOf(p) = Alone \cup ({Updates(i) : i \in Installations} \ {{}})
  BY DEF JobsOf
<1>2. \A j \in Alone : \E e \in Entries : j = {e} /\ p[e] \in {"install", "remove"}
  OBVIOUS
<1>3. \A j \in JobsOf(p) : j \in Alone \/ \E i \in Installations : j = Updates(i) /\ j # {}
  BY <1>1
<1>4. ASSUME NEW j \in JobsOf(p)
      PROVE  j \in Jobs
  <2>1. CASE j \in Alone
    <3>1. PICK e \in Entries : j = {e}
      BY <2>1, <1>2
    <3>2. j \subseteq Entries /\ e \in j
      BY <3>1
    <3> HIDE DEF Updates, Alone
    <3> QED BY <3>2, JobIsJob
  <2>2. CASE j \notin Alone
    <3>1. PICK i \in Installations : j = Updates(i) /\ j # {}
      BY <2>2, <1>3
    <3>2. j \subseteq Entries /\ j # {}
      BY <3>1
    <3> HIDE DEF Updates, Alone
    <3> QED BY <3>2, JobIsJob
  <2> QED BY <2>1, <2>2
<1>5. ASSUME NEW j \in JobsOf(p), NEW k \in JobsOf(p), j \cap k # {}
      PROVE  j = k
  <2>1. CASE j \in Alone /\ k \in Alone
    BY <2>1, <1>2, <1>5
  <2>2. CASE j \in Alone /\ k \notin Alone
    BY <2>2, <1>2, <1>3, <1>5
  <2>3. CASE j \notin Alone /\ k \in Alone
    BY <2>3, <1>2, <1>3, <1>5
  <2>4. CASE j \notin Alone /\ k \notin Alone
    <3>1. PICK i \in Installations : j = Updates(i)
      BY <2>4, <1>3
    <3>2. PICK h \in Installations : k = Updates(h)
      BY <2>4, <1>3
    <3>3. PICK e \in Entries : e \in j /\ e \in k
      BY <1>5, <3>1
    <3>4. InstallationOf(e) = i /\ InstallationOf(e) = h
      BY <3>1, <3>2, <3>3
    <3> QED BY <3>1, <3>2, <3>4
  <2> QED BY <2>1, <2>2, <2>3, <2>4
<1>6. ASSUME NEW j \in JobsOf(p), NEW e \in j
      PROVE  p[e] # "none"
  BY <1>2, <1>3
<1>7. ASSUME NEW e \in Entries, p[e] # "none"
      PROVE  \E j \in JobsOf(p) : e \in j
  <2>1. CASE p[e] = "update"
    <3>1. InstallationOf(e) \in Installations /\ e \in Updates(InstallationOf(e))
      BY <2>1 DEF Installations, InstallationOf
    <3> QED BY <1>1, <3>1
  <2>2. CASE p[e] # "update"
    <3>1. {e} \in Alone
      BY <2>2, <1>7 DEF Kinds
    <3> QED BY <1>1, <3>1
  <2> QED BY <2>1, <2>2
<1> QED BY <1>4, <1>5, <1>6, <1>7

\* What is sent on a channel keeps the channels well typed.
LEMMA SendType ==
    ASSUME TypeOK, NEW r \in Runs, NEW m \in Message, Send(r, m)
    PROVE  sent' \in [Runs -> Seq(Message)]
BY DEF TypeOK, Send

\* The manager's first step keeps the types.
LEMMA BeginType ==
    ASSUME TypeOKRun, NEW r \in Runs, NEW p \in Plans, Begin(r, p)
    PROVE  TypeOKRun'
<1>1. p \in [Entries -> Kinds]
  BY WantedAssumption DEF Plans, Kinds
<1> QED
  BY <1>1 DEF Begin, Schedule, TypeOKRun, TypeOK, Phases, Outcomes, monitorVars

\* So does the receipt of a payload.
LEMMA ReceiveType ==
    ASSUME TypeOKRun, NEW r \in Runs, Receive(r)
    PROVE  TypeOKRun'
<1> DEFINE o == Head(sent[r]).op
<1>1. sent[r] \in Seq(Message) /\ sent[r] # <<>>
  BY DEF Receive, TypeOKRun, TypeOK
<1>2. o \in Ops /\ Tail(sent[r]) \in Seq(Message)
  <2>1. Head(sent[r]) \in Message /\ Tail(sent[r]) \in Seq(Message)
    BY <1>1
  <2> QED BY <2>1 DEF Message
<1>3. PICK t \in TaskStates : task' = [task EXCEPT ![r][o] = t]
  BY DEF Receive, TaskStates
<1>4. task' \in [Runs -> [Ops -> TaskStates]]
  BY <1>2, <1>3 DEF TypeOKRun
<1>5. sent' \in [Runs -> Seq(Message)]
  BY <1>2 DEF Receive, TypeOKRun, TypeOK
<1> QED
  BY <1>4, <1>5 DEF Receive, TypeOKRun, TypeOK, monitorVars

\* Every step keeps the types.
LEMMA TypeStep ==
    ASSUME TypeOKRun, [NextRun]_allVars
    PROVE  TypeOKRun'
<1>0. ASSUME NEW r \in Runs, NEW e \in Bundles, NEW adds \in BOOLEAN,
             EnsureRemote(r, e, adds), UNCHANGED <<task, outcome>>
      PROVE  TypeOKRun'
  <2>1. /\ bundles' \in [Runs -> SUBSET Bundles]
        /\ events' \in [Installations -> Nat]
        /\ unheard' \in [Installations -> Int]
    <3> DEFINE i == InstallationOf(e)
    <3>1. bundles' = [bundles EXCEPT ![r] = @ \ {e}] /\ r \in Runs
      BY <1>0 DEF EnsureRemote
    <3>2. events' \in {events, [events EXCEPT ![i] = @ + 1]}
      BY <1>0 DEF EnsureRemote, Loud, Notice
    <3>3. unheard' \in {unheard, [unheard EXCEPT ![i] = @ + 1]}
      BY <1>0 DEF EnsureRemote, Loud
    <3>4. i \in Installations
      BY DEF InstallationOf, Installations
    <3> HIDE DEF i
    <3>5. /\ bundles \in [Runs -> SUBSET Bundles]
          /\ events \in [Installations -> Nat] /\ unheard \in [Installations -> Int]
      BY DEF TypeOK, TypeOKRun
    <3>6. bundles' \in [Runs -> SUBSET Bundles]
      BY <3>1, <3>5
    <3>7. events' \in [Installations -> Nat]
      BY <3>2, <3>4, <3>5
    <3>8. unheard' \in [Installations -> Int]
      BY <3>3, <3>4, <3>5
    <3> QED BY <3>6, <3>7, <3>8
  <2> QED BY <1>0, <2>1 DEF EnsureRemote, TypeOK, TypeOKRun
<1>1. ASSUME NEW r \in Runs, BuildFails(r), UNCHANGED <<task, outcome>>
      PROVE  TypeOKRun'
  BY <1>1 DEF BuildFails, TypeOK, TypeOKRun, runVars, monitorVars, vars, Phases, JobStates, OpStates, FiberStates, TaskStates, Outcomes, Installations, Pending, Notice, Kinds, Plans
<1>2. ASSUME NEW r \in Runs, Launch(r), UNCHANGED <<task, outcome>>
      PROVE  TypeOKRun'
  BY <1>2 DEF Launch, TypeOK, TypeOKRun, runVars, monitorVars, vars, Phases, JobStates, OpStates, FiberStates, TaskStates, Outcomes, Installations, Pending, Notice, Kinds, Plans
<1>3. ASSUME NEW r \in Runs, RaceOver(r), UNCHANGED <<task, outcome>>
      PROVE  TypeOKRun'
  BY <1>3 DEF RaceOver, TypeOK, TypeOKRun, runVars, monitorVars, vars, Phases, JobStates, OpStates, FiberStates, TaskStates, Outcomes, Installations, Pending, Notice, Kinds, Plans
<1>4. ASSUME NEW r \in Runs, FlushOver(r), UNCHANGED <<task, outcome>>
      PROVE  TypeOKRun'
  BY <1>4 DEF FlushOver, TypeOK, TypeOKRun, runVars, monitorVars, vars, Phases, JobStates, OpStates, FiberStates, TaskStates, Outcomes, Installations, Pending, Notice, Kinds, Plans
<1>5. ASSUME NEW r \in Runs, NEW j \in Jobs, NEW found \in SUBSET (j \X Parts),
             Ready(r, j, found), UNCHANGED <<task, outcome>>
      PROVE  TypeOKRun'
  BY <1>5 DEF Ready, TypeOK, TypeOKRun, runVars, monitorVars, vars, Phases, JobStates, OpStates, FiberStates, TaskStates, Outcomes, Installations, Pending, Notice, Kinds, Plans
<1>6. ASSUME NEW r \in Runs, NEW j \in Jobs, NEW o \in Ops,
             NewOperation(r, j, o), UNCHANGED <<task, outcome>>
      PROVE  TypeOKRun'
<2>1. [op |-> o, error |-> FALSE] \in Message
    BY DEF Message
  <2>2. sent' \in [Runs -> Seq(Message)]
    BY <1>6, <2>1, SendType DEF NewOperation, TypeOKRun
  <2>3. InstallationOf(o[1]) \in Installations
    BY DEF InstallationOf, Installations
  <2>4. mute' \in [Installations -> Int]
    BY <1>6, <2>3 DEF NewOperation, TypeOK, TypeOKRun
  <2> QED BY <1>6, <2>2, <2>4 DEF NewOperation, OpStates, TypeOK, TypeOKRun, runVars, monitorVars, vars
<1>7. ASSUME NEW r \in Runs, NEW j \in Jobs, NEW o \in Ops,
             NEW result \in {"changed", "unchanged"},
             OperationDone(r, j, o, result), UNCHANGED <<task, outcome>>
      PROVE  TypeOKRun'
<2>1. [op |-> o, error |-> FALSE] \in Message
    BY DEF Message
  <2>2. sent' \in [Runs -> Seq(Message)]
    BY <1>7, <2>1, SendType DEF OperationDone, TypeOKRun
  <2>3. fiber' \in [Runs -> [Ops -> FiberStates]]
    <3>1. CASE result = "changed"
      <4>1. fiber' = [fiber EXCEPT ![r][o] = "spawned"]
        BY <1>7, <3>1 DEF OperationDone
      <4> QED BY <4>1 DEF FiberStates, TypeOK, TypeOKRun
    <3>2. CASE result # "changed"
      BY <1>7, <3>2 DEF OperationDone, TypeOK, TypeOKRun
    <3> QED BY <3>1, <3>2
  <2>4. events' \in [Installations -> Nat]
    BY <1>7 DEF OperationDone, Notice, TypeOK, TypeOKRun
  <2> QED BY <1>7, <2>2, <2>3, <2>4 DEF OperationDone, OpStates, TypeOK, TypeOKRun, runVars, monitorVars, vars
<1>8. ASSUME NEW r \in Runs, NEW j \in Jobs, NEW o \in Ops,
             OperationError(r, j, o), UNCHANGED <<task, outcome>>
      PROVE  TypeOKRun'
<2>1. [op |-> o, error |-> TRUE] \in Message
    BY DEF Message
  <2>2. sent' \in [Runs -> Seq(Message)]
    BY <1>8, <2>1, SendType DEF OperationError, TypeOKRun
  <2> QED BY <1>8, <2>2 DEF OperationError, OpStates, TypeOK, TypeOKRun, runVars, monitorVars, vars
<1>9. ASSUME NEW r \in Runs, NEW j \in Jobs, JobSucceeds(r, j),
             UNCHANGED <<task, outcome>>
      PROVE  TypeOKRun'
  BY <1>9 DEF JobSucceeds, TypeOK, TypeOKRun, runVars, monitorVars, vars, Phases, JobStates, OpStates, FiberStates, TaskStates, Outcomes, Installations, Pending, Notice, Kinds, Plans
<1>10. ASSUME NEW r \in Runs, NEW j \in Jobs, JobFails(r, j),
              UNCHANGED <<task, outcome>>
       PROVE  TypeOKRun'
  BY <1>10 DEF JobFails, TypeOK, TypeOKRun, runVars, monitorVars, vars, Phases, JobStates, OpStates, FiberStates, TaskStates, Outcomes, Installations, Pending, Notice, Kinds, Plans
<1>11. ASSUME NEW r \in Runs, NEW o \in Ops, DoneFiber(r, o),
              UNCHANGED <<task, outcome>>
       PROVE  TypeOKRun'
  BY <1>11 DEF DoneFiber, TypeOK, TypeOKRun, runVars, monitorVars, vars, Phases, JobStates, OpStates, FiberStates, TaskStates, Outcomes, Installations, Pending, Notice, Kinds, Plans
<1>12. ASSUME NEW e \in Entries, CancelTask(e), UNCHANGED <<task, outcome>>
       PROVE  TypeOKRun'
  BY <1>12 DEF CancelTask, TypeOK, TypeOKRun, runVars, monitorVars, vars, Phases, JobStates, OpStates, FiberStates, TaskStates, Outcomes, Installations, Pending, Notice, Kinds, Plans
<1>13. ASSUME NEW i \in Installations, ForeignChange(i), UNCHANGED <<task, outcome>>
       PROVE  TypeOKRun'
  BY <1>13 DEF ForeignChange, Loud, Notice, TypeOK, TypeOKRun, Installations, runVars
<1>14. ASSUME NEW i \in Installations, InstallationEvent(i), UNCHANGED <<task, outcome>>
       PROVE  TypeOKRun'
  BY <1>14 DEF InstallationEvent, TypeOK, TypeOKRun, runVars, monitorVars, vars, Phases, JobStates, OpStates, FiberStates, TaskStates, Outcomes, Installations, Pending, Notice, Kinds, Plans
<1>15. ASSUME NEW r \in Runs, NEW p \in Plans, Begin(r, p)
       PROVE  TypeOKRun'
  BY <1>15, BeginType
<1>16. ASSUME NEW r \in Runs, Receive(r)
       PROVE  TypeOKRun'
  BY <1>16, ReceiveType
<1>17. ASSUME NEW r \in Runs, Conclude(r)
       PROVE  TypeOKRun'
  BY <1>17 DEF Conclude, TypeOK, TypeOKRun, runVars, monitorVars, vars, Phases, JobStates, OpStates, FiberStates, TaskStates, Outcomes, Installations, Pending, Notice, Kinds, Plans
<1>18. CASE UNCHANGED allVars
  BY <1>18 DEF allVars, vars, monitorVars, runVars, TypeOK, TypeOKRun, runVars, monitorVars, vars, Phases, JobStates, OpStates, FiberStates, TaskStates, Outcomes, Installations, Pending, Notice, Kinds, Plans
<1> QED
  BY <1>0, <1>1, <1>2, <1>3, <1>4, <1>5, <1>6, <1>7, <1>8, <1>9,
     <1>10, <1>11, <1>12, <1>13, <1>14, <1>15, <1>16, <1>17, <1>18
     DEF NextRun, Backend, BackendStep, RunStep, JobStep

-----------------------------------------------------------------------------
(* The table of cancellables *)

\* Every step keeps the table of cancellables as it should be.
LEMMA CancellableStep ==
    ASSUME TypeOKRun, CancellableWhileRaced, [NextRun]_allVars
    PROVE  CancellableWhileRaced'
<1>0. ASSUME NEW r \in Runs, NEW e \in Bundles, NEW adds \in BOOLEAN,
             EnsureRemote(r, e, adds), UNCHANGED <<task, outcome>>
      PROVE  CancellableWhileRaced'
  BY <1>0 DEF EnsureRemote, CancellableWhileRaced, TypeOKRun, TypeOK, vars, runVars, monitorVars
<1>1. ASSUME NEW r \in Runs, BuildFails(r), UNCHANGED <<task, outcome>>
      PROVE  CancellableWhileRaced'
  BY <1>1 DEF BuildFails, CancellableWhileRaced, TypeOKRun, TypeOK, vars, runVars, monitorVars
<1>2. ASSUME NEW r \in Runs, Launch(r), UNCHANGED <<task, outcome>>
      PROVE  CancellableWhileRaced'
  BY <1>2 DEF Launch, Planned, CancellableWhileRaced, TypeOKRun, TypeOK, vars, runVars, monitorVars
<1>3. ASSUME NEW r \in Runs, RaceOver(r), UNCHANGED <<task, outcome>>
      PROVE  CancellableWhileRaced'
  BY <1>3 DEF RaceOver, Planned, CancellableWhileRaced, TypeOKRun, TypeOK, vars, runVars, monitorVars
<1>4. ASSUME NEW r \in Runs, FlushOver(r), UNCHANGED <<task, outcome>>
      PROVE  CancellableWhileRaced'
  BY <1>4 DEF FlushOver, CancellableWhileRaced, TypeOKRun, TypeOK, vars, runVars, monitorVars
<1>5. ASSUME NEW r \in Runs, NEW j \in Jobs, NEW found \in SUBSET (j \X Parts),
             Ready(r, j, found), UNCHANGED <<task, outcome>>
      PROVE  CancellableWhileRaced'
  BY <1>5 DEF Ready, CancellableWhileRaced, TypeOKRun, TypeOK, vars, runVars, monitorVars
<1>6. ASSUME NEW r \in Runs, NEW j \in Jobs, NEW o \in Ops,
             NewOperation(r, j, o), UNCHANGED <<task, outcome>>
      PROVE  CancellableWhileRaced'
  BY <1>6 DEF NewOperation, CancellableWhileRaced, TypeOKRun, TypeOK, vars, runVars, monitorVars
<1>7. ASSUME NEW r \in Runs, NEW j \in Jobs, NEW o \in Ops,
             NEW result \in {"changed", "unchanged"},
             OperationDone(r, j, o, result), UNCHANGED <<task, outcome>>
      PROVE  CancellableWhileRaced'
  BY <1>7 DEF OperationDone, CancellableWhileRaced, TypeOKRun, TypeOK, vars, runVars, monitorVars
<1>8. ASSUME NEW r \in Runs, NEW j \in Jobs, NEW o \in Ops,
             OperationError(r, j, o), UNCHANGED <<task, outcome>>
      PROVE  CancellableWhileRaced'
  BY <1>8 DEF OperationError, CancellableWhileRaced, TypeOKRun, TypeOK, vars, runVars, monitorVars
<1>9. ASSUME NEW r \in Runs, NEW j \in Jobs, JobSucceeds(r, j),
             UNCHANGED <<task, outcome>>
      PROVE  CancellableWhileRaced'
  BY <1>9 DEF JobSucceeds, CancellableWhileRaced, TypeOKRun, TypeOK, vars, runVars, monitorVars
<1>10. ASSUME NEW r \in Runs, NEW j \in Jobs, JobFails(r, j),
              UNCHANGED <<task, outcome>>
       PROVE  CancellableWhileRaced'
  BY <1>10 DEF JobFails, CancellableWhileRaced, TypeOKRun, TypeOK, vars, runVars, monitorVars
<1>11. ASSUME NEW r \in Runs, NEW o \in Ops, DoneFiber(r, o),
              UNCHANGED <<task, outcome>>
       PROVE  CancellableWhileRaced'
  BY <1>11 DEF DoneFiber, CancellableWhileRaced, TypeOKRun, TypeOK, vars, runVars, monitorVars
<1>12. ASSUME NEW e \in Entries, CancelTask(e), UNCHANGED <<task, outcome>>
       PROVE  CancellableWhileRaced'
  BY <1>12 DEF CancelTask, CancellableWhileRaced, TypeOKRun, TypeOK, vars, runVars, monitorVars
<1>13. ASSUME NEW i \in Installations, ForeignChange(i), UNCHANGED <<task, outcome>>
       PROVE  CancellableWhileRaced'
  BY <1>13 DEF ForeignChange, CancellableWhileRaced, TypeOKRun, TypeOK, vars, runVars, monitorVars
<1>14. ASSUME NEW i \in Installations, InstallationEvent(i), UNCHANGED <<task, outcome>>
       PROVE  CancellableWhileRaced'
  BY <1>14 DEF InstallationEvent, CancellableWhileRaced, TypeOKRun, TypeOK, vars, runVars, monitorVars
<1>15. ASSUME NEW r \in Runs, NEW p \in Plans, Begin(r, p)
       PROVE  CancellableWhileRaced'
  BY <1>15 DEF Begin, Schedule, CancellableWhileRaced, TypeOKRun, TypeOK, vars, runVars, monitorVars
<1>16. ASSUME NEW r \in Runs, Receive(r)
       PROVE  CancellableWhileRaced'
  BY <1>16 DEF Receive, CancellableWhileRaced, TypeOKRun, TypeOK, vars, runVars, monitorVars
<1>17. ASSUME NEW r \in Runs, Conclude(r)
       PROVE  CancellableWhileRaced'
  BY <1>17 DEF Conclude, CancellableWhileRaced, TypeOKRun, TypeOK, vars, runVars, monitorVars
<1>18. CASE UNCHANGED allVars
  BY <1>18 DEF allVars, CancellableWhileRaced, vars, runVars, monitorVars
<1> QED
  BY <1>0, <1>1, <1>2, <1>3, <1>4, <1>5, <1>6, <1>7, <1>8, <1>9,
     <1>10, <1>11, <1>12, <1>13, <1>14, <1>15, <1>16, <1>17, <1>18
     DEF NextRun, Backend, BackendStep, RunStep, JobStep

-----------------------------------------------------------------------------
(* Jobs, operations, fibers *)

\* What JobsOfFacts says, for the plan of a run.
LEMMA PlanType ==
    ASSUME TypeOKRun, NEW r \in Runs
    PROVE  /\ plan[r] \in [Entries -> Kinds]
           /\ JobsOf(plan[r]) \subseteq Jobs
           /\ \A j, k \in JobsOf(plan[r]) : j \cap k # {} => j = k
<1>1. plan[r] \in [Entries -> Kinds]
  BY DEF TypeOKRun, TypeOK
<1> QED BY <1>1, JobsOfFacts

\* An operation that is known belongs to a job that was ready.
LEMMA JobOfOp ==
    ASSUME TypeOKRun, JobsPlanned, OpsOwned, NEW r \in Runs, NEW j \in Jobs,
           NEW o \in Ops, job[r][j] # "none", op[r][o] # "none", o[1] \in j
    PROVE  job[r][j] \in {"running", "ok", "failed"}
<1>1. j \in JobsOf(plan[r])
  BY DEF JobsPlanned
<1>2. PICK k \in JobsOf(plan[r]) : o[1] \in k /\ job[r][k] \in {"running", "ok", "failed"}
  BY DEF OpsOwned
<1>3. j = k
  BY <1>1, <1>2, PlanType
<1> QED BY <1>2, <1>3

\* Every step keeps the jobs to those of the plan.
LEMMA JobsPlannedStep ==
    ASSUME TypeOKRun, JobsPlanned, OpsOwned, [NextRun]_allVars
    PROVE  JobsPlanned'
<1>0. ASSUME NEW r \in Runs, NEW e \in Bundles, NEW adds \in BOOLEAN,
             EnsureRemote(r, e, adds), UNCHANGED <<task, outcome>>
      PROVE  JobsPlanned'
  BY <1>0 DEF EnsureRemote, JobsPlanned, TypeOKRun, TypeOK
<1>1. ASSUME NEW r \in Runs, BuildFails(r), UNCHANGED <<task, outcome>>
      PROVE  JobsPlanned'
  BY <1>1 DEF BuildFails, JobsPlanned, TypeOKRun, TypeOK
<1>2. ASSUME NEW r \in Runs, Launch(r), UNCHANGED <<task, outcome>>
      PROVE  JobsPlanned'
  <2>1. /\ \A j \in Jobs : job'[r][j] # "none" <=> j \in JobsOf(plan[r])
        /\ \A s \in Runs \ {r} : job'[s] = job[s] /\ phase'[s] = phase[s]
        /\ phase'[r] = "racing" /\ plan' = plan
    BY <1>2 DEF Launch, TypeOKRun, TypeOK
  <2> QED BY <2>1 DEF JobsPlanned
<1>3. ASSUME NEW r \in Runs, RaceOver(r), UNCHANGED <<task, outcome>>
      PROVE  JobsPlanned'
  BY <1>3 DEF RaceOver, JobsPlanned, vars, runVars, monitorVars, TypeOKRun, TypeOK
<1>4. ASSUME NEW r \in Runs, FlushOver(r), UNCHANGED <<task, outcome>>
      PROVE  JobsPlanned'
  BY <1>4 DEF FlushOver, JobsPlanned, vars, runVars, monitorVars, TypeOKRun, TypeOK
<1>5. ASSUME NEW r \in Runs, NEW j \in Jobs, NEW found \in SUBSET (j \X Parts),
             Ready(r, j, found), UNCHANGED <<task, outcome>>
      PROVE  JobsPlanned'
  BY <1>5 DEF Ready, JobsPlanned, vars, runVars, monitorVars, TypeOKRun, TypeOK
<1>6. ASSUME NEW r \in Runs, NEW j \in Jobs, NEW o \in Ops,
             NewOperation(r, j, o), UNCHANGED <<task, outcome>>
      PROVE  JobsPlanned'
  BY <1>6 DEF NewOperation, JobsPlanned, vars, runVars, monitorVars, TypeOKRun, TypeOK
<1>7. ASSUME NEW r \in Runs, NEW j \in Jobs, NEW o \in Ops,
             NEW result \in {"changed", "unchanged"},
             OperationDone(r, j, o, result), UNCHANGED <<task, outcome>>
      PROVE  JobsPlanned'
  BY <1>7 DEF OperationDone, JobsPlanned, vars, runVars, monitorVars, TypeOKRun, TypeOK
<1>8. ASSUME NEW r \in Runs, NEW j \in Jobs, NEW o \in Ops,
             OperationError(r, j, o), UNCHANGED <<task, outcome>>
      PROVE  JobsPlanned'
  BY <1>8 DEF OperationError, JobsPlanned, vars, runVars, monitorVars, TypeOKRun, TypeOK
<1>9. ASSUME NEW r \in Runs, NEW j \in Jobs, JobSucceeds(r, j),
             UNCHANGED <<task, outcome>>
      PROVE  JobsPlanned'
  BY <1>9 DEF JobSucceeds, JobsPlanned, vars, runVars, monitorVars, TypeOKRun, TypeOK
<1>10. ASSUME NEW r \in Runs, NEW j \in Jobs, JobFails(r, j),
              UNCHANGED <<task, outcome>>
       PROVE  JobsPlanned'
  BY <1>10 DEF JobFails, JobsPlanned, vars, runVars, monitorVars, TypeOKRun, TypeOK
<1>11. ASSUME NEW r \in Runs, NEW o \in Ops, DoneFiber(r, o),
              UNCHANGED <<task, outcome>>
       PROVE  JobsPlanned'
  BY <1>11 DEF DoneFiber, JobsPlanned, vars, runVars, monitorVars, TypeOKRun, TypeOK
<1>12. ASSUME NEW e \in Entries, CancelTask(e), UNCHANGED <<task, outcome>>
       PROVE  JobsPlanned'
  BY <1>12 DEF CancelTask, JobsPlanned, vars, runVars, monitorVars, TypeOKRun, TypeOK
<1>13. ASSUME NEW i \in Installations, ForeignChange(i), UNCHANGED <<task, outcome>>
       PROVE  JobsPlanned'
  BY <1>13 DEF ForeignChange, JobsPlanned, vars, runVars, monitorVars, TypeOKRun, TypeOK
<1>14. ASSUME NEW i \in Installations, InstallationEvent(i), UNCHANGED <<task, outcome>>
       PROVE  JobsPlanned'
  BY <1>14 DEF InstallationEvent, JobsPlanned, vars, runVars, monitorVars, TypeOKRun, TypeOK
<1>15. ASSUME NEW r \in Runs, NEW p \in Plans, Begin(r, p)
       PROVE  JobsPlanned'
  <2>1. phase[r] = "none" /\ phase' = [phase EXCEPT ![r] = "building"] /\ job' = job
        /\ \A s \in Runs \ {r} : plan'[s] = plan[s]
    BY <1>15 DEF Begin, Schedule, TypeOKRun, TypeOK
  <2> QED BY <2>1 DEF JobsPlanned, TypeOKRun, TypeOK
<1>16. ASSUME NEW r \in Runs, Receive(r)
       PROVE  JobsPlanned'
  BY <1>16 DEF Receive, JobsPlanned, vars, runVars, monitorVars, TypeOKRun, TypeOK
<1>17. ASSUME NEW r \in Runs, Conclude(r)
       PROVE  JobsPlanned'
  BY <1>17 DEF Conclude, JobsPlanned, vars, runVars, monitorVars, TypeOKRun, TypeOK
<1>18. CASE UNCHANGED allVars
  BY <1>18 DEF allVars, JobsPlanned, vars, runVars, monitorVars, TypeOKRun, TypeOK
<1> QED
  BY <1>0, <1>1, <1>2, <1>3, <1>4, <1>5, <1>6, <1>7, <1>8, <1>9,
     <1>10, <1>11, <1>12, <1>13, <1>14, <1>15, <1>16, <1>17, <1>18
     DEF NextRun, Backend, BackendStep, RunStep, JobStep

\* Every step leaves each operation its job.
LEMMA OpsOwnedStep ==
    ASSUME TypeOKRun, JobsPlanned, OpsOwned, [NextRun]_allVars
    PROVE  OpsOwned'
<1>0. ASSUME NEW r \in Runs, NEW e \in Bundles, NEW adds \in BOOLEAN,
             EnsureRemote(r, e, adds), UNCHANGED <<task, outcome>>
      PROVE  OpsOwned'
  BY <1>0 DEF EnsureRemote, OpsOwned, vars, runVars, monitorVars, TypeOKRun, TypeOK
<1>1. ASSUME NEW r \in Runs, BuildFails(r), UNCHANGED <<task, outcome>>
      PROVE  OpsOwned'
  BY <1>1 DEF BuildFails, OpsOwned, vars, runVars, monitorVars, TypeOKRun, TypeOK
<1>2. ASSUME NEW r \in Runs, Launch(r), UNCHANGED <<task, outcome>>
      PROVE  OpsOwned'
  <2>1. /\ \A j \in Jobs : job[r][j] = "none"
        /\ \A s \in Runs \ {r} : job'[s] = job[s]
        /\ plan' = plan /\ op' = op
    BY <1>2 DEF Launch, JobsPlanned, TypeOKRun, TypeOK
  <2>2. \A o \in Ops : op[r][o] = "none"
    BY <2>1, PlanType DEF OpsOwned
  <2> QED BY <2>1, <2>2 DEF OpsOwned
<1>3. ASSUME NEW r \in Runs, RaceOver(r), UNCHANGED <<task, outcome>>
      PROVE  OpsOwned'
  BY <1>3 DEF RaceOver, OpsOwned, vars, runVars, monitorVars, TypeOKRun, TypeOK
<1>4. ASSUME NEW r \in Runs, FlushOver(r), UNCHANGED <<task, outcome>>
      PROVE  OpsOwned'
  BY <1>4 DEF FlushOver, OpsOwned, vars, runVars, monitorVars, TypeOKRun, TypeOK
<1>5. ASSUME NEW r \in Runs, NEW j \in Jobs, NEW found \in SUBSET (j \X Parts),
             Ready(r, j, found), UNCHANGED <<task, outcome>>
      PROVE  OpsOwned'
  <2>1. j \in JobsOf(plan[r]) /\ JobsOf(plan[r]) \subseteq Jobs
    BY <1>5, PlanType DEF Ready, JobsPlanned
  <2>2. /\ plan' = plan
        /\ \A s \in Runs, k \in Jobs : job'[s][k] = IF s = r /\ k = j THEN "running" ELSE job[s][k]
        /\ \A s \in Runs, o \in Ops : op'[s][o] = IF s = r /\ o \in found THEN "listed" ELSE op[s][o]
    BY <1>5 DEF Ready, TypeOKRun, TypeOK
  <2>3. \A o \in found : o[1] \in j
    OBVIOUS
  <2>4. ASSUME NEW s \in Runs, NEW o \in Ops, op'[s][o] # "none"
        PROVE  \E k \in JobsOf(plan'[s]) :
                  o[1] \in k /\ job'[s][k] \in {"running", "ok", "failed"}
    <3>1. CASE s = r /\ o \in found
      BY <2>1, <2>2, <2>3, <3>1
    <3>2. CASE ~ (s = r /\ o \in found)
      <4>1. PICK k \in JobsOf(plan[s]) : o[1] \in k /\ job[s][k] \in {"running", "ok", "failed"}
        BY <2>2, <2>4, <3>2 DEF OpsOwned
      <4>2. k \in Jobs
        BY PlanType
      <4> QED BY <2>2, <4>1, <4>2
    <3> QED BY <3>1, <3>2
  <2> QED BY <2>4 DEF OpsOwned
<1>6. ASSUME NEW r \in Runs, NEW j \in Jobs, NEW o \in Ops,
             NewOperation(r, j, o), UNCHANGED <<task, outcome>>
      PROVE  OpsOwned'
  BY <1>6 DEF NewOperation, OpsOwned, vars, runVars, monitorVars, TypeOKRun, TypeOK
<1>7. ASSUME NEW r \in Runs, NEW j \in Jobs, NEW o \in Ops,
             NEW result \in {"changed", "unchanged"},
             OperationDone(r, j, o, result), UNCHANGED <<task, outcome>>
      PROVE  OpsOwned'
  BY <1>7 DEF OperationDone, OpsOwned, vars, runVars, monitorVars, TypeOKRun, TypeOK
<1>8. ASSUME NEW r \in Runs, NEW j \in Jobs, NEW o \in Ops,
             OperationError(r, j, o), UNCHANGED <<task, outcome>>
      PROVE  OpsOwned'
  BY <1>8 DEF OperationError, OpsOwned, vars, runVars, monitorVars, TypeOKRun, TypeOK
<1>9. ASSUME NEW r \in Runs, NEW j \in Jobs, JobSucceeds(r, j),
             UNCHANGED <<task, outcome>>
      PROVE  OpsOwned'
  <2>1. /\ plan' = plan /\ op' = op
        /\ \A s \in Runs, k \in Jobs : job[s][k] \in {"running", "ok", "failed"} =>
              job'[s][k] \in {"running", "ok", "failed"}
    BY <1>9 DEF JobSucceeds, TypeOKRun, TypeOK
  <2> QED BY <2>1, PlanType DEF OpsOwned
<1>10. ASSUME NEW r \in Runs, NEW j \in Jobs, JobFails(r, j),
              UNCHANGED <<task, outcome>>
       PROVE  OpsOwned'
  <2>1. /\ plan' = plan /\ op' = op
        /\ \A s \in Runs, k \in Jobs : job[s][k] \in {"running", "ok", "failed"} =>
              job'[s][k] \in {"running", "ok", "failed"}
    BY <1>10 DEF JobFails, TypeOKRun, TypeOK
  <2> QED BY <2>1, PlanType DEF OpsOwned
<1>11. ASSUME NEW r \in Runs, NEW o \in Ops, DoneFiber(r, o),
              UNCHANGED <<task, outcome>>
       PROVE  OpsOwned'
  BY <1>11 DEF DoneFiber, OpsOwned, vars, runVars, monitorVars, TypeOKRun, TypeOK
<1>12. ASSUME NEW e \in Entries, CancelTask(e), UNCHANGED <<task, outcome>>
       PROVE  OpsOwned'
  BY <1>12 DEF CancelTask, OpsOwned, vars, runVars, monitorVars, TypeOKRun, TypeOK
<1>13. ASSUME NEW i \in Installations, ForeignChange(i), UNCHANGED <<task, outcome>>
       PROVE  OpsOwned'
  BY <1>13 DEF ForeignChange, OpsOwned, vars, runVars, monitorVars, TypeOKRun, TypeOK
<1>14. ASSUME NEW i \in Installations, InstallationEvent(i), UNCHANGED <<task, outcome>>
       PROVE  OpsOwned'
  BY <1>14 DEF InstallationEvent, OpsOwned, vars, runVars, monitorVars, TypeOKRun, TypeOK
<1>15. ASSUME NEW r \in Runs, NEW p \in Plans, Begin(r, p)
       PROVE  OpsOwned'
  <2>1. phase[r] = "none" /\ job' = job /\ op' = op
        /\ \A s \in Runs \ {r} : plan'[s] = plan[s]
    BY <1>15 DEF Begin, Schedule, TypeOKRun, TypeOK
  <2>2. \A o \in Ops : op[r][o] = "none"
    BY <2>1, PlanType DEF JobsPlanned, OpsOwned
  <2> QED BY <2>1, <2>2 DEF OpsOwned
<1>16. ASSUME NEW r \in Runs, Receive(r)
       PROVE  OpsOwned'
  BY <1>16 DEF Receive, OpsOwned, vars, runVars, monitorVars, TypeOKRun, TypeOK
<1>17. ASSUME NEW r \in Runs, Conclude(r)
       PROVE  OpsOwned'
  BY <1>17 DEF Conclude, OpsOwned, vars, runVars, monitorVars, TypeOKRun, TypeOK
<1>18. CASE UNCHANGED allVars
  BY <1>18 DEF allVars, OpsOwned, vars, runVars, monitorVars, TypeOKRun, TypeOK
<1> QED
  BY <1>0, <1>1, <1>2, <1>3, <1>4, <1>5, <1>6, <1>7, <1>8, <1>9,
     <1>10, <1>11, <1>12, <1>13, <1>14, <1>15, <1>16, <1>17, <1>18
     DEF NextRun, Backend, BackendStep, RunStep, JobStep

\* A job becomes good only when its operations are done, and stays so.
LEMMA GoodJobsStep ==
    ASSUME TypeOKRun, JobsPlanned, OpsOwned, GoodJobs, [NextRun]_allVars
    PROVE  GoodJobs'
<1>0. ASSUME NEW r \in Runs, NEW e \in Bundles, NEW adds \in BOOLEAN,
             EnsureRemote(r, e, adds), UNCHANGED <<task, outcome>>
      PROVE  GoodJobs'
  BY <1>0 DEF EnsureRemote, GoodJobs, vars, runVars, monitorVars, TypeOKRun, TypeOK
<1>1. ASSUME NEW r \in Runs, BuildFails(r), UNCHANGED <<task, outcome>>
      PROVE  GoodJobs'
  BY <1>1 DEF BuildFails, GoodJobs, vars, runVars, monitorVars, TypeOKRun, TypeOK
<1>2. ASSUME NEW r \in Runs, Launch(r), UNCHANGED <<task, outcome>>
      PROVE  GoodJobs'
  <2>1. /\ op' = op
        /\ \A s \in Runs, k \in Jobs : job'[s][k] = "ok" => job[s][k] = "ok"
    BY <1>2 DEF Launch, TypeOKRun, TypeOK
  <2> QED BY <2>1 DEF GoodJobs
<1>3. ASSUME NEW r \in Runs, RaceOver(r), UNCHANGED <<task, outcome>>
      PROVE  GoodJobs'
  BY <1>3 DEF RaceOver, GoodJobs, vars, runVars, monitorVars, TypeOKRun, TypeOK
<1>4. ASSUME NEW r \in Runs, FlushOver(r), UNCHANGED <<task, outcome>>
      PROVE  GoodJobs'
  BY <1>4 DEF FlushOver, GoodJobs, vars, runVars, monitorVars, TypeOKRun, TypeOK
<1>5. ASSUME NEW r \in Runs, NEW j \in Jobs, NEW found \in SUBSET (j \X Parts),
             Ready(r, j, found), UNCHANGED <<task, outcome>>
      PROVE  GoodJobs'
  <2>1. j \in JobsOf(plan[r]) /\ JobsOf(plan[r]) \subseteq Jobs
    BY <1>5, PlanType DEF Ready, JobsPlanned
  <2>2. /\ \A s \in Runs, k \in Jobs : job'[s][k] = IF s = r /\ k = j THEN "running" ELSE job[s][k]
        /\ \A s \in Runs, o \in Ops : op'[s][o] = IF s = r /\ o \in found THEN "listed" ELSE op[s][o]
    BY <1>5 DEF Ready, TypeOKRun, TypeOK
  <2>3. ASSUME NEW k \in Jobs, NEW o \in Ops, job'[r][k] = "ok", o[1] \in k, o \in found
        PROVE  FALSE
    <3>1. k \in JobsOf(plan[r]) /\ k # j
      BY <2>2, <2>3 DEF JobsPlanned
    <3>2. o[1] \in j
      BY <2>3
    <3> QED BY <2>1, <2>3, <3>1, <3>2, PlanType
  <2> QED BY <2>2, <2>3 DEF GoodJobs
<1>6. ASSUME NEW r \in Runs, NEW j \in Jobs, NEW o \in Ops,
             NewOperation(r, j, o), UNCHANGED <<task, outcome>>
      PROVE  GoodJobs'
  <2>1. /\ job' = job
        /\ \A s \in Runs, k \in Ops : op'[s][k] = IF s = r /\ k = o THEN "announced" ELSE op[s][k]
    BY <1>6 DEF NewOperation, TypeOKRun, TypeOK
  <2>2. op[r][o] = "listed"
    BY <1>6 DEF NewOperation
  <2> QED BY <2>1, <2>2 DEF GoodJobs
<1>7. ASSUME NEW r \in Runs, NEW j \in Jobs, NEW o \in Ops,
             NEW result \in {"changed", "unchanged"},
             OperationDone(r, j, o, result), UNCHANGED <<task, outcome>>
      PROVE  GoodJobs'
  <2>1. /\ job' = job
        /\ \A s \in Runs, k \in Ops : op'[s][k] = IF s = r /\ k = o THEN result ELSE op[s][k]
    BY <1>7 DEF OperationDone, TypeOKRun, TypeOK
  <2> QED BY <2>1 DEF GoodJobs
<1>8. ASSUME NEW r \in Runs, NEW j \in Jobs, NEW o \in Ops,
             OperationError(r, j, o), UNCHANGED <<task, outcome>>
      PROVE  GoodJobs'
  <2>1. /\ job' = job
        /\ \A s \in Runs, k \in Ops : op'[s][k] = IF s = r /\ k = o THEN "error" ELSE op[s][k]
    BY <1>8 DEF OperationError, TypeOKRun, TypeOK
  <2>2. op[r][o] = "announced"
    BY <1>8 DEF OperationError
  <2> QED BY <2>1, <2>2 DEF GoodJobs
<1>9. ASSUME NEW r \in Runs, NEW j \in Jobs, JobSucceeds(r, j),
             UNCHANGED <<task, outcome>>
      PROVE  GoodJobs'
  <2>1. /\ op' = op
        /\ \A s \in Runs, k \in Jobs : job'[s][k] = IF s = r /\ k = j THEN "ok" ELSE job[s][k]
    BY <1>9 DEF JobSucceeds, TypeOKRun, TypeOK
  <2>2. \A o \in Ops : o[1] \in j => op[r][o] \in {"none", "changed", "unchanged"}
    BY <1>9 DEF JobSucceeds, Has, OpStates, TypeOKRun, TypeOK
  <2> QED BY <2>1, <2>2 DEF GoodJobs
<1>10. ASSUME NEW r \in Runs, NEW j \in Jobs, JobFails(r, j),
              UNCHANGED <<task, outcome>>
       PROVE  GoodJobs'
  BY <1>10 DEF JobFails, GoodJobs, vars, runVars, monitorVars, TypeOKRun, TypeOK
<1>11. ASSUME NEW r \in Runs, NEW o \in Ops, DoneFiber(r, o),
              UNCHANGED <<task, outcome>>
       PROVE  GoodJobs'
  BY <1>11 DEF DoneFiber, GoodJobs, vars, runVars, monitorVars, TypeOKRun, TypeOK
<1>12. ASSUME NEW e \in Entries, CancelTask(e), UNCHANGED <<task, outcome>>
       PROVE  GoodJobs'
  BY <1>12 DEF CancelTask, GoodJobs, vars, runVars, monitorVars, TypeOKRun, TypeOK
<1>13. ASSUME NEW i \in Installations, ForeignChange(i), UNCHANGED <<task, outcome>>
       PROVE  GoodJobs'
  BY <1>13 DEF ForeignChange, GoodJobs, vars, runVars, monitorVars, TypeOKRun, TypeOK
<1>14. ASSUME NEW i \in Installations, InstallationEvent(i), UNCHANGED <<task, outcome>>
       PROVE  GoodJobs'
  BY <1>14 DEF InstallationEvent, GoodJobs, vars, runVars, monitorVars, TypeOKRun, TypeOK
<1>15. ASSUME NEW r \in Runs, NEW p \in Plans, Begin(r, p)
       PROVE  GoodJobs'
  BY <1>15 DEF Begin, Schedule, GoodJobs, vars, runVars, monitorVars, TypeOKRun, TypeOK
<1>16. ASSUME NEW r \in Runs, Receive(r)
       PROVE  GoodJobs'
  BY <1>16 DEF Receive, GoodJobs, vars, runVars, monitorVars, TypeOKRun, TypeOK
<1>17. ASSUME NEW r \in Runs, Conclude(r)
       PROVE  GoodJobs'
  BY <1>17 DEF Conclude, GoodJobs, vars, runVars, monitorVars, TypeOKRun, TypeOK
<1>18. CASE UNCHANGED allVars
  BY <1>18 DEF allVars, GoodJobs, vars, runVars, monitorVars, TypeOKRun, TypeOK
<1> QED
  BY <1>0, <1>1, <1>2, <1>3, <1>4, <1>5, <1>6, <1>7, <1>8, <1>9,
     <1>10, <1>11, <1>12, <1>13, <1>14, <1>15, <1>16, <1>17, <1>18
     DEF NextRun, Backend, BackendStep, RunStep, JobStep

\* Exactly the operations that changed something get a fiber.
LEMMA FibersStep ==
    ASSUME TypeOKRun, JobsPlanned, OpsOwned, FibersOfChanges, [NextRun]_allVars
    PROVE  FibersOfChanges'
<1>0. ASSUME NEW r \in Runs, NEW e \in Bundles, NEW adds \in BOOLEAN,
             EnsureRemote(r, e, adds), UNCHANGED <<task, outcome>>
      PROVE  FibersOfChanges'
  BY <1>0 DEF EnsureRemote, FibersOfChanges, vars, runVars, monitorVars, TypeOKRun, TypeOK
<1>1. ASSUME NEW r \in Runs, BuildFails(r), UNCHANGED <<task, outcome>>
      PROVE  FibersOfChanges'
  BY <1>1 DEF BuildFails, FibersOfChanges, vars, runVars, monitorVars, TypeOKRun, TypeOK
<1>2. ASSUME NEW r \in Runs, Launch(r), UNCHANGED <<task, outcome>>
      PROVE  FibersOfChanges'
  BY <1>2 DEF Launch, FibersOfChanges, vars, runVars, monitorVars, TypeOKRun, TypeOK
<1>3. ASSUME NEW r \in Runs, RaceOver(r), UNCHANGED <<task, outcome>>
      PROVE  FibersOfChanges'
  BY <1>3 DEF RaceOver, FibersOfChanges, vars, runVars, monitorVars, TypeOKRun, TypeOK
<1>4. ASSUME NEW r \in Runs, FlushOver(r), UNCHANGED <<task, outcome>>
      PROVE  FibersOfChanges'
  BY <1>4 DEF FlushOver, FibersOfChanges, vars, runVars, monitorVars, TypeOKRun, TypeOK
<1>5. ASSUME NEW r \in Runs, NEW j \in Jobs, NEW found \in SUBSET (j \X Parts),
             Ready(r, j, found), UNCHANGED <<task, outcome>>
      PROVE  FibersOfChanges'
  <2>1. /\ fiber' = fiber
        /\ \A s \in Runs, o \in Ops : op'[s][o] = IF s = r /\ o \in found THEN "listed" ELSE op[s][o]
    BY <1>5 DEF Ready, TypeOKRun, TypeOK
  <2>2. \A o \in Ops : o \in found => op[r][o] = "none"
    <3>1. \A o \in found : o[1] \in j
      OBVIOUS
    <3> QED BY <1>5, <3>1, JobOfOp DEF Ready
  <2> QED BY <2>1, <2>2 DEF FibersOfChanges
<1>6. ASSUME NEW r \in Runs, NEW j \in Jobs, NEW o \in Ops,
             NewOperation(r, j, o), UNCHANGED <<task, outcome>>
      PROVE  FibersOfChanges'
  BY <1>6 DEF NewOperation, FibersOfChanges, vars, runVars, monitorVars, TypeOKRun, TypeOK
<1>7. ASSUME NEW r \in Runs, NEW j \in Jobs, NEW o \in Ops,
             NEW result \in {"changed", "unchanged"},
             OperationDone(r, j, o, result), UNCHANGED <<task, outcome>>
      PROVE  FibersOfChanges'
  <2>1. /\ \A s \in Runs, k \in Ops : op'[s][k] = IF s = r /\ k = o THEN result ELSE op[s][k]
        /\ \A s \in Runs, k \in Ops : fiber'[s][k] =
              IF s = r /\ k = o /\ result = "changed" THEN "spawned" ELSE fiber[s][k]
    BY <1>7 DEF OperationDone, TypeOKRun, TypeOK
  <2>2. op[r][o] = "announced"
    BY <1>7 DEF OperationDone
  <2> QED BY <2>1, <2>2 DEF FibersOfChanges
<1>8. ASSUME NEW r \in Runs, NEW j \in Jobs, NEW o \in Ops,
             OperationError(r, j, o), UNCHANGED <<task, outcome>>
      PROVE  FibersOfChanges'
  BY <1>8 DEF OperationError, FibersOfChanges, vars, runVars, monitorVars, TypeOKRun, TypeOK
<1>9. ASSUME NEW r \in Runs, NEW j \in Jobs, JobSucceeds(r, j),
             UNCHANGED <<task, outcome>>
      PROVE  FibersOfChanges'
  BY <1>9 DEF JobSucceeds, FibersOfChanges, vars, runVars, monitorVars, TypeOKRun, TypeOK
<1>10. ASSUME NEW r \in Runs, NEW j \in Jobs, JobFails(r, j),
              UNCHANGED <<task, outcome>>
       PROVE  FibersOfChanges'
  BY <1>10 DEF JobFails, FibersOfChanges, vars, runVars, monitorVars, TypeOKRun, TypeOK
<1>11. ASSUME NEW r \in Runs, NEW o \in Ops, DoneFiber(r, o),
              UNCHANGED <<task, outcome>>
       PROVE  FibersOfChanges'
  <2>1. /\ op' = op
        /\ \A s \in Runs, k \in Ops : s # r \/ k # o => fiber'[s][k] = fiber[s][k]
        /\ fiber[r][o] # "none" /\ fiber'[r][o] # "none"
    BY <1>11 DEF DoneFiber, TypeOKRun, TypeOK
  <2> QED BY <2>1 DEF FibersOfChanges
<1>12. ASSUME NEW e \in Entries, CancelTask(e), UNCHANGED <<task, outcome>>
       PROVE  FibersOfChanges'
  BY <1>12 DEF CancelTask, FibersOfChanges, vars, runVars, monitorVars, TypeOKRun, TypeOK
<1>13. ASSUME NEW i \in Installations, ForeignChange(i), UNCHANGED <<task, outcome>>
       PROVE  FibersOfChanges'
  BY <1>13 DEF ForeignChange, FibersOfChanges, vars, runVars, monitorVars, TypeOKRun, TypeOK
<1>14. ASSUME NEW i \in Installations, InstallationEvent(i), UNCHANGED <<task, outcome>>
       PROVE  FibersOfChanges'
  BY <1>14 DEF InstallationEvent, FibersOfChanges, vars, runVars, monitorVars, TypeOKRun, TypeOK
<1>15. ASSUME NEW r \in Runs, NEW p \in Plans, Begin(r, p)
       PROVE  FibersOfChanges'
  BY <1>15 DEF Begin, Schedule, FibersOfChanges, vars, runVars, monitorVars, TypeOKRun, TypeOK
<1>16. ASSUME NEW r \in Runs, Receive(r)
       PROVE  FibersOfChanges'
  BY <1>16 DEF Receive, FibersOfChanges, vars, runVars, monitorVars, TypeOKRun, TypeOK
<1>17. ASSUME NEW r \in Runs, Conclude(r)
       PROVE  FibersOfChanges'
  BY <1>17 DEF Conclude, FibersOfChanges, vars, runVars, monitorVars, TypeOKRun, TypeOK
<1>18. CASE UNCHANGED allVars
  BY <1>18 DEF allVars, FibersOfChanges, vars, runVars, monitorVars, TypeOKRun, TypeOK
<1> QED
  BY <1>0, <1>1, <1>2, <1>3, <1>4, <1>5, <1>6, <1>7, <1>8, <1>9,
     <1>10, <1>11, <1>12, <1>13, <1>14, <1>15, <1>16, <1>17, <1>18
     DEF NextRun, Backend, BackendStep, RunStep, JobStep

-----------------------------------------------------------------------------
(* The end of a run *)

\* What EndAt reads of a run stays.
SameEnd(r) ==
    /\ plan'[r] = plan[r] /\ phase'[r] = phase[r] /\ job'[r] = job[r]
    /\ fiber'[r] = fiber[r] /\ flush'[r] = flush[r] /\ errored'[r] = errored[r]
    /\ closed'[r] = closed[r] /\ outcome'[r] = outcome[r]

\* A step that disturbs EndAt of no run keeps EndOfRun.
LEMMA EndOthers ==
    ASSUME EndOfRun, \A r \in Runs : SameEnd(r) \/ EndAt(r)'
    PROVE  EndOfRun'
<1>1. ASSUME NEW r \in Runs, SameEnd(r)
      PROVE  EndAt(r)'
  <2>1. EndAt(r)
    BY DEF EndOfRun
  <2>2. SomeFailed(r)' = SomeFailed(r) /\ AllOk(r)' = AllOk(r) /\ Pending(r)' = Pending(r)
    BY <1>1 DEF SameEnd, SomeFailed, AllOk, Pending
  <2> QED BY <1>1, <2>1, <2>2 DEF SameEnd, EndAt
<1> QED BY <1>1 DEF EndOfRun

\* A job that runs keeps its run from being good.
LEMMA RunningJob ==
    ASSUME TypeOKRun, JobsPlanned, NEW r \in Runs, NEW j \in Jobs,
           job[r][j] \in {"waiting", "running"}
    PROVE  j \in JobsOf(plan[r]) /\ ~ AllOk(r) /\ phase[r] \in {"racing", "flushing", "ended"}
BY DEF JobsPlanned, AllOk

\* Every step keeps what is known at the end of a run.
LEMMA EndStep ==
    ASSUME TypeOKRun, JobsPlanned, EndOfRun, [NextRun]_allVars
    PROVE  EndOfRun'
<1>0. ASSUME NEW r \in Runs, NEW e \in Bundles, NEW adds \in BOOLEAN,
             EnsureRemote(r, e, adds), UNCHANGED <<task, outcome>>
      PROVE  EndOfRun'
  <2>1. UNCHANGED <<plan, phase, job, fiber, flush, errored, closed, outcome>>
    BY <1>0 DEF EnsureRemote
  <2> QED BY <2>1, EndOthers DEF SameEnd
<1>1. ASSUME NEW r \in Runs, BuildFails(r), UNCHANGED <<task, outcome>>
      PROVE  EndOfRun'
  <2>1. \A s \in Runs \ {r} : SameEnd(s)
    BY <1>1 DEF BuildFails, SameEnd, TypeOKRun, TypeOK
  <2>2. EndAt(r)
    BY DEF EndOfRun
  <2>3. phase[r] = "building" /\ phase'[r] = "rejected" /\ closed'[r] /\ outcome' = outcome
    BY <1>1 DEF BuildFails, TypeOKRun, TypeOK
  <2>8. EndAt(r)'
    BY <1>1, <2>2, <2>3 DEF BuildFails, EndAt, TypeOKRun, TypeOK
  <2> QED BY <2>1, <2>8, EndOthers
<1>2. ASSUME NEW r \in Runs, Launch(r), UNCHANGED <<task, outcome>>
      PROVE  EndOfRun'
  <2>1. \A s \in Runs \ {r} : SameEnd(s)
    BY <1>2 DEF Launch, SameEnd, TypeOKRun, TypeOK
  <2>2. EndAt(r)
    BY DEF EndOfRun
  <2>3. phase'[r] = "racing" /\ closed'[r] = closed[r] /\ outcome' = outcome
    BY <1>2 DEF Launch, TypeOKRun, TypeOK
  <2>8. EndAt(r)'
    BY <1>2, <2>2, <2>3 DEF Launch, EndAt, TypeOKRun, TypeOK
  <2> QED BY <2>1, <2>8, EndOthers
<1>3. ASSUME NEW r \in Runs, RaceOver(r), UNCHANGED <<task, outcome>>
      PROVE  EndOfRun'
  <2>1. \A s \in Runs \ {r} : SameEnd(s)
    BY <1>3 DEF RaceOver, SameEnd, TypeOKRun, TypeOK
  <2>2. EndAt(r)
    BY DEF EndOfRun
  <2>3. /\ phase[r] = "racing" /\ phase'[r] = "flushing" /\ closed'[r] = closed[r]
        /\ outcome' = outcome /\ flush'[r] = Pending(r)
    BY <1>3 DEF RaceOver, TypeOKRun, TypeOK
  <2>4. SomeFailed(r)' = SomeFailed(r) /\ AllOk(r)' = AllOk(r) /\ Pending(r)' = Pending(r)
    BY <1>3 DEF RaceOver, SomeFailed, AllOk, Pending
  <2>5. SomeFailed(r) \/ AllOk(r)
    BY <1>3 DEF RaceOver, Over, SomeFailed, AllOk
  <2>8. EndAt(r)'
    BY <1>3, <2>2, <2>3, <2>4, <2>5 DEF RaceOver, EndAt, TypeOKRun, TypeOK
  <2> QED BY <2>1, <2>8, EndOthers
<1>4. ASSUME NEW r \in Runs, FlushOver(r), UNCHANGED <<task, outcome>>
      PROVE  EndOfRun'
  <2>1. \A s \in Runs \ {r} : SameEnd(s)
    BY <1>4 DEF FlushOver, SameEnd, TypeOKRun, TypeOK
  <2>2. EndAt(r)
    BY DEF EndOfRun
  <2>3. /\ phase[r] = "flushing" /\ phase'[r] = "ended" /\ closed'[r]
        /\ outcome' = outcome /\ flush' = flush /\ flush[r] \cap Pending(r) = {}
    BY <1>4 DEF FlushOver, TypeOKRun, TypeOK
  <2>4. SomeFailed(r)' = SomeFailed(r) /\ AllOk(r)' = AllOk(r) /\ Pending(r)' = Pending(r)
    BY <1>4 DEF FlushOver, SomeFailed, AllOk, Pending
  <2>5. errored'[r] <=> ~ AllOk(r)
    BY <1>4 DEF FlushOver, AllOk, TypeOKRun, TypeOK
  <2>6. AllOk(r) => ~ SomeFailed(r)
    BY DEF AllOk, SomeFailed
  <2>8. EndAt(r)'
    BY <1>4, <2>2, <2>3, <2>4, <2>5, <2>6 DEF FlushOver, EndAt, TypeOKRun, TypeOK
  <2> QED BY <2>1, <2>8, EndOthers
<1>5. ASSUME NEW r \in Runs, NEW j \in Jobs, NEW found \in SUBSET (j \X Parts),
             Ready(r, j, found), UNCHANGED <<task, outcome>>
      PROVE  EndOfRun'
  <2>1. \A s \in Runs \ {r} : SameEnd(s)
    BY <1>5 DEF Ready, SameEnd, TypeOKRun, TypeOK
  <2>2. EndAt(r)
    BY DEF EndOfRun
  <2>3. UNCHANGED <<plan, phase, flush, errored, closed, outcome>>
    BY <1>5 DEF Ready, monitorVars
  <2>4. j \in JobsOf(plan[r]) /\ ~ AllOk(r)
    BY <1>5, RunningJob DEF Ready
  <2>5. /\ SomeFailed(r) => SomeFailed(r)'
        /\ phase[r] \in {"flushing", "ended"} => SomeFailed(r)
        /\ Pending(r)' = Pending(r)
    BY <1>5, <2>2, <2>3, <2>4, PlanType DEF Ready, EndAt, SomeFailed, Pending, TypeOKRun, TypeOK
  <2>8. EndAt(r)'
    BY <1>5, <2>2, <2>3, <2>4, <2>5 DEF Ready, EndAt, TypeOKRun, TypeOK
  <2> QED BY <2>1, <2>8, EndOthers
<1>6. ASSUME NEW r \in Runs, NEW j \in Jobs, NEW o \in Ops,
             NewOperation(r, j, o), UNCHANGED <<task, outcome>>
      PROVE  EndOfRun'
  <2>1. UNCHANGED <<plan, phase, job, fiber, flush, errored, closed, outcome>>
    BY <1>6 DEF NewOperation, runVars, monitorVars
  <2> QED BY <2>1, EndOthers DEF SameEnd
<1>7. ASSUME NEW r \in Runs, NEW j \in Jobs, NEW o \in Ops,
             NEW result \in {"changed", "unchanged"},
             OperationDone(r, j, o, result), UNCHANGED <<task, outcome>>
      PROVE  EndOfRun'
  <2>1. \A s \in Runs \ {r} : SameEnd(s)
    BY <1>7 DEF OperationDone, SameEnd, TypeOKRun, TypeOK
  <2>2. EndAt(r)
    BY DEF EndOfRun
  <2>3. UNCHANGED <<plan, phase, flush, errored, closed, outcome>>
    BY <1>7 DEF OperationDone, monitorVars
  <2>4. j \in JobsOf(plan[r]) /\ ~ AllOk(r)
    BY <1>7, RunningJob DEF OperationDone
  <2>5. /\ SomeFailed(r) => SomeFailed(r)'
        /\ phase[r] \in {"flushing", "ended"} => SomeFailed(r)
    BY <1>7, <2>2, <2>3, <2>4, PlanType DEF OperationDone, EndAt, SomeFailed, TypeOKRun, TypeOK
  <2>8. EndAt(r)'
    BY <1>7, <2>2, <2>3, <2>4, <2>5 DEF OperationDone, EndAt, TypeOKRun, TypeOK
  <2> QED BY <2>1, <2>8, EndOthers
<1>8. ASSUME NEW r \in Runs, NEW j \in Jobs, NEW o \in Ops,
             OperationError(r, j, o), UNCHANGED <<task, outcome>>
      PROVE  EndOfRun'
  <2>1. UNCHANGED <<plan, phase, job, fiber, flush, errored, closed, outcome>>
    BY <1>8 DEF OperationError, runVars, monitorVars
  <2> QED BY <2>1, EndOthers DEF SameEnd
<1>9. ASSUME NEW r \in Runs, NEW j \in Jobs, JobSucceeds(r, j),
             UNCHANGED <<task, outcome>>
      PROVE  EndOfRun'
  <2>1. \A s \in Runs \ {r} : SameEnd(s)
    BY <1>9 DEF JobSucceeds, SameEnd, TypeOKRun, TypeOK
  <2>2. EndAt(r)
    BY DEF EndOfRun
  <2>3. UNCHANGED <<plan, phase, flush, errored, closed, outcome>>
    BY <1>9 DEF JobSucceeds, monitorVars
  <2>4. j \in JobsOf(plan[r]) /\ ~ AllOk(r)
    BY <1>9, RunningJob DEF JobSucceeds
  <2>5. /\ SomeFailed(r) => SomeFailed(r)'
        /\ phase[r] \in {"flushing", "ended"} => SomeFailed(r)
        /\ Pending(r)' = Pending(r)
    BY <1>9, <2>2, <2>3, <2>4, PlanType DEF JobSucceeds, EndAt, SomeFailed, Pending, TypeOKRun, TypeOK
  <2>8. EndAt(r)'
    BY <1>9, <2>2, <2>3, <2>4, <2>5 DEF JobSucceeds, EndAt, TypeOKRun, TypeOK
  <2> QED BY <2>1, <2>8, EndOthers
<1>10. ASSUME NEW r \in Runs, NEW j \in Jobs, JobFails(r, j),
              UNCHANGED <<task, outcome>>
       PROVE  EndOfRun'
  <2>1. \A s \in Runs \ {r} : SameEnd(s)
    BY <1>10 DEF JobFails, SameEnd, TypeOKRun, TypeOK
  <2>2. EndAt(r)
    BY DEF EndOfRun
  <2>3. UNCHANGED <<plan, phase, flush, errored, closed, outcome>>
    BY <1>10 DEF JobFails, monitorVars
  <2>4. j \in JobsOf(plan[r]) /\ ~ AllOk(r)
    BY <1>10, RunningJob DEF JobFails
  <2>5. /\ SomeFailed(r) => SomeFailed(r)'
        /\ phase[r] \in {"flushing", "ended"} => SomeFailed(r)
        /\ Pending(r)' = Pending(r)
    BY <1>10, <2>2, <2>3, <2>4, PlanType DEF JobFails, EndAt, SomeFailed, Pending, TypeOKRun, TypeOK
  <2>8. EndAt(r)'
    BY <1>10, <2>2, <2>3, <2>4, <2>5 DEF JobFails, EndAt, TypeOKRun, TypeOK
  <2> QED BY <2>1, <2>8, EndOthers
<1>11. ASSUME NEW r \in Runs, NEW o \in Ops, DoneFiber(r, o),
              UNCHANGED <<task, outcome>>
       PROVE  EndOfRun'
  <2>1. \A s \in Runs \ {r} : SameEnd(s)
    BY <1>11 DEF DoneFiber, SameEnd, TypeOKRun, TypeOK
  <2>2. EndAt(r)
    BY DEF EndOfRun
  <2>3. UNCHANGED <<plan, phase, job, flush, errored, closed, outcome>>
    BY <1>11 DEF DoneFiber, monitorVars
  <2>4. SomeFailed(r)' = SomeFailed(r) /\ AllOk(r)' = AllOk(r)
    BY <2>3 DEF SomeFailed, AllOk
  <2>5. Pending(r)' \subseteq Pending(r)
    BY <1>11 DEF DoneFiber, Pending, TypeOKRun, TypeOK
  <2>8. EndAt(r)'
    BY <1>11, <2>2, <2>3, <2>4, <2>5 DEF DoneFiber, EndAt, TypeOKRun, TypeOK
  <2> QED BY <2>1, <2>8, EndOthers
<1>12. ASSUME NEW e \in Entries, CancelTask(e), UNCHANGED <<task, outcome>>
       PROVE  EndOfRun'
  <2>1. UNCHANGED <<plan, phase, job, fiber, flush, errored, closed, outcome>>
    BY <1>12 DEF CancelTask, runVars, monitorVars
  <2> QED BY <2>1, EndOthers DEF SameEnd
<1>13. ASSUME NEW i \in Installations, ForeignChange(i), UNCHANGED <<task, outcome>>
       PROVE  EndOfRun'
  <2>1. UNCHANGED <<plan, phase, job, fiber, flush, errored, closed, outcome>>
    BY <1>13 DEF ForeignChange, runVars, monitorVars
  <2> QED BY <2>1, EndOthers DEF SameEnd
<1>14. ASSUME NEW i \in Installations, InstallationEvent(i), UNCHANGED <<task, outcome>>
       PROVE  EndOfRun'
  <2>1. UNCHANGED <<plan, phase, job, fiber, flush, errored, closed, outcome>>
    BY <1>14 DEF InstallationEvent, runVars, monitorVars
  <2> QED BY <2>1, EndOthers DEF SameEnd
<1>15. ASSUME NEW r \in Runs, NEW p \in Plans, Begin(r, p)
       PROVE  EndOfRun'
  <2>1. \A s \in Runs \ {r} : SameEnd(s)
    BY <1>15 DEF Begin, Schedule, vars, runVars, monitorVars, SameEnd, TypeOKRun, TypeOK
  <2>2. EndAt(r)
    BY DEF EndOfRun
  <2>3. phase'[r] = "building" /\ closed'[r] = closed[r] /\ outcome'[r] = "running"
    BY <1>15 DEF Begin, Schedule, TypeOKRun, TypeOK
  <2>8. EndAt(r)'
    BY <1>15, <2>2, <2>3 DEF Begin, Schedule, EndAt, TypeOKRun, TypeOK
  <2> QED BY <2>1, <2>8, EndOthers
<1>16. ASSUME NEW r \in Runs, Receive(r)
       PROVE  EndOfRun'
  <2>1. UNCHANGED <<plan, phase, job, fiber, flush, errored, closed, outcome>>
    BY <1>16 DEF Receive, runVars, monitorVars
  <2> QED BY <2>1, EndOthers DEF SameEnd
<1>17. ASSUME NEW r \in Runs, Conclude(r)
       PROVE  EndOfRun'
  <2>1. \A s \in Runs \ {r} : SameEnd(s)
    BY <1>17 DEF Conclude, vars, runVars, monitorVars, SameEnd, TypeOKRun, TypeOK
  <2>2. EndAt(r)
    BY DEF EndOfRun
  <2>3. /\ outcome[r] = "running" /\ closed[r] /\ UNCHANGED vars
        /\ outcome'[r] = IF phase[r] = "ended" /\ ~ errored[r] THEN "success" ELSE "failure"
    BY <1>17 DEF Conclude, TypeOKRun, TypeOK
  <2>4. SomeFailed(r)' = SomeFailed(r) /\ AllOk(r)' = AllOk(r) /\ Pending(r)' = Pending(r)
    BY <2>3 DEF SomeFailed, AllOk, Pending, vars
  <2>8. EndAt(r)'
    BY <1>17, <2>2, <2>3, <2>4 DEF Conclude, EndAt, TypeOKRun, TypeOK, vars
  <2> QED BY <2>1, <2>8, EndOthers
<1>18. CASE UNCHANGED allVars
  BY <1>18, EndOthers DEF allVars, vars, SameEnd
<1> QED
  BY <1>0, <1>1, <1>2, <1>3, <1>4, <1>5, <1>6, <1>7, <1>8, <1>9,
     <1>10, <1>11, <1>12, <1>13, <1>14, <1>15, <1>16, <1>17, <1>18
     DEF NextRun, Backend, BackendStep, RunStep, JobStep

-----------------------------------------------------------------------------
(* Places in a channel *)

\* A message of an operation that is sent after the others.
LEMMA AppendOwn ==
    ASSUME NEW s \in Seq(Message), NEW o \in Ops, NEW error \in BOOLEAN,
           NEW m, m = [op |-> o, error |-> error]
    PROVE  /\ Nowhere(s, o) => Once(Append(s, m), o, error)
           /\ Once(s, o, FALSE) => Twice(Append(s, m), o, error)
<1> DEFINE t == Append(s, m)
<1>1. m \in Message
  BY DEF Message
<1>2. /\ Len(t) = Len(s) + 1 /\ t[Len(s) + 1] = m /\ Len(s) \in Nat
      /\ \A i \in 1..Len(s) : t[i] = s[i]
  BY <1>1
<1> HIDE DEF t
<1>3. ASSUME Nowhere(s, o)
      PROVE  Once(t, o, error)
  <2>1. \A k \in 1..Len(t) \ {Len(s) + 1} : t[k].op # o
    BY <1>2, <1>3 DEF Nowhere
  <2> QED BY <1>2, <2>1 DEF Once
<1>4. ASSUME Once(s, o, FALSE)
      PROVE  Twice(t, o, error)
  <2>1. PICK i \in 1..Len(s) : /\ s[i] = [op |-> o, error |-> FALSE]
                               /\ \A k \in 1..Len(s) \ {i} : s[k].op # o
    BY <1>4 DEF Once
  <2>2. /\ i \in 1..Len(t) /\ Len(s) + 1 \in 1..Len(t) /\ i < Len(s) + 1
        /\ t[i] = [op |-> o, error |-> FALSE] /\ t[Len(s) + 1] = m
    BY <1>2, <2>1
  <2>3. \A k \in 1..Len(t) \ {i, Len(s) + 1} : t[k].op # o
    BY <1>2, <2>1
  <2> QED BY <2>2, <2>3 DEF Twice
<1> QED BY <1>3, <1>4 DEF t

\* A message leaves the places of other operations' messages.
LEMMA AppendOther ==
    ASSUME NEW s \in Seq(Message), NEW o \in Ops, NEW error \in BOOLEAN,
           NEW m \in Message, m.op # o
    PROVE  /\ Nowhere(s, o) => Nowhere(Append(s, m), o)
           /\ Once(s, o, error) => Once(Append(s, m), o, error)
           /\ Twice(s, o, error) => Twice(Append(s, m), o, error)
<1> DEFINE t == Append(s, m)
<1>2. /\ Len(t) = Len(s) + 1 /\ t[Len(s) + 1] = m /\ Len(s) \in Nat
      /\ \A i \in 1..Len(s) : t[i] = s[i]
  OBVIOUS
<1> HIDE DEF t
<1>3. ASSUME Nowhere(s, o)
      PROVE  Nowhere(t, o)
  BY <1>2, <1>3 DEF Nowhere
<1>4. ASSUME Once(s, o, error)
      PROVE  Once(t, o, error)
  <2>1. PICK i \in 1..Len(s) : /\ s[i] = [op |-> o, error |-> error]
                               /\ \A k \in 1..Len(s) \ {i} : s[k].op # o
    BY <1>4 DEF Once
  <2>2. i \in 1..Len(t) /\ t[i] = [op |-> o, error |-> error]
    BY <1>2, <2>1
  <2>3. \A k \in 1..Len(t) \ {i} : t[k].op # o
    BY <1>2, <2>1
  <2> QED BY <2>2, <2>3 DEF Once
<1>5. ASSUME Twice(s, o, error)
      PROVE  Twice(t, o, error)
  <2>1. PICK i \in 1..Len(s), j \in 1..Len(s) :
           /\ i < j
           /\ s[i] = [op |-> o, error |-> FALSE]
           /\ s[j] = [op |-> o, error |-> error]
           /\ \A k \in 1..Len(s) \ {i, j} : s[k].op # o
    BY <1>5 DEF Twice
  <2>2. /\ i \in 1..Len(t) /\ j \in 1..Len(t)
        /\ t[i] = [op |-> o, error |-> FALSE] /\ t[j] = [op |-> o, error |-> error]
    BY <1>2, <2>1
  <2>3. \A k \in 1..Len(t) \ {i, j} : t[k].op # o
    BY <1>2, <2>1
  <2> QED BY <2>1, <2>2, <2>3 DEF Twice
<1> QED BY <1>3, <1>4, <1>5 DEF t

\* The message that is received is one of another operation, or the first
\* of this one.
LEMMA TailOther ==
    ASSUME NEW s \in Seq(Message), s # <<>>, NEW o \in Ops, NEW error \in BOOLEAN,
           Head(s).op # o
    PROVE  /\ Nowhere(s, o) => Nowhere(Tail(s), o)
           /\ Once(s, o, error) => Once(Tail(s), o, error)
           /\ Twice(s, o, error) => Twice(Tail(s), o, error)
<1> DEFINE t == Tail(s)
<1>1. /\ Len(s) \in Nat \ {0} /\ Len(t) = Len(s) - 1 /\ s[1].op # o
      /\ \A i \in 1..Len(t) : t[i] = s[i + 1]
  OBVIOUS
<1> HIDE DEF t
<1>2. \A i \in 2..Len(s) : i - 1 \in 1..Len(t) /\ t[i - 1] = s[i]
  BY <1>1
<1>3. ASSUME Nowhere(s, o)
      PROVE  Nowhere(t, o)
  BY <1>1, <1>3 DEF Nowhere
<1>4. ASSUME Once(s, o, error)
      PROVE  Once(t, o, error)
  <2>1. PICK i \in 1..Len(s) : /\ s[i] = [op |-> o, error |-> error]
                               /\ \A k \in 1..Len(s) \ {i} : s[k].op # o
    BY <1>4 DEF Once
  <2>2. i \in 2..Len(s)
    BY <1>1, <2>1
  <2>3. i - 1 \in 1..Len(t) /\ t[i - 1] = [op |-> o, error |-> error]
    BY <1>2, <2>1, <2>2
  <2>4. ASSUME NEW k \in 1..Len(t) \ {i - 1}
        PROVE  t[k].op # o
    <3>1. k + 1 \in 1..Len(s) \ {i}
      BY <1>1, <2>2
    <3> QED BY <1>1, <2>1, <3>1
  <2> QED BY <2>3, <2>4 DEF Once
<1>5. ASSUME Twice(s, o, error)
      PROVE  Twice(t, o, error)
  <2>1. PICK i \in 1..Len(s), j \in 1..Len(s) :
           /\ i < j
           /\ s[i] = [op |-> o, error |-> FALSE]
           /\ s[j] = [op |-> o, error |-> error]
           /\ \A k \in 1..Len(s) \ {i, j} : s[k].op # o
    BY <1>5 DEF Twice
  <2>2. i \in 2..Len(s) /\ j \in 2..Len(s)
    BY <1>1, <2>1
  <2>3. /\ i - 1 \in 1..Len(t) /\ j - 1 \in 1..Len(t) /\ i - 1 < j - 1
        /\ t[i - 1] = [op |-> o, error |-> FALSE]
        /\ t[j - 1] = [op |-> o, error |-> error]
    BY <1>2, <2>1, <2>2
  <2>4. ASSUME NEW k \in 1..Len(t) \ {i - 1, j - 1}
        PROVE  t[k].op # o
    <3>1. k + 1 \in 1..Len(s) \ {i, j}
      BY <1>1, <2>2
    <3> QED BY <1>1, <2>1, <3>1
  <2> QED BY <2>3, <2>4 DEF Twice
<1> QED BY <1>3, <1>4, <1>5 DEF t

\* The message that is received is the first of its operation.
LEMMA TailOwn ==
    ASSUME NEW s \in Seq(Message), s # <<>>, NEW o \in Ops, NEW error \in BOOLEAN,
           Head(s).op = o
    PROVE  /\ ~ Nowhere(s, o)
           /\ Once(s, o, error) =>
                 Head(s) = [op |-> o, error |-> error] /\ Nowhere(Tail(s), o)
           /\ Twice(s, o, error) => Once(Tail(s), o, error)
<1> DEFINE t == Tail(s)
<1>1. /\ Len(s) \in Nat \ {0} /\ Len(t) = Len(s) - 1 /\ s[1].op = o /\ Head(s) = s[1]
      /\ \A i \in 1..Len(t) : t[i] = s[i + 1]
  OBVIOUS
<1> HIDE DEF t
<1>2. ~ Nowhere(s, o)
  BY <1>1 DEF Nowhere
<1>3. ASSUME Once(s, o, error)
      PROVE  Head(s) = [op |-> o, error |-> error] /\ Nowhere(t, o)
  <2>1. PICK i \in 1..Len(s) : /\ s[i] = [op |-> o, error |-> error]
                               /\ \A k \in 1..Len(s) \ {i} : s[k].op # o
    BY <1>3 DEF Once
  <2>2. i = 1
    BY <1>1, <2>1
  <2>3. ASSUME NEW k \in 1..Len(t)
        PROVE  t[k].op # o
    <3>1. k + 1 \in 1..Len(s) \ {i}
      BY <1>1, <2>2
    <3> QED BY <1>1, <2>1, <3>1
  <2> QED BY <1>1, <2>1, <2>2, <2>3 DEF Nowhere
<1>4. ASSUME Twice(s, o, error)
      PROVE  Once(t, o, error)
  <2>1. PICK i \in 1..Len(s), j \in 1..Len(s) :
           /\ i < j
           /\ s[i] = [op |-> o, error |-> FALSE]
           /\ s[j] = [op |-> o, error |-> error]
           /\ \A k \in 1..Len(s) \ {i, j} : s[k].op # o
    BY <1>4 DEF Twice
  <2>2. i = 1 /\ j - 1 \in 1..Len(t)
    BY <1>1, <2>1
  <2>3. t[j - 1] = [op |-> o, error |-> error]
    BY <1>1, <2>1, <2>2
  <2>4. ASSUME NEW k \in 1..Len(t) \ {j - 1}
        PROVE  t[k].op # o
    <3>1. k + 1 \in 1..Len(s) \ {i, j}
      BY <1>1, <2>1, <2>2
    <3> QED BY <1>1, <2>1, <3>1
  <2> QED BY <1>1, <2>1, <2>2, <2>3, <2>4 DEF Once
<1> QED BY <1>2, <1>3, <1>4 DEF t

-----------------------------------------------------------------------------
(* The channel *)

\* What the channel and the tasks tell of an operation stays.
SameChannel(r, o) ==
    /\ outcome'[r] = outcome[r] /\ task'[r][o] = task[r][o] /\ sent'[r] = sent[r]
    /\ \/ op'[r][o] = op[r][o]
       \/ {op[r][o], op'[r][o]} \subseteq {"none", "listed"}
    /\ closed[r] => closed'[r]
    /\ SomeFailed(r) => SomeFailed(r)'

\* A step that disturbs ChannelAt of no operation keeps Channel.
LEMMA ChannelOthers ==
    ASSUME Channel, \A r \in Runs, o \in Ops : SameChannel(r, o) \/ ChannelAt(r, o)'
    PROVE  Channel'
<1>1. ASSUME NEW r \in Runs, NEW o \in Ops, SameChannel(r, o)
      PROVE  ChannelAt(r, o)'
  <2>1. ChannelAt(r, o)
    BY DEF Channel
  <2>2. /\ Untold(r, o) => Untold(r, o)'
        /\ Announced(r, o) => Announced(r, o)'
        /\ \A error \in BOOLEAN : Settled(r, o, error) => Settled(r, o, error)'
    BY <1>1 DEF SameChannel, Untold, Announced, Settled
  <2>3. Partly(r, o) => Partly(r, o)'
    BY <2>2 DEF Partly
  <2>4. Told(r, o) => Told(r, o)'
    BY <1>1, <2>2 DEF SameChannel, Told
  <2> QED BY <1>1, <2>1, <2>2, <2>3, <2>4 DEF SameChannel, ChannelAt
<1> QED BY <1>1 DEF Channel

\* A job sends a payload for one of its operations.
LEMMA SendStep ==
    ASSUME TypeOKRun, JobsPlanned, EndOfRun, Channel,
           NEW r \in Runs, NEW j \in Jobs, job[r][j] = "running",
           NEW o \in Ops, NEW error \in BOOLEAN,
           Send(r, [op |-> o, error |-> error]),
           UNCHANGED <<plan, job, task, outcome, closed>>,
           \A s \in Runs, k \in Ops : s # r \/ k # o => op'[s][k] = op[s][k],
           \/ op[r][o] = "listed" /\ op'[r][o] = "announced" /\ error = FALSE
           \/ /\ op[r][o] = "announced" /\ error = FALSE
              /\ op'[r][o] \in {"changed", "unchanged"}
           \/ op[r][o] = "announced" /\ op'[r][o] = "error" /\ error = TRUE
    PROVE  Channel'
<1> DEFINE m == [op |-> o, error |-> error]
<1>0. m \in Message /\ m.op = o
  BY DEF Message
<1>1. sent[r] \in Seq(Message) /\ SomeFailed(r)' = SomeFailed(r)
  BY DEF TypeOKRun, TypeOK, SomeFailed
<1>2. phase[r] \in {"racing", "flushing", "ended"} /\ ~ AllOk(r) /\ EndAt(r)
  BY RunningJob DEF EndOfRun
<1>3. outcome[r] # "none" /\ (closed[r] => SomeFailed(r))
  BY <1>2 DEF EndAt
<1>4. \A s \in Runs : SomeFailed(s)' = SomeFailed(s)
  BY DEF SomeFailed
<1>5. ChannelAt(r, o)
  BY DEF Channel
<1>6. CASE closed[r]
  <2>1. sent' = sent
    BY <1>6 DEF Send
  <2>2. \A s \in Runs, k \in Ops : s # r \/ k # o => SameChannel(s, k)
    BY <1>4, <2>1 DEF SameChannel
  <2>3. outcome[r] = "running" => Partly(r, o)
    BY <1>5 DEF ChannelAt, Told, Partly
  <2>4. Partly(r, o)' = Partly(r, o)
    BY <2>1 DEF Partly, Untold, Announced, Settled
  <2>5. ChannelAt(r, o)'
    BY <1>1, <1>3, <1>6, <2>3, <2>4 DEF ChannelAt
  <2> QED BY <2>2, <2>5, ChannelOthers
<1>7. CASE ~ closed[r]
  <2>1. sent'[r] = Append(sent[r], m) /\ \A s \in Runs \ {r} : sent'[s] = sent[s]
    BY <1>7 DEF Send, TypeOKRun, TypeOK
  <2>2. \A s \in Runs \ {r}, k \in Ops : SameChannel(s, k)
    BY <1>4, <2>1 DEF SameChannel
  <2>3. ASSUME NEW k \in Ops \ {o}
        PROVE  ChannelAt(r, k)'
    <3>1. ChannelAt(r, k)
      BY DEF Channel
    <3>2. /\ Untold(r, k) => Untold(r, k)'
          /\ Announced(r, k) => Announced(r, k)'
          /\ \A x \in BOOLEAN : Settled(r, k, x) => Settled(r, k, x)'
      BY <1>0, <1>1, <2>1, <2>3, AppendOther DEF Untold, Announced, Settled
    <3>3. Told(r, k) => Told(r, k)'
      BY <3>2 DEF Told
    <3> QED BY <1>3, <1>7, <3>1, <3>3 DEF ChannelAt
  <2>4. ASSUME outcome[r] = "running"
        PROVE  Told(r, o)'
    <3>1. Told(r, o)
      BY <1>5, <1>7, <2>4 DEF ChannelAt
    <3>2. CASE op[r][o] = "listed"
      <4>1. Untold(r, o)
        BY <3>1, <3>2 DEF Told
      <4>2. Announced(r, o)'
        BY <1>1, <2>1, <3>2, <4>1, AppendOwn DEF Untold, Announced
      <4> QED BY <3>2, <4>2 DEF Told
    <3>3. CASE op[r][o] = "announced"
      <4>1. Announced(r, o)
        BY <3>1, <3>3 DEF Told
      <4>2. Settled(r, o, error)'
        BY <1>1, <2>1, <4>1, AppendOwn DEF Announced, Settled
      <4> QED BY <3>3, <4>2 DEF Told
    <3> QED BY <3>2, <3>3
  <2>5. ChannelAt(r, o)'
    BY <1>3, <2>4 DEF ChannelAt
  <2> QED BY <2>2, <2>3, <2>5, ChannelOthers
<1> QED BY <1>6, <1>7

\* A receipt moves an operation on from the channel to its task.
LEMMA ReceiveStep ==
    ASSUME TypeOKRun, Channel, NEW r \in Runs, Receive(r)
    PROVE  Channel'
<1> DEFINE h == Head(sent[r]).op
<1>1. /\ sent[r] \in Seq(Message) /\ sent[r] # <<>> /\ outcome[r] = "running"
      /\ UNCHANGED <<plan, job, op, closed, outcome>>
  BY DEF Receive, TypeOKRun, TypeOK
<1>2. sent'[r] = Tail(sent[r]) /\ \A s \in Runs \ {r} : sent'[s] = sent[s]
  BY DEF Receive, TypeOKRun, TypeOK
<1>3. h \in Ops
  <2>1. Head(sent[r]) \in Message
    BY <1>1
  <2> QED BY <2>1 DEF Message
<1>4. task'[r][h] = IF task[r][h] # "current" THEN "current"
                    ELSE IF Head(sent[r]).error THEN "failed" ELSE "finished"
  BY <1>3 DEF Receive, TypeOKRun
<1>5. \A s \in Runs, k \in Ops : s # r \/ k # h => task'[s][k] = task[s][k]
  BY <1>3 DEF Receive, TypeOKRun
<1>6. \A s \in Runs : SomeFailed(s)' = SomeFailed(s)
  BY <1>1 DEF SomeFailed
<1>7. \A s \in Runs \ {r}, k \in Ops : SameChannel(s, k)
  BY <1>1, <1>2, <1>5, <1>6 DEF SameChannel
<1>8. ASSUME NEW k \in Ops
      PROVE  /\ Untold(r, k) => Untold(r, k)'
             /\ Announced(r, k) => Announced(r, k)'
             /\ \A x \in BOOLEAN : Settled(r, k, x) => Settled(r, k, x)'
  <2> HIDE DEF h
  <2>1. CASE k = h
    <3>1. Head(sent[r]).op = k
      BY <2>1 DEF h
    <3>2. ~ Nowhere(sent[r], k)
      BY <1>1, <3>1, TailOwn
    <3>3. ~ Untold(r, k)
      BY <3>2 DEF Untold
    <3>4. ASSUME Announced(r, k)
          PROVE  Announced(r, k)'
      <4>1. task[r][k] = "none" /\ Once(sent[r], k, FALSE)
        BY <3>2, <3>4 DEF Announced
      <4>2. Nowhere(Tail(sent[r]), k)
        BY <1>1, <3>1, <4>1, TailOwn
      <4> QED BY <1>2, <1>4, <2>1, <4>1, <4>2 DEF Announced
    <3>5. /\ Once(sent[r], k, TRUE) =>
                Head(sent[r]) = [op |-> k, error |-> TRUE] /\ Nowhere(Tail(sent[r]), k)
          /\ Twice(sent[r], k, TRUE) => Once(Tail(sent[r]), k, TRUE)
      BY <1>1, <3>1, TailOwn
    <3>6. /\ Once(sent[r], k, FALSE) =>
                Head(sent[r]) = [op |-> k, error |-> FALSE] /\ Nowhere(Tail(sent[r]), k)
          /\ Twice(sent[r], k, FALSE) => Once(Tail(sent[r]), k, FALSE)
      BY <1>1, <3>1, TailOwn
    <3>7. Settled(r, k, TRUE) => Settled(r, k, TRUE)'
      <4>1. Head(sent[r]) = [op |-> k, error |-> TRUE] =>
               task'[r][k] = IF task[r][k] # "current" THEN "current" ELSE "failed"
        BY <1>4, <2>1
      <4>2. Settled(r, k, TRUE) <=>
               \/ task[r][k] = "none" /\ Twice(sent[r], k, TRUE)
               \/ task[r][k] = "current" /\ Once(sent[r], k, TRUE)
        BY <3>2 DEF Settled
      <4> QED BY <1>2, <1>4, <2>1, <3>5, <4>1, <4>2 DEF Settled
    <3>8. Settled(r, k, FALSE) => Settled(r, k, FALSE)'
      <4>1. Head(sent[r]) = [op |-> k, error |-> FALSE] =>
               task'[r][k] = IF task[r][k] # "current" THEN "current" ELSE "finished"
        BY <1>4, <2>1
      <4>2. Settled(r, k, FALSE) <=>
               \/ task[r][k] = "none" /\ Twice(sent[r], k, FALSE)
               \/ task[r][k] = "current" /\ Once(sent[r], k, FALSE)
        BY <3>2 DEF Settled
      <4> QED BY <1>2, <1>4, <2>1, <3>6, <4>1, <4>2 DEF Settled
    <3>9. ASSUME NEW x \in BOOLEAN, Settled(r, k, x)
          PROVE  Settled(r, k, x)'
      <4>1. CASE x = TRUE
        BY <3>7, <3>9, <4>1
      <4>2. CASE x = FALSE
        BY <3>8, <3>9, <4>2
      <4> QED BY <4>1, <4>2
    <3> QED BY <3>3, <3>4, <3>9
  <2>2. CASE k # h
    <3>1. Head(sent[r]).op # k
      BY <2>2 DEF h
    <3>2. /\ Nowhere(sent[r], k) => Nowhere(sent'[r], k)
          /\ \A x \in BOOLEAN : Once(sent[r], k, x) => Once(sent'[r], k, x)
          /\ \A x \in BOOLEAN : Twice(sent[r], k, x) => Twice(sent'[r], k, x)
      BY <1>1, <1>2, <3>1, TailOther
    <3>3. task'[r][k] = task[r][k]
      BY <1>5, <2>2
    <3> QED BY <3>2, <3>3 DEF Untold, Announced, Settled
  <2> QED BY <2>1, <2>2
<1>9. ASSUME NEW k \in Ops
      PROVE  ChannelAt(r, k)'
  <2>1. ChannelAt(r, k)
    BY DEF Channel
  <2>2. Told(r, k) => Told(r, k)'
    BY <1>1, <1>8 DEF Told
  <2>3. Partly(r, k) => Partly(r, k)'
    BY <1>8 DEF Partly
  <2> QED BY <1>1, <1>6, <2>1, <2>2, <2>3 DEF ChannelAt
<1> QED BY <1>7, <1>9, ChannelOthers

\* Every step keeps what the channel tells.
LEMMA ChannelStep ==
    ASSUME TypeOKRun, JobsPlanned, OpsOwned, EndOfRun, Channel, [NextRun]_allVars
    PROVE  Channel'
<1>0. ASSUME NEW r \in Runs, NEW e \in Bundles, NEW adds \in BOOLEAN,
             EnsureRemote(r, e, adds), UNCHANGED <<task, outcome>>
      PROVE  Channel'
  <2>1. UNCHANGED <<sent, task, outcome>>
    BY <1>0 DEF EnsureRemote, runVars
  <2>2. \A s \in Runs : (closed[s] => closed'[s]) /\ (SomeFailed(s) => SomeFailed(s)')
    BY <1>0 DEF EnsureRemote, SomeFailed, TypeOKRun, TypeOK, runVars
  <2>3. \A s \in Runs, k \in Ops :
           \/ op'[s][k] = op[s][k]
           \/ {op[s][k], op'[s][k]} \subseteq {"none", "listed"}
    BY <1>0 DEF EnsureRemote, runVars
  <2> QED BY <2>1, <2>2, <2>3, ChannelOthers DEF SameChannel
<1>1. ASSUME NEW r \in Runs, BuildFails(r), UNCHANGED <<task, outcome>>
      PROVE  Channel'
  <2>1. UNCHANGED <<sent, task, outcome>>
    BY <1>1 DEF BuildFails, runVars
  <2>2. \A s \in Runs : (closed[s] => closed'[s]) /\ (SomeFailed(s) => SomeFailed(s)')
    BY <1>1 DEF BuildFails, SomeFailed, TypeOKRun, TypeOK, runVars
  <2>3. \A s \in Runs, k \in Ops :
           \/ op'[s][k] = op[s][k]
           \/ {op[s][k], op'[s][k]} \subseteq {"none", "listed"}
    BY <1>1 DEF BuildFails, runVars
  <2> QED BY <2>1, <2>2, <2>3, ChannelOthers DEF SameChannel
<1>2. ASSUME NEW r \in Runs, Launch(r), UNCHANGED <<task, outcome>>
      PROVE  Channel'
  <2>1. UNCHANGED <<sent, task, outcome, op, closed, plan>>
    BY <1>2 DEF Launch
  <2>2. \A k \in Jobs : job[r][k] = "none"
    BY <1>2 DEF Launch, JobsPlanned
  <2>3. \A s \in Runs : SomeFailed(s) => SomeFailed(s)'
    BY <1>2, <2>1, <2>2, PlanType DEF Launch, SomeFailed, TypeOKRun, TypeOK
  <2> QED BY <2>1, <2>3, ChannelOthers DEF SameChannel
<1>3. ASSUME NEW r \in Runs, RaceOver(r), UNCHANGED <<task, outcome>>
      PROVE  Channel'
  <2>1. UNCHANGED <<sent, task, outcome>>
    BY <1>3 DEF RaceOver, runVars
  <2>2. \A s \in Runs : (closed[s] => closed'[s]) /\ (SomeFailed(s) => SomeFailed(s)')
    BY <1>3 DEF RaceOver, SomeFailed, TypeOKRun, TypeOK, runVars
  <2>3. \A s \in Runs, k \in Ops :
           \/ op'[s][k] = op[s][k]
           \/ {op[s][k], op'[s][k]} \subseteq {"none", "listed"}
    BY <1>3 DEF RaceOver, runVars
  <2> QED BY <2>1, <2>2, <2>3, ChannelOthers DEF SameChannel
<1>4. ASSUME NEW r \in Runs, FlushOver(r), UNCHANGED <<task, outcome>>
      PROVE  Channel'
  <2>1. UNCHANGED <<sent, task, outcome>>
    BY <1>4 DEF FlushOver, runVars
  <2>2. \A s \in Runs : (closed[s] => closed'[s]) /\ (SomeFailed(s) => SomeFailed(s)')
    BY <1>4 DEF FlushOver, SomeFailed, TypeOKRun, TypeOK, runVars
  <2>3. \A s \in Runs, k \in Ops :
           \/ op'[s][k] = op[s][k]
           \/ {op[s][k], op'[s][k]} \subseteq {"none", "listed"}
    BY <1>4 DEF FlushOver, runVars
  <2> QED BY <2>1, <2>2, <2>3, ChannelOthers DEF SameChannel
<1>5. ASSUME NEW r \in Runs, NEW j \in Jobs, NEW found \in SUBSET (j \X Parts),
             Ready(r, j, found), UNCHANGED <<task, outcome>>
      PROVE  Channel'
  <2>1. UNCHANGED <<sent, task, outcome, closed, plan>>
    BY <1>5 DEF Ready
  <2>2. \A s \in Runs : SomeFailed(s) => SomeFailed(s)'
    BY <1>5, <2>1 DEF Ready, SomeFailed, TypeOKRun, TypeOK
  <2>3. \A s \in Runs, k \in Ops : op'[s][k] = IF s = r /\ k \in found THEN "listed" ELSE op[s][k]
    BY <1>5 DEF Ready, TypeOKRun, TypeOK
  <2>4. \A k \in found : op[r][k] = "none"
    <3>1. \A k \in found : k \in Ops /\ k[1] \in j
      BY DEF Ops, Jobs
    <3> QED BY <1>5, <3>1, JobOfOp DEF Ready
  <2> QED BY <2>1, <2>2, <2>3, <2>4, ChannelOthers DEF SameChannel
<1>6. ASSUME NEW r \in Runs, NEW j \in Jobs, NEW o \in Ops,
             NewOperation(r, j, o), UNCHANGED <<task, outcome>>
      PROVE  Channel'
  <2>1. UNCHANGED <<plan, job, task, outcome, closed>>
    BY <1>6 DEF NewOperation
  <2>2. \A s \in Runs, k \in Ops : op'[s][k] = IF s = r /\ k = o THEN "announced" ELSE op[s][k]
    BY <1>6 DEF NewOperation, TypeOKRun, TypeOK
  <2>3. job[r][j] = "running" /\ op[r][o] = "listed" /\ Send(r, [op |-> o, error |-> FALSE])
    BY <1>6 DEF NewOperation
  <2> QED BY <2>1, <2>2, <2>3, SendStep
<1>7. ASSUME NEW r \in Runs, NEW j \in Jobs, NEW o \in Ops,
             NEW result \in {"changed", "unchanged"},
             OperationDone(r, j, o, result), UNCHANGED <<task, outcome>>
      PROVE  Channel'
  <2>1. UNCHANGED <<plan, job, task, outcome, closed>>
    BY <1>7 DEF OperationDone
  <2>2. \A s \in Runs, k \in Ops : op'[s][k] = IF s = r /\ k = o THEN result ELSE op[s][k]
    BY <1>7 DEF OperationDone, TypeOKRun, TypeOK
  <2>3. job[r][j] = "running" /\ op[r][o] = "announced" /\ Send(r, [op |-> o, error |-> FALSE])
    BY <1>7 DEF OperationDone
  <2> QED BY <2>1, <2>2, <2>3, SendStep
<1>8. ASSUME NEW r \in Runs, NEW j \in Jobs, NEW o \in Ops,
             OperationError(r, j, o), UNCHANGED <<task, outcome>>
      PROVE  Channel'
  <2>1. UNCHANGED <<plan, job, task, outcome, closed>>
    BY <1>8 DEF OperationError
  <2>2. \A s \in Runs, k \in Ops : op'[s][k] = IF s = r /\ k = o THEN "error" ELSE op[s][k]
    BY <1>8 DEF OperationError, TypeOKRun, TypeOK
  <2>3. job[r][j] = "running" /\ op[r][o] = "announced" /\ Send(r, [op |-> o, error |-> TRUE])
    BY <1>8 DEF OperationError
  <2> QED BY <2>1, <2>2, <2>3, SendStep
<1>9. ASSUME NEW r \in Runs, NEW j \in Jobs, JobSucceeds(r, j),
             UNCHANGED <<task, outcome>>
      PROVE  Channel'
  <2>1. UNCHANGED <<sent, task, outcome>>
    BY <1>9 DEF JobSucceeds, runVars
  <2>2. \A s \in Runs : (closed[s] => closed'[s]) /\ (SomeFailed(s) => SomeFailed(s)')
    BY <1>9 DEF JobSucceeds, SomeFailed, TypeOKRun, TypeOK, runVars
  <2>3. \A s \in Runs, k \in Ops :
           \/ op'[s][k] = op[s][k]
           \/ {op[s][k], op'[s][k]} \subseteq {"none", "listed"}
    BY <1>9 DEF JobSucceeds, runVars
  <2> QED BY <2>1, <2>2, <2>3, ChannelOthers DEF SameChannel
<1>10. ASSUME NEW r \in Runs, NEW j \in Jobs, JobFails(r, j),
              UNCHANGED <<task, outcome>>
       PROVE  Channel'
  <2>1. UNCHANGED <<sent, task, outcome>>
    BY <1>10 DEF JobFails, runVars
  <2>2. \A s \in Runs : (closed[s] => closed'[s]) /\ (SomeFailed(s) => SomeFailed(s)')
    BY <1>10 DEF JobFails, SomeFailed, TypeOKRun, TypeOK, runVars
  <2>3. \A s \in Runs, k \in Ops :
           \/ op'[s][k] = op[s][k]
           \/ {op[s][k], op'[s][k]} \subseteq {"none", "listed"}
    BY <1>10 DEF JobFails, runVars
  <2> QED BY <2>1, <2>2, <2>3, ChannelOthers DEF SameChannel
<1>11. ASSUME NEW r \in Runs, NEW o \in Ops, DoneFiber(r, o),
              UNCHANGED <<task, outcome>>
       PROVE  Channel'
  <2>1. UNCHANGED <<sent, task, outcome>>
    BY <1>11 DEF DoneFiber, runVars
  <2>2. \A s \in Runs : (closed[s] => closed'[s]) /\ (SomeFailed(s) => SomeFailed(s)')
    BY <1>11 DEF DoneFiber, SomeFailed, TypeOKRun, TypeOK, runVars
  <2>3. \A s \in Runs, k \in Ops :
           \/ op'[s][k] = op[s][k]
           \/ {op[s][k], op'[s][k]} \subseteq {"none", "listed"}
    BY <1>11 DEF DoneFiber, runVars
  <2> QED BY <2>1, <2>2, <2>3, ChannelOthers DEF SameChannel
<1>12. ASSUME NEW e \in Entries, CancelTask(e), UNCHANGED <<task, outcome>>
       PROVE  Channel'
  <2>1. UNCHANGED <<sent, task, outcome>>
    BY <1>12 DEF CancelTask, runVars
  <2>2. \A s \in Runs : (closed[s] => closed'[s]) /\ (SomeFailed(s) => SomeFailed(s)')
    BY <1>12 DEF CancelTask, SomeFailed, TypeOKRun, TypeOK, runVars
  <2>3. \A s \in Runs, k \in Ops :
           \/ op'[s][k] = op[s][k]
           \/ {op[s][k], op'[s][k]} \subseteq {"none", "listed"}
    BY <1>12 DEF CancelTask, runVars
  <2> QED BY <2>1, <2>2, <2>3, ChannelOthers DEF SameChannel
<1>13. ASSUME NEW i \in Installations, ForeignChange(i), UNCHANGED <<task, outcome>>
       PROVE  Channel'
  <2>1. UNCHANGED <<sent, task, outcome>>
    BY <1>13 DEF ForeignChange, runVars
  <2>2. \A s \in Runs : (closed[s] => closed'[s]) /\ (SomeFailed(s) => SomeFailed(s)')
    BY <1>13 DEF ForeignChange, SomeFailed, TypeOKRun, TypeOK, runVars
  <2>3. \A s \in Runs, k \in Ops :
           \/ op'[s][k] = op[s][k]
           \/ {op[s][k], op'[s][k]} \subseteq {"none", "listed"}
    BY <1>13 DEF ForeignChange, runVars
  <2> QED BY <2>1, <2>2, <2>3, ChannelOthers DEF SameChannel
<1>14. ASSUME NEW i \in Installations, InstallationEvent(i), UNCHANGED <<task, outcome>>
       PROVE  Channel'
  <2>1. UNCHANGED <<sent, task, outcome>>
    BY <1>14 DEF InstallationEvent, runVars
  <2>2. \A s \in Runs : (closed[s] => closed'[s]) /\ (SomeFailed(s) => SomeFailed(s)')
    BY <1>14 DEF InstallationEvent, SomeFailed, TypeOKRun, TypeOK, runVars
  <2>3. \A s \in Runs, k \in Ops :
           \/ op'[s][k] = op[s][k]
           \/ {op[s][k], op'[s][k]} \subseteq {"none", "listed"}
    BY <1>14 DEF InstallationEvent, runVars
  <2> QED BY <2>1, <2>2, <2>3, ChannelOthers DEF SameChannel
<1>15. ASSUME NEW r \in Runs, NEW p \in Plans, Begin(r, p)
       PROVE  Channel'
  <2>1. UNCHANGED <<sent, task, op, closed, job>>
    BY <1>15 DEF Begin, Schedule
  <2>2. \A s \in Runs \ {r} : outcome'[s] = outcome[s] /\ plan'[s] = plan[s]
    BY <1>15 DEF Begin, Schedule, TypeOKRun, TypeOK
  <2>3. \A s \in Runs \ {r}, k \in Ops : SameChannel(s, k)
    BY <2>1, <2>2 DEF SameChannel, SomeFailed
  <2>4. phase[r] = "none" /\ outcome[r] = "none" /\ outcome'[r] = "running"
    BY <1>15 DEF Begin, Schedule, TypeOKRun
  <2>5. ASSUME NEW k \in Ops
        PROVE  ChannelAt(r, k)'
    <3>1. op[r][k] = "none"
      BY <2>4, PlanType DEF OpsOwned, JobsPlanned
    <3>2. Untold(r, k)
      BY <2>4 DEF Channel, ChannelAt
    <3>3. Untold(r, k)'
      BY <2>1, <3>2 DEF Untold
    <3>4. Told(r, k)'
      BY <2>1, <3>1, <3>3 DEF Told
    <3> QED BY <2>4, <3>4 DEF ChannelAt
  <2> QED BY <2>3, <2>5, ChannelOthers
<1>16. ASSUME NEW r \in Runs, Receive(r)
       PROVE  Channel'
  BY <1>16, ReceiveStep
<1>17. ASSUME NEW r \in Runs, Conclude(r)
       PROVE  Channel'
  <2>1. outcome'[r] \notin {"none", "running"} /\ UNCHANGED vars
    BY <1>17 DEF Conclude, TypeOKRun
  <2>2. \A s \in Runs \ {r} : outcome'[s] = outcome[s] /\ task'[s] = task[s]
    BY <1>17 DEF Conclude, TypeOKRun
  <2>3. \A s \in Runs \ {r}, k \in Ops : SameChannel(s, k)
    BY <2>1, <2>2 DEF SameChannel, SomeFailed, vars
  <2>4. \A k \in Ops : ChannelAt(r, k)'
    BY <2>1 DEF ChannelAt
  <2> QED BY <2>3, <2>4, ChannelOthers
<1>18. CASE UNCHANGED allVars
  BY <1>18, ChannelOthers DEF allVars, vars, SameChannel, SomeFailed
<1> QED
  BY <1>0, <1>1, <1>2, <1>3, <1>4, <1>5, <1>6, <1>7, <1>8, <1>9,
     <1>10, <1>11, <1>12, <1>13, <1>14, <1>15, <1>16, <1>17, <1>18
     DEF NextRun, Backend, BackendStep, RunStep, JobStep

-----------------------------------------------------------------------------
(* Muted changes *)

\* Operations at work can be counted.
LEMMA WorkingFinite ==
    ASSUME NEW i \in Installations
    PROVE  /\ IsFiniteSet(Working(i)) /\ Cardinality(Working(i)) \in Nat
           /\ IsFiniteSet(Working(i)') /\ Cardinality(Working(i))' \in Nat
<1>1. Working(i) \subseteq Runs \X Ops /\ Working(i)' \subseteq Runs \X Ops
  BY DEF Working
<1> QED BY <1>1, FiniteAssumption, FS_Subset, FS_CardinalityType

\* An operation that has begun counts for its installation.
LEMMA Joins ==
    ASSUME NEW r \in Runs, NEW o \in Ops, NEW i \in Installations,
           op[r][o] # "announced", op'[r][o] = "announced",
           \A s \in Runs, k \in Ops : s # r \/ k # o => op'[s][k] = op[s][k]
    PROVE  Cardinality(Working(i))' =
               Cardinality(Working(i)) + IF i = InstallationOf(o[1]) THEN 1 ELSE 0
<1> DEFINE w == <<r, o>>
<1>1. w \in Runs \X Ops /\ w[1] = r /\ w[2] = o
  OBVIOUS
<1>2. \A v \in Runs \X Ops : v = w \/ op'[v[1]][v[2]] = op[v[1]][v[2]]
  OBVIOUS
<1>3. CASE i = InstallationOf(o[1])
  <2>1. Working(i)' = Working(i) \cup {w} /\ w \notin Working(i)
    <3>1. w \notin Working(i) /\ w \in Working(i)'
      BY <1>1, <1>3 DEF Working
    <3>2. \A v \in Runs \X Ops : v # w => (v \in Working(i)' <=> v \in Working(i))
      BY <1>2 DEF Working
    <3>3. Working(i) \subseteq Runs \X Ops /\ Working(i)' \subseteq Runs \X Ops
      BY DEF Working
    <3> QED BY <3>1, <3>2, <3>3
  <2>2. Cardinality(Working(i) \cup {w}) = Cardinality(Working(i)) + 1
    BY <2>1, WorkingFinite, FS_AddElement
  <2> QED BY <1>3, <2>1, <2>2
<1>4. CASE i # InstallationOf(o[1])
  <2>1. Working(i)' = Working(i)
    <3>1. \A v \in Runs \X Ops : v \in Working(i)' <=> v \in Working(i)
      BY <1>1, <1>2, <1>4 DEF Working
    <3>2. Working(i) \subseteq Runs \X Ops /\ Working(i)' \subseteq Runs \X Ops
      BY DEF Working
    <3> HIDE DEF w
    <3>3. \A v : v \in Working(i)' <=> v \in Working(i)
      BY <3>1, <3>2
    <3> QED BY <3>3
  <2> QED BY <1>4, <2>1, WorkingFinite
<1> QED BY <1>3, <1>4

\* One that is over does no more.
LEMMA Leaves ==
    ASSUME NEW r \in Runs, NEW o \in Ops, NEW i \in Installations,
           op[r][o] = "announced", op'[r][o] # "announced",
           \A s \in Runs, k \in Ops : s # r \/ k # o => op'[s][k] = op[s][k]
    PROVE  Cardinality(Working(i)) =
               Cardinality(Working(i))' + IF i = InstallationOf(o[1]) THEN 1 ELSE 0
<1> DEFINE w == <<r, o>>
<1>1. w \in Runs \X Ops /\ w[1] = r /\ w[2] = o
  OBVIOUS
<1>2. \A v \in Runs \X Ops : v = w \/ op'[v[1]][v[2]] = op[v[1]][v[2]]
  OBVIOUS
<1>3. CASE i = InstallationOf(o[1])
  <2>1. Working(i) = Working(i)' \cup {w} /\ w \notin Working(i)'
    <3>1. w \in Working(i) /\ w \notin Working(i)'
      BY <1>1, <1>3 DEF Working
    <3>2. \A v \in Runs \X Ops : v # w => (v \in Working(i)' <=> v \in Working(i))
      BY <1>2 DEF Working
    <3>3. Working(i) \subseteq Runs \X Ops /\ Working(i)' \subseteq Runs \X Ops
      BY DEF Working
    <3> QED BY <3>1, <3>2, <3>3
  <2>2. Cardinality(Working(i)' \cup {w}) = Cardinality(Working(i)') + 1
    BY <2>1, WorkingFinite, FS_AddElement
  <2> QED BY <1>3, <2>1, <2>2
<1>4. CASE i # InstallationOf(o[1])
  <2>1. Working(i)' = Working(i)
    <3>1. \A v \in Runs \X Ops : v \in Working(i)' <=> v \in Working(i)
      BY <1>1, <1>2, <1>4 DEF Working
    <3>2. Working(i) \subseteq Runs \X Ops /\ Working(i)' \subseteq Runs \X Ops
      BY DEF Working
    <3> HIDE DEF w
    <3>3. \A v : v \in Working(i)' <=> v \in Working(i)
      BY <3>1, <3>2
    <3> QED BY <3>3
  <2> QED BY <1>4, <2>1, WorkingFinite
<1> QED BY <1>3, <1>4

\* Every step keeps all changes muted or loud.
LEMMA MutedStep ==
    ASSUME TypeOKRun, JobsPlanned, OpsOwned, Muted, [NextRun]_allVars
    PROVE  Muted'
<1>0. ASSUME NEW r \in Runs, NEW e \in Bundles, NEW adds \in BOOLEAN,
             EnsureRemote(r, e, adds), UNCHANGED <<task, outcome>>
      PROVE  Muted'
  <2>1. UNCHANGED <<op, mute>>
    BY <1>0 DEF EnsureRemote
  <2>2. \A k \in Installations : Working(k)' = Working(k)
    BY <2>1 DEF Working
  <2>3. \A k \in Installations :
           \/ unheard'[k] = unheard[k] /\ events'[k] = events[k]
           \/ unheard'[k] = unheard[k] + 1 /\ events'[k] \in {events[k], events[k] + 1}
    BY <1>0 DEF EnsureRemote, Loud, Notice, TypeOKRun, TypeOK
  <2>4. ASSUME NEW k \in Installations
        PROVE  /\ mute'[k] >= 0
               /\ events'[k] + Cardinality(Working(k))' <= unheard'[k] + mute'[k]
    <3>1. /\ events[k] \in Nat /\ unheard[k] \in Int
          /\ mute[k] \in Int /\ mute[k] >= 0
          /\ events[k] + Cardinality(Working(k)) <= unheard[k] + mute[k]
      BY DEF Muted, TypeOKRun, TypeOK
    <3>2. Cardinality(Working(k)) \in Nat /\ Cardinality(Working(k))' \in Nat
      BY WorkingFinite
    <3> QED BY <2>1, <2>2, <2>3, <3>1, <3>2
  <2> QED BY <2>4 DEF Muted
<1>1. ASSUME NEW r \in Runs, BuildFails(r), UNCHANGED <<task, outcome>>
      PROVE  Muted'
  <2>1. UNCHANGED <<op, mute, events, unheard>>
    BY <1>1 DEF BuildFails, monitorVars, vars
  <2> QED BY <2>1 DEF Muted, Working
<1>2. ASSUME NEW r \in Runs, Launch(r), UNCHANGED <<task, outcome>>
      PROVE  Muted'
  <2>1. UNCHANGED <<op, mute, events, unheard>>
    BY <1>2 DEF Launch, monitorVars, vars
  <2> QED BY <2>1 DEF Muted, Working
<1>3. ASSUME NEW r \in Runs, RaceOver(r), UNCHANGED <<task, outcome>>
      PROVE  Muted'
  <2>1. UNCHANGED <<op, mute, events, unheard>>
    BY <1>3 DEF RaceOver, monitorVars, vars
  <2> QED BY <2>1 DEF Muted, Working
<1>4. ASSUME NEW r \in Runs, FlushOver(r), UNCHANGED <<task, outcome>>
      PROVE  Muted'
  <2>1. UNCHANGED <<op, mute, events, unheard>>
    BY <1>4 DEF FlushOver, monitorVars, vars
  <2> QED BY <2>1 DEF Muted, Working
<1>5. ASSUME NEW r \in Runs, NEW j \in Jobs, NEW found \in SUBSET (j \X Parts),
             Ready(r, j, found), UNCHANGED <<task, outcome>>
      PROVE  Muted'
  <2>1. \A s \in Runs, k \in Ops : op'[s][k] = IF s = r /\ k \in found THEN "listed" ELSE op[s][k]
    BY <1>5 DEF Ready, TypeOKRun, TypeOK
  <2>2. \A k \in found : op[r][k] = "none"
    <3>1. \A k \in found : k \in Ops /\ k[1] \in j
      BY DEF Ops, Jobs
    <3> QED BY <1>5, <3>1, JobOfOp DEF Ready
  <2>3. UNCHANGED <<mute, events, unheard>>
    BY <1>5 DEF Ready, monitorVars
  <2>4. \A i \in Installations : Working(i)' = Working(i)
    BY <2>1, <2>2 DEF Working
  <2> QED BY <2>3, <2>4 DEF Muted
<1>6. ASSUME NEW r \in Runs, NEW j \in Jobs, NEW o \in Ops,
             NewOperation(r, j, o), UNCHANGED <<task, outcome>>
      PROVE  Muted'
  <2>1. \A s \in Runs, k \in Ops : op'[s][k] = IF s = r /\ k = o THEN "announced" ELSE op[s][k]
    BY <1>6 DEF NewOperation, TypeOKRun, TypeOK
  <2>2. op[r][o] = "listed"
    BY <1>6 DEF NewOperation
  <2>3. /\ UNCHANGED <<events, unheard>>
        /\ \A i \in Installations : mute'[i] = mute[i] + IF i = InstallationOf(o[1]) THEN 1 ELSE 0
    BY <1>6 DEF NewOperation, TypeOKRun, TypeOK
  <2>4. ASSUME NEW i \in Installations
        PROVE  /\ mute'[i] >= 0
               /\ events'[i] + Cardinality(Working(i))' <= unheard'[i] + mute'[i]
    <3>1. /\ events[i] \in Nat /\ unheard[i] \in Int
          /\ mute[i] \in Int /\ mute[i] >= 0
          /\ events[i] + Cardinality(Working(i)) <= unheard[i] + mute[i]
      BY DEF Muted, TypeOKRun, TypeOK
    <3>2. Cardinality(Working(i)) \in Nat /\ Cardinality(Working(i))' \in Nat
      BY WorkingFinite
    <3>3. Cardinality(Working(i))' =
             Cardinality(Working(i)) + IF i = InstallationOf(o[1]) THEN 1 ELSE 0
      BY <2>1, <2>2, Joins
    <3> QED BY <2>3, <3>1, <3>2, <3>3
  <2> QED BY <2>4 DEF Muted
<1>7. ASSUME NEW r \in Runs, NEW j \in Jobs, NEW o \in Ops,
             NEW result \in {"changed", "unchanged"},
             OperationDone(r, j, o, result), UNCHANGED <<task, outcome>>
      PROVE  Muted'
  <2>1. \A s \in Runs, k \in Ops : op'[s][k] = IF s = r /\ k = o THEN result ELSE op[s][k]
    BY <1>7 DEF OperationDone, TypeOKRun, TypeOK
  <2>2. op[r][o] = "announced"
    BY <1>7 DEF OperationDone
  <2>3. /\ UNCHANGED <<mute, unheard>>
        /\ \A i \in Installations :
              events'[i] = events[i] \/ (events'[i] = events[i] + 1 /\ i = InstallationOf(o[1]))
    BY <1>7 DEF OperationDone, Notice, TypeOKRun, TypeOK
  <2>4. ASSUME NEW i \in Installations
        PROVE  /\ mute'[i] >= 0
               /\ events'[i] + Cardinality(Working(i))' <= unheard'[i] + mute'[i]
    <3>1. /\ events[i] \in Nat /\ unheard[i] \in Int
          /\ mute[i] \in Int /\ mute[i] >= 0
          /\ events[i] + Cardinality(Working(i)) <= unheard[i] + mute[i]
      BY DEF Muted, TypeOKRun, TypeOK
    <3>2. Cardinality(Working(i)) \in Nat /\ Cardinality(Working(i))' \in Nat
      BY WorkingFinite
    <3>3. Cardinality(Working(i)) =
             Cardinality(Working(i))' + IF i = InstallationOf(o[1]) THEN 1 ELSE 0
      BY <2>1, <2>2, Leaves
    <3> QED BY <2>3, <3>1, <3>2, <3>3
  <2> QED BY <2>4 DEF Muted
<1>8. ASSUME NEW r \in Runs, NEW j \in Jobs, NEW o \in Ops,
             OperationError(r, j, o), UNCHANGED <<task, outcome>>
      PROVE  Muted'
  <2>1. \A s \in Runs, k \in Ops : op'[s][k] = IF s = r /\ k = o THEN "error" ELSE op[s][k]
    BY <1>8 DEF OperationError, TypeOKRun, TypeOK
  <2>2. op[r][o] = "announced"
    BY <1>8 DEF OperationError
  <2>3. UNCHANGED <<mute, events, unheard>>
    BY <1>8 DEF OperationError, monitorVars
  <2>4. ASSUME NEW i \in Installations
        PROVE  /\ mute'[i] >= 0
               /\ events'[i] + Cardinality(Working(i))' <= unheard'[i] + mute'[i]
    <3>1. /\ events[i] \in Nat /\ unheard[i] \in Int
          /\ mute[i] \in Int /\ mute[i] >= 0
          /\ events[i] + Cardinality(Working(i)) <= unheard[i] + mute[i]
      BY DEF Muted, TypeOKRun, TypeOK
    <3>2. Cardinality(Working(i)) \in Nat /\ Cardinality(Working(i))' \in Nat
      BY WorkingFinite
    <3>3. Cardinality(Working(i)) =
             Cardinality(Working(i))' + IF i = InstallationOf(o[1]) THEN 1 ELSE 0
      BY <2>1, <2>2, Leaves
    <3> QED BY <2>3, <3>1, <3>2, <3>3
  <2> QED BY <2>4 DEF Muted
<1>9. ASSUME NEW r \in Runs, NEW j \in Jobs, JobSucceeds(r, j),
             UNCHANGED <<task, outcome>>
      PROVE  Muted'
  <2>1. UNCHANGED <<op, mute, events, unheard>>
    BY <1>9 DEF JobSucceeds, monitorVars, vars
  <2> QED BY <2>1 DEF Muted, Working
<1>10. ASSUME NEW r \in Runs, NEW j \in Jobs, JobFails(r, j),
              UNCHANGED <<task, outcome>>
       PROVE  Muted'
  <2>1. UNCHANGED <<op, mute, events, unheard>>
    BY <1>10 DEF JobFails, monitorVars, vars
  <2> QED BY <2>1 DEF Muted, Working
<1>11. ASSUME NEW r \in Runs, NEW o \in Ops, DoneFiber(r, o),
              UNCHANGED <<task, outcome>>
       PROVE  Muted'
  <2>1. UNCHANGED <<op, mute, events, unheard>>
    BY <1>11 DEF DoneFiber, monitorVars, vars
  <2> QED BY <2>1 DEF Muted, Working
<1>12. ASSUME NEW e \in Entries, CancelTask(e), UNCHANGED <<task, outcome>>
       PROVE  Muted'
  <2>1. UNCHANGED <<op, mute, events, unheard>>
    BY <1>12 DEF CancelTask, monitorVars, vars
  <2> QED BY <2>1 DEF Muted, Working
<1>13. ASSUME NEW i \in Installations, ForeignChange(i), UNCHANGED <<task, outcome>>
       PROVE  Muted'
  <2>1. op' = op
    BY <1>13 DEF ForeignChange, runVars
  <2>2. \A k \in Installations : Working(k)' = Working(k)
    BY <2>1 DEF Working
  <2>3. /\ mute' = mute
        /\ \A k \in Installations : /\ unheard'[k] = unheard[k] + IF k = i THEN 1 ELSE 0
                                    /\ events'[k] = events[k] + IF k = i THEN 1 ELSE 0
    BY <1>13 DEF ForeignChange, Loud, Notice, TypeOKRun, TypeOK
  <2>4. ASSUME NEW k \in Installations
        PROVE  /\ mute'[k] >= 0
               /\ events'[k] + Cardinality(Working(k))' <= unheard'[k] + mute'[k]
    <3>1. /\ events[k] \in Nat /\ unheard[k] \in Int
          /\ mute[k] \in Int /\ mute[k] >= 0
          /\ events[k] + Cardinality(Working(k)) <= unheard[k] + mute[k]
      BY DEF Muted, TypeOKRun, TypeOK
    <3>2. Cardinality(Working(k)) \in Nat /\ Cardinality(Working(k))' \in Nat
      BY WorkingFinite
    <3> QED BY <2>2, <2>3, <3>1, <3>2
  <2> QED BY <2>4 DEF Muted
<1>14. ASSUME NEW i \in Installations, InstallationEvent(i), UNCHANGED <<task, outcome>>
       PROVE  Muted'
  <2>1. op' = op
    BY <1>14 DEF InstallationEvent, runVars
  <2>2. \A k \in Installations : Working(k)' = Working(k)
    BY <2>1 DEF Working
  <2>3. \A k \in Installations :
           \/ UNCHANGED <<mute[k], unheard[k], events[k]>>
           \/ /\ mute[k] > 0 /\ mute'[k] = mute[k] - 1 /\ events'[k] = events[k] - 1
              /\ unheard'[k] = unheard[k]
           \/ /\ unheard'[k] = unheard[k] - 1 /\ events'[k] = events[k] - 1
              /\ mute'[k] = mute[k]
    BY <1>14 DEF InstallationEvent, TypeOKRun, TypeOK
  <2>4. ASSUME NEW k \in Installations
        PROVE  /\ mute'[k] >= 0
               /\ events'[k] + Cardinality(Working(k))' <= unheard'[k] + mute'[k]
    <3>1. /\ events[k] \in Nat /\ unheard[k] \in Int
          /\ mute[k] \in Int /\ mute[k] >= 0
          /\ events[k] + Cardinality(Working(k)) <= unheard[k] + mute[k]
      BY DEF Muted, TypeOKRun, TypeOK
    <3>2. Cardinality(Working(k)) \in Nat /\ Cardinality(Working(k))' \in Nat
      BY WorkingFinite
    <3> QED BY <2>2, <2>3, <3>1, <3>2
  <2> QED BY <2>4 DEF Muted
<1>15. ASSUME NEW r \in Runs, NEW p \in Plans, Begin(r, p)
       PROVE  Muted'
  <2>1. UNCHANGED <<op, mute, events, unheard>>
    BY <1>15 DEF Begin, Schedule, monitorVars, vars
  <2> QED BY <2>1 DEF Muted, Working
<1>16. ASSUME NEW r \in Runs, Receive(r)
       PROVE  Muted'
  <2>1. UNCHANGED <<op, mute, events, unheard>>
    BY <1>16 DEF Receive, monitorVars, vars
  <2> QED BY <2>1 DEF Muted, Working
<1>17. ASSUME NEW r \in Runs, Conclude(r)
       PROVE  Muted'
  <2>1. UNCHANGED <<op, mute, events, unheard>>
    BY <1>17 DEF Conclude, monitorVars, vars
  <2> QED BY <2>1 DEF Muted, Working
<1>18. CASE UNCHANGED allVars
  BY <1>18 DEF allVars, vars, Muted, Working
<1> QED
  BY <1>0, <1>1, <1>2, <1>3, <1>4, <1>5, <1>6, <1>7, <1>8, <1>9,
     <1>10, <1>11, <1>12, <1>13, <1>14, <1>15, <1>16, <1>17, <1>18
     DEF NextRun, Backend, BackendStep, RunStep, JobStep

\* So none of them is reported.
LEMMA NoEchoStep ==
    ASSUME TypeOKRun, Muted, NoEcho, [NextRun]_allVars
    PROVE  NoEcho'
<1>0. ASSUME NEW r \in Runs, NEW e \in Bundles, NEW adds \in BOOLEAN,
             EnsureRemote(r, e, adds), UNCHANGED <<task, outcome>>
      PROVE  NoEcho'
  <2>1. \A k \in Installations : unheard'[k] = unheard[k] \/ unheard'[k] = unheard[k] + 1
    BY <1>0 DEF EnsureRemote, Loud, TypeOKRun, TypeOK
  <2>2. \A k \in Installations : unheard[k] \in Int
    BY DEF TypeOKRun, TypeOK
  <2> QED BY <2>1, <2>2 DEF NoEcho
<1>1. ASSUME NEW r \in Runs, BuildFails(r), UNCHANGED <<task, outcome>>
      PROVE  NoEcho'
  BY <1>1 DEF BuildFails, NoEcho, monitorVars, vars
<1>2. ASSUME NEW r \in Runs, Launch(r), UNCHANGED <<task, outcome>>
      PROVE  NoEcho'
  BY <1>2 DEF Launch, NoEcho, monitorVars, vars
<1>3. ASSUME NEW r \in Runs, RaceOver(r), UNCHANGED <<task, outcome>>
      PROVE  NoEcho'
  BY <1>3 DEF RaceOver, NoEcho, monitorVars, vars
<1>4. ASSUME NEW r \in Runs, FlushOver(r), UNCHANGED <<task, outcome>>
      PROVE  NoEcho'
  BY <1>4 DEF FlushOver, NoEcho, monitorVars, vars
<1>5. ASSUME NEW r \in Runs, NEW j \in Jobs, NEW found \in SUBSET (j \X Parts),
             Ready(r, j, found), UNCHANGED <<task, outcome>>
      PROVE  NoEcho'
  BY <1>5 DEF Ready, NoEcho, monitorVars, vars
<1>6. ASSUME NEW r \in Runs, NEW j \in Jobs, NEW o \in Ops,
             NewOperation(r, j, o), UNCHANGED <<task, outcome>>
      PROVE  NoEcho'
  BY <1>6 DEF NewOperation, NoEcho, monitorVars, vars
<1>7. ASSUME NEW r \in Runs, NEW j \in Jobs, NEW o \in Ops,
             NEW result \in {"changed", "unchanged"},
             OperationDone(r, j, o, result), UNCHANGED <<task, outcome>>
      PROVE  NoEcho'
  BY <1>7 DEF OperationDone, NoEcho, monitorVars, vars
<1>8. ASSUME NEW r \in Runs, NEW j \in Jobs, NEW o \in Ops,
             OperationError(r, j, o), UNCHANGED <<task, outcome>>
      PROVE  NoEcho'
  BY <1>8 DEF OperationError, NoEcho, monitorVars, vars
<1>9. ASSUME NEW r \in Runs, NEW j \in Jobs, JobSucceeds(r, j),
             UNCHANGED <<task, outcome>>
      PROVE  NoEcho'
  BY <1>9 DEF JobSucceeds, NoEcho, monitorVars, vars
<1>10. ASSUME NEW r \in Runs, NEW j \in Jobs, JobFails(r, j),
              UNCHANGED <<task, outcome>>
       PROVE  NoEcho'
  BY <1>10 DEF JobFails, NoEcho, monitorVars, vars
<1>11. ASSUME NEW r \in Runs, NEW o \in Ops, DoneFiber(r, o),
              UNCHANGED <<task, outcome>>
       PROVE  NoEcho'
  BY <1>11 DEF DoneFiber, NoEcho, monitorVars, vars
<1>12. ASSUME NEW e \in Entries, CancelTask(e), UNCHANGED <<task, outcome>>
       PROVE  NoEcho'
  BY <1>12 DEF CancelTask, NoEcho, monitorVars, vars
<1>13. ASSUME NEW i \in Installations, ForeignChange(i), UNCHANGED <<task, outcome>>
       PROVE  NoEcho'
  <2>1. \A k \in Installations : unheard'[k] = unheard[k] \/ unheard'[k] = unheard[k] + 1
    BY <1>13 DEF ForeignChange, Loud, TypeOKRun, TypeOK
  <2>2. \A k \in Installations : unheard[k] \in Int
    BY DEF TypeOKRun, TypeOK
  <2> QED BY <2>1, <2>2 DEF NoEcho
<1>14. ASSUME NEW i \in Installations, InstallationEvent(i), UNCHANGED <<task, outcome>>
       PROVE  NoEcho'
  <2>1. \A k \in Installations : k # i => unheard'[k] = unheard[k]
    BY <1>14 DEF InstallationEvent, TypeOKRun, TypeOK
  <2>2. /\ events[i] \in Nat /\ unheard[i] \in Int
        /\ mute[i] \in Int /\ mute[i] >= 0 /\ unheard[i] >= 0
        /\ events[i] + Cardinality(Working(i)) <= unheard[i] + mute[i]
    BY DEF Muted, NoEcho, TypeOKRun, TypeOK
  <2>3. events[i] > 0 /\ unheard'[i] = IF mute[i] > 0 THEN unheard[i] ELSE unheard[i] - 1
    BY <1>14 DEF InstallationEvent, TypeOKRun, TypeOK
  <2>4. Cardinality(Working(i)) \in Nat
    BY WorkingFinite
  <2>5. unheard'[i] >= 0
    BY <2>2, <2>3, <2>4
  <2> QED BY <2>1, <2>5 DEF NoEcho
<1>15. ASSUME NEW r \in Runs, NEW p \in Plans, Begin(r, p)
       PROVE  NoEcho'
  BY <1>15 DEF Begin, Schedule, NoEcho, monitorVars, vars
<1>16. ASSUME NEW r \in Runs, Receive(r)
       PROVE  NoEcho'
  BY <1>16 DEF Receive, NoEcho, monitorVars, vars
<1>17. ASSUME NEW r \in Runs, Conclude(r)
       PROVE  NoEcho'
  BY <1>17 DEF Conclude, NoEcho, monitorVars, vars
<1>18. CASE UNCHANGED allVars
  BY <1>18 DEF allVars, vars, NoEcho
<1> QED
  BY <1>0, <1>1, <1>2, <1>3, <1>4, <1>5, <1>6, <1>7, <1>8, <1>9,
     <1>10, <1>11, <1>12, <1>13, <1>14, <1>15, <1>16, <1>17, <1>18
     DEF NextRun, Backend, BackendStep, RunStep, JobStep

-----------------------------------------------------------------------------
(* Success, and the theorems *)

\* A run that was successful does nothing more.
LEMMA SuccessRests ==
    ASSUME TypeOKRun, JobsPlanned, FibersOfChanges, EndOfRun, TruthfulSuccess,
           NEW r \in Runs, outcome[r] = "success"
    PROVE  /\ phase[r] = "ended"
           /\ \A j \in Jobs : job[r][j] \notin {"waiting", "running"}
           /\ \A o \in Ops : fiber[r][o] \notin {"spawned", "syncing"}
<1>1. EndAt(r) /\ Accounted(r)
  BY DEF EndOfRun, TruthfulSuccess
<1>2. phase[r] = "ended"
  BY <1>1 DEF EndAt
<1>3. \A j \in Jobs : job[r][j] \notin {"waiting", "running"}
  BY <1>1 DEF Accounted, JobsPlanned
<1>4. \A o \in Ops : fiber[r][o] \notin {"spawned", "syncing"}
  BY <1>1 DEF Accounted, FibersOfChanges
<1> QED BY <1>2, <1>3, <1>4

\* What Accounted reads of a run stays, or the run is not successful.
SameAccount(r) ==
    \/ /\ plan'[r] = plan[r] /\ job'[r] = job[r] /\ op'[r] = op[r]
       /\ fiber'[r] = fiber[r] /\ task'[r] = task[r]
       /\ outcome'[r] = outcome[r]
    \/ outcome'[r] # "success"

\* A step that disturbs no successful run keeps TruthfulSuccess.
LEMMA SuccessOthers ==
    ASSUME TruthfulSuccess, \A r \in Runs : SameAccount(r) \/ Accounted(r)'
    PROVE  TruthfulSuccess'
BY DEF TruthfulSuccess, SameAccount, Accounted

\* The end of the channel of a run without error accounts for it.
LEMMA GoodEnd ==
    ASSUME TypeOKRun, JobsOwn, EndOfRun, Channel, NEW r \in Runs,
           outcome[r] = "running", phase[r] = "ended", ~ errored[r], sent[r] = <<>>
    PROVE  Accounted(r)
<1>1. EndAt(r)
  BY DEF EndOfRun
<1>2. ~ SomeFailed(r) /\ Pending(r) = {}
  BY <1>1 DEF EndAt
<1>3. AllOk(r)
  BY <1>1, <1>2 DEF EndAt
<1>4. ASSUME NEW o \in Ops
      PROVE  op[r][o] \in {"none", "changed", "unchanged"}
  <2>1. CASE op[r][o] # "none"
    <3>1. PICK j \in JobsOf(plan[r]) : o[1] \in j
      BY <2>1 DEF JobsOwn, OpsOwned
    <3>2. j \in Jobs /\ job[r][j] = "ok"
      BY <1>3, PlanType DEF AllOk
    <3> QED BY <3>1, <3>2 DEF JobsOwn, GoodJobs
  <2> QED BY <2>1
<1>5. ASSUME NEW o \in Ops
      PROVE  task[r][o] = IF op[r][o] = "none" THEN "none" ELSE "finished"
  <2>1. Told(r, o)
    BY <1>2 DEF Channel, ChannelAt
  <2>2. \A x \in BOOLEAN : ~ Once(sent[r], o, x) /\ ~ Twice(sent[r], o, x)
    <3>1. 1..Len(sent[r]) = {}
      OBVIOUS
    <3> QED BY <3>1 DEF Once, Twice
  <2>3. CASE op[r][o] = "none"
    BY <2>1, <2>3 DEF Told, Untold
  <2>4. CASE op[r][o] # "none"
    <3>1. Settled(r, o, FALSE)
      BY <1>4, <2>1, <2>4 DEF Told
    <3> QED BY <2>2, <2>4, <3>1 DEF Settled
  <2> QED BY <2>3, <2>4
<1>6. ASSUME NEW o \in Ops, op[r][o] = "changed"
      PROVE  fiber[r][o] = "over"
  <2>1. fiber[r][o] # "none"
    BY <1>6 DEF JobsOwn, FibersOfChanges
  <2>2. o \notin Pending(r)
    BY <1>2
  <2> QED BY <2>1, <2>2 DEF Pending, TypeOKRun, TypeOK, FiberStates
<1> QED BY <1>3, <1>4, <1>5, <1>6 DEF Accounted, AllOk

\* Every step keeps the successes true.
LEMMA SuccessStep ==
    ASSUME TypeOKRun, JobsOwn, EndOfRun, Channel, TruthfulSuccess, [NextRun]_allVars
    PROVE  TruthfulSuccess'
<1>0. ASSUME NEW r \in Runs, NEW e \in Bundles, NEW adds \in BOOLEAN,
             EnsureRemote(r, e, adds), UNCHANGED <<task, outcome>>
      PROVE  TruthfulSuccess'
  BY <1>0, SuccessOthers DEF EnsureRemote, SameAccount
<1>1. ASSUME NEW r \in Runs, BuildFails(r), UNCHANGED <<task, outcome>>
      PROVE  TruthfulSuccess'
  BY <1>1, SuccessOthers DEF BuildFails, SameAccount
<1>2. ASSUME NEW r \in Runs, Launch(r), UNCHANGED <<task, outcome>>
      PROVE  TruthfulSuccess'
  <2>1. outcome[r] # "success"
    BY <1>2, SuccessRests DEF Launch, JobsOwn
  <2>2. \A s \in Runs : SameAccount(s)
    BY <1>2, <2>1 DEF Launch, SameAccount, TypeOKRun, TypeOK
  <2> QED BY <2>2, SuccessOthers
<1>3. ASSUME NEW r \in Runs, RaceOver(r), UNCHANGED <<task, outcome>>
      PROVE  TruthfulSuccess'
  BY <1>3, SuccessOthers DEF RaceOver, SameAccount
<1>4. ASSUME NEW r \in Runs, FlushOver(r), UNCHANGED <<task, outcome>>
      PROVE  TruthfulSuccess'
  BY <1>4, SuccessOthers DEF FlushOver, SameAccount
<1>5. ASSUME NEW r \in Runs, NEW j \in Jobs, NEW found \in SUBSET (j \X Parts),
             Ready(r, j, found), UNCHANGED <<task, outcome>>
      PROVE  TruthfulSuccess'
  <2>1. outcome[r] # "success"
    BY <1>5, SuccessRests DEF Ready, JobsOwn
  <2>2. \A s \in Runs : SameAccount(s)
    BY <1>5, <2>1 DEF Ready, SameAccount, TypeOKRun, TypeOK
  <2> QED BY <2>2, SuccessOthers
<1>6. ASSUME NEW r \in Runs, NEW j \in Jobs, NEW o \in Ops,
             NewOperation(r, j, o), UNCHANGED <<task, outcome>>
      PROVE  TruthfulSuccess'
  <2>1. outcome[r] # "success"
    BY <1>6, SuccessRests DEF NewOperation, JobsOwn
  <2>2. \A s \in Runs : SameAccount(s)
    BY <1>6, <2>1 DEF NewOperation, SameAccount, TypeOKRun, TypeOK
  <2> QED BY <2>2, SuccessOthers
<1>7. ASSUME NEW r \in Runs, NEW j \in Jobs, NEW o \in Ops,
             NEW result \in {"changed", "unchanged"},
             OperationDone(r, j, o, result), UNCHANGED <<task, outcome>>
      PROVE  TruthfulSuccess'
  <2>1. outcome[r] # "success"
    BY <1>7, SuccessRests DEF OperationDone, JobsOwn
  <2>2. \A s \in Runs : SameAccount(s)
    BY <1>7, <2>1 DEF OperationDone, SameAccount, TypeOKRun, TypeOK
  <2> QED BY <2>2, SuccessOthers
<1>8. ASSUME NEW r \in Runs, NEW j \in Jobs, NEW o \in Ops,
             OperationError(r, j, o), UNCHANGED <<task, outcome>>
      PROVE  TruthfulSuccess'
  <2>1. outcome[r] # "success"
    BY <1>8, SuccessRests DEF OperationError, JobsOwn
  <2>2. \A s \in Runs : SameAccount(s)
    BY <1>8, <2>1 DEF OperationError, SameAccount, TypeOKRun, TypeOK
  <2> QED BY <2>2, SuccessOthers
<1>9. ASSUME NEW r \in Runs, NEW j \in Jobs, JobSucceeds(r, j),
             UNCHANGED <<task, outcome>>
      PROVE  TruthfulSuccess'
  <2>1. outcome[r] # "success"
    BY <1>9, SuccessRests DEF JobSucceeds, JobsOwn
  <2>2. \A s \in Runs : SameAccount(s)
    BY <1>9, <2>1 DEF JobSucceeds, SameAccount, TypeOKRun, TypeOK
  <2> QED BY <2>2, SuccessOthers
<1>10. ASSUME NEW r \in Runs, NEW j \in Jobs, JobFails(r, j),
              UNCHANGED <<task, outcome>>
       PROVE  TruthfulSuccess'
  <2>1. outcome[r] # "success"
    BY <1>10, SuccessRests DEF JobFails, JobsOwn
  <2>2. \A s \in Runs : SameAccount(s)
    BY <1>10, <2>1 DEF JobFails, SameAccount, TypeOKRun, TypeOK
  <2> QED BY <2>2, SuccessOthers
<1>11. ASSUME NEW r \in Runs, NEW o \in Ops, DoneFiber(r, o),
              UNCHANGED <<task, outcome>>
       PROVE  TruthfulSuccess'
  <2>1. outcome[r] # "success"
    BY <1>11, SuccessRests DEF DoneFiber, JobsOwn
  <2>2. \A s \in Runs : SameAccount(s)
    BY <1>11, <2>1 DEF DoneFiber, SameAccount, TypeOKRun, TypeOK
  <2> QED BY <2>2, SuccessOthers
<1>12. ASSUME NEW e \in Entries, CancelTask(e), UNCHANGED <<task, outcome>>
       PROVE  TruthfulSuccess'
  BY <1>12, SuccessOthers DEF CancelTask, SameAccount, runVars
<1>13. ASSUME NEW i \in Installations, ForeignChange(i), UNCHANGED <<task, outcome>>
       PROVE  TruthfulSuccess'
  BY <1>13, SuccessOthers DEF ForeignChange, SameAccount, runVars
<1>14. ASSUME NEW i \in Installations, InstallationEvent(i), UNCHANGED <<task, outcome>>
       PROVE  TruthfulSuccess'
  BY <1>14, SuccessOthers DEF InstallationEvent, SameAccount, runVars
<1>15. ASSUME NEW r \in Runs, NEW p \in Plans, Begin(r, p)
       PROVE  TruthfulSuccess'
  <2>1. \A s \in Runs : SameAccount(s)
    BY <1>15 DEF Begin, Schedule, SameAccount, TypeOKRun, TypeOK
  <2> QED BY <2>1, SuccessOthers
<1>16. ASSUME NEW r \in Runs, Receive(r)
       PROVE  TruthfulSuccess'
  <2>1. \A s \in Runs : SameAccount(s)
    BY <1>16 DEF Receive, SameAccount, TypeOKRun, TypeOK
  <2> QED BY <2>1, SuccessOthers
<1>17. ASSUME NEW r \in Runs, Conclude(r)
       PROVE  TruthfulSuccess'
  <2>1. UNCHANGED <<plan, phase, job, op, fiber, errored, sent>>
    BY <1>17 DEF Conclude, vars
  <2>2. \A s \in Runs \ {r} : SameAccount(s)
    BY <1>17, <2>1 DEF Conclude, SameAccount, TypeOKRun, TypeOK
  <2>3. ASSUME outcome'[r] = "success"
        PROVE  Accounted(r)'
    <3>1. outcome[r] = "running" /\ phase[r] = "ended" /\ ~ errored[r] /\ sent[r] = <<>>
      BY <1>17, <2>3 DEF Conclude, TypeOKRun
    <3>2. Accounted(r)
      BY <3>1, GoodEnd
    <3>3. \A o \in Ops : task'[r][o] = task[r][o]
      BY <1>17, <3>2 DEF Conclude, Accounted, TypeOKRun
    <3> QED BY <2>1, <3>2, <3>3 DEF Accounted
  <2> QED BY <2>2, <2>3, SuccessOthers DEF SameAccount
<1>18. CASE UNCHANGED allVars
  BY <1>18, SuccessOthers DEF allVars, vars, SameAccount
<1> QED
  BY <1>0, <1>1, <1>2, <1>3, <1>4, <1>5, <1>6, <1>7, <1>8, <1>9,
     <1>10, <1>11, <1>12, <1>13, <1>14, <1>15, <1>16, <1>17, <1>18
     DEF NextRun, Backend, BackendStep, RunStep, JobStep


\* The invariant holds at first.
LEMMA InitInvariant ==
    ASSUME InitRun
    PROVE  IInv
<1> USE DEF InitRun, Init
<1>1. TypeOKRun
  BY DEF TypeOKRun, TypeOK, Phases, JobStates, OpStates, FiberStates, TaskStates,
         Outcomes, Kinds, Installations, Message
<1>2. CancellableWhileRaced
  BY DEF CancellableWhileRaced
<1>3. Channel
  BY DEF Channel, ChannelAt, Untold, Nowhere
<1>4. JobsOwn
  BY DEF JobsOwn, JobsPlanned, OpsOwned, GoodJobs, FibersOfChanges
<1>5. EndOfRun
  BY DEF EndOfRun, EndAt
<1>6. Muted
  <2>1. \A i \in Installations : Working(i) = {}
    BY DEF Working
  <2>2. Cardinality({}) = 0
    BY FS_EmptySet
  <2>3. \A i \in Installations :
           mute[i] = 0 /\ unheard[i] = 0 /\ events[i] = 0
    OBVIOUS
  <2>4. \A i \in Installations : Cardinality(Working(i)) = 0
    BY <2>1, <2>2
  <2> QED BY ONLY <2>3, <2>4 DEF Muted
<1>7. TruthfulSuccess /\ NoEcho
  BY DEF TruthfulSuccess, NoEcho
<1> QED BY <1>1, <1>2, <1>3, <1>4, <1>5, <1>6, <1>7 DEF IInv

\* Every step keeps it.
LEMMA StepInvariant ==
    ASSUME IInv, [NextRun]_allVars
    PROVE  IInv'
<1>1. /\ TypeOKRun /\ CancellableWhileRaced /\ Channel /\ JobsOwn
      /\ JobsPlanned /\ OpsOwned /\ GoodJobs /\ FibersOfChanges
      /\ EndOfRun /\ Muted /\ TruthfulSuccess /\ NoEcho
  BY DEF IInv, JobsOwn
<1>2. TypeOKRun' /\ CancellableWhileRaced'
  BY <1>1, TypeStep, CancellableStep
<1>3. Channel'
  BY <1>1, ChannelStep
<1>4. JobsPlanned' /\ OpsOwned'
  BY <1>1, JobsPlannedStep, OpsOwnedStep
<1>5. GoodJobs' /\ FibersOfChanges'
  BY <1>1, GoodJobsStep, FibersStep
<1>6. EndOfRun' /\ Muted'
  BY <1>1, EndStep, MutedStep
<1>7. TruthfulSuccess' /\ NoEcho'
  BY <1>1, SuccessStep, NoEchoStep
<1> QED BY <1>2, <1>3, <1>4, <1>5, <1>6, <1>7 DEF IInv, JobsOwn

\* The invariant holds for any number of transactions, entries and
\* operations, for any installations that are monitored: in every state of
\* the backend and the fiber of the manager.
THEOREM RunInvariant == SpecRun => []IInv
<1>1. InitRun => IInv
  BY InitInvariant
<1>2. IInv /\ [NextRun]_allVars => IInv'
  BY StepInvariant
<1> QED BY <1>1, <1>2, PTL DEF SpecRun

\* A transaction that is reported as successful was done, shown and
\* announced in full.
THEOREM SuccessTheorem == SpecRun => []TruthfulSuccess
<1>1. IInv => TruthfulSuccess
  BY DEF IInv
<1> QED BY <1>1, RunInvariant, PTL

\* A transaction that is reported as failed was not made or a job of it
\* failed.
THEOREM FailureTheorem == SpecRun => []TruthfulFailure
<1>1. IInv => TruthfulFailure
  BY DEF IInv, EndOfRun, EndAt, TruthfulFailure, SomeFailed
<1> QED BY <1>1, RunInvariant, PTL

\* Cancellations reach the transactions that wait for their jobs, and no
\* others.
THEOREM CancellableTheorem == SpecRun => []CancellableWhileRaced
<1>1. IInv => CancellableWhileRaced
  BY DEF IInv
<1> QED BY <1>1, RunInvariant, PTL

\* A change by an operation is never reported as that of another program.
THEOREM EchoTheorem == SpecRun => []NoEcho
<1>1. IInv => NoEcho
  BY DEF IInv
<1> QED BY <1>1, RunInvariant, PTL

\* What is received is about an operation that is not settled.
LEMMA ReceiveShows ==
    ASSUME IInv, NEW r \in Runs, Receive(r)
    PROVE  Stream!Next
<1> DEFINE o == Head(sent[r]).op
<1>1. /\ sent[r] \in Seq(Message) /\ sent[r] # <<>> /\ outcome[r] = "running"
      /\ outcome' = outcome
  BY DEF IInv, Receive, TypeOKRun, TypeOK
<1>2. o \in Ops
  <2>1. Head(sent[r]) \in Message
    BY <1>1
  <2> QED BY <2>1 DEF Message
<1>3. ~ Nowhere(sent[r], o)
  BY <1>1, <1>2, TailOwn
<1>4. Told(r, o) \/ Partly(r, o)
  BY <1>1, <1>2 DEF IInv, Channel, ChannelAt
<1>5. task[r][o] \in {"none", "current"}
  BY <1>3, <1>4 DEF Told, Partly, Untold, Announced, Settled
<1>6. CASE task[r][o] = "none"
  <2>1. task' = [task EXCEPT ![r][o] = "current"]
    BY <1>2, <1>6 DEF Receive, IInv, TypeOKRun
  <2>2. Stream!Show(r, o)
    BY <1>1, <1>6, <2>1 DEF Stream!Show
  <2> QED BY <1>2, <2>2 DEF Stream!Next
<1>7. CASE task[r][o] = "current"
  <2>1. PICK result \in {"finished", "failed"} : task' = [task EXCEPT ![r][o] = result]
    BY <1>2, <1>7 DEF Receive, IInv, TypeOKRun
  <2>2. Stream!Settle(r, o, result)
    BY <1>1, <1>7, <2>1 DEF Stream!Settle
  <2> QED BY <1>2, <2>2 DEF Stream!Next
<1> QED BY <1>5, <1>6, <1>7

\* The end of the channel settles the transaction.
LEMMA ConcludeSettles ==
    ASSUME IInv, NEW r \in Runs, Conclude(r)
    PROVE  Stream!Next
<1>1. /\ outcome[r] = "running" /\ sent[r] = <<>>
      /\ task' = [task EXCEPT ![r] =
                    [o \in Ops |-> IF task[r][o] = "current" THEN "failed" ELSE task[r][o]]]
  BY DEF Conclude
<1>2. CASE phase[r] = "ended" /\ ~ errored[r]
  <2>1. Accounted(r)
    BY <1>1, <1>2, GoodEnd DEF IInv
  <2>2. \A o \in Ops : task[r][o] \in {"none", "finished"}
    BY <2>1 DEF Accounted
  <2>3. task' = task
    BY <1>1, <2>2 DEF IInv, TypeOKRun
  <2>4. outcome' = [outcome EXCEPT ![r] = "success"]
    BY <1>2 DEF Conclude
  <2>5. Stream!Succeed(r)
    BY <1>1, <2>2, <2>3, <2>4 DEF Stream!Succeed
  <2> QED BY <2>5 DEF Stream!Next
<1>3. CASE ~ (phase[r] = "ended" /\ ~ errored[r])
  <2>1. outcome' = [outcome EXCEPT ![r] = "failure"]
    BY <1>3 DEF Conclude
  <2>2. Stream!Fail(r)
    BY <1>1, <2>1 DEF Stream!Fail
  <2> QED BY <2>2 DEF Stream!Next
<1> QED BY <1>2, <1>3

\* The backend and the fiber of the manager implement OperationStream: one
\* transaction at a time, whose operations turn up and are settled once,
\* and whose success means that each was finished.
THEOREM StreamTheorem == SpecRun => StreamSpec
<1>1. InitRun => Stream!Init
  BY DEF InitRun, Stream!Init
<1>2. ASSUME IInv, [NextRun]_allVars
      PROVE  [Stream!Next]_(Stream!vars)
  <2>1. CASE Backend
    BY <2>1 DEF Backend, Stream!vars
  <2>2. ASSUME NEW r \in Runs, NEW p \in Plans, Begin(r, p)
        PROVE  Stream!Next
    <3>1. Stream!Begin(r)
      BY <2>2 DEF Begin, Stream!Begin
    <3> QED BY <3>1 DEF Stream!Next
  <2>3. ASSUME NEW r \in Runs, Receive(r) \/ Conclude(r)
        PROVE  Stream!Next
    BY <1>2, <2>3, ReceiveShows, ConcludeSettles
  <2>4. CASE UNCHANGED allVars
    BY <2>4 DEF allVars, Stream!vars
  <2> QED BY <1>2, <2>1, <2>2, <2>3, <2>4 DEF NextRun
<1> QED
  BY <1>1, <1>2, RunInvariant, PTL DEF SpecRun, StreamSpec, Stream!Spec
=============================================================================
