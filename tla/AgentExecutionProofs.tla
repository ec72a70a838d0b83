------------------------ MODULE AgentExecutionProofs ------------------------
(***************************************************************************)
(* Theorems about AgentExecution, for every value of its constants: first    *)
(* what its operators return and what one slot keeps, then what a run leaves *)
(* behind (the tool budget, the answer, the finality of a settled execution, *)
(* the job an unfinished one has, the progress its checkpoints keep).        *)
(***************************************************************************)
EXTENDS AgentExecution, SequenceTheorems, FiniteSetTheorems, TLAPS

USE GraphAssumption

---------------------------------------------------------------------------
(* The operators the actions are built from.                                *)

\* A typed change of one field leaves a state of the agent.
LEMMA FieldTypes ==
    ASSUME NEW s \in AgentState
    PROVE  /\ \A b \in BOOLEAN : [s EXCEPT !.needs = b] \in AgentState
           /\ \A k \in Nat : [s EXCEPT !.loop = k] \in AgentState
           /\ \A k \in Nat : [s EXCEPT !.results = k] \in AgentState
           /\ \A k \in Nat : [s EXCEPT !.observed = k] \in AgentState
           /\ \A p \in Tools \cup {NoTool} : [s EXCEPT !.pending = p] \in AgentState
           /\ \A a \in {"null", "empty", "text"} :
                 [s EXCEPT !.response = a] \in AgentState
           /\ \A b \in BOOLEAN : [s EXCEPT !.error = b] \in AgentState
           /\ s.loop + 1 \in Nat /\ s.results + 1 \in Nat /\ s.observed + 1 \in Nat
  BY DEF AgentState

\* What a node returns is a state of the agent again.
LEMMA OutcomesType ==
    ASSUME NEW n \in Nodes \ {"act"}, NEW s \in AgentState,
           NEW t \in Outcomes(n, s)
    PROVE  t \in AgentState
<1>1. CASE n = "plan"
  <2>1. \/ \E b \in Plans : t = [s EXCEPT !.needs = b]
        \/ t = [s EXCEPT !.error = TRUE, !.needs = FALSE]
    BY <1>1 DEF Outcomes, Planned
  <2>2. ASSUME NEW b \in Plans PROVE [s EXCEPT !.needs = b] \in AgentState
    BY FieldTypes
  <2>3. [s EXCEPT !.error = TRUE, !.needs = FALSE] \in AgentState
    <3>1. [s EXCEPT !.error = TRUE] \in AgentState
      BY FieldTypes
    <3> QED
      BY <3>1, FieldTypes
  <2> QED
    BY <2>1, <2>2, <2>3
<1>2. CASE n \in {"retrieve", "retrieve_memory"}
  BY <1>2 DEF Outcomes, Retrieved, Recalled
<1>3. CASE n = "reason"
  <2>1. \/ \E u \in Tools : t = [s EXCEPT !.pending = u, !.loop = @ + 1]
        \/ \E a \in Texts : t = [s EXCEPT !.pending = NoTool, !.loop = @ + 1,
                                          !.response = a]
        \/ t = [s EXCEPT !.error = TRUE]
    BY <1>3 DEF Outcomes, Reasoned, ToolChosen, Answered
  <2>2. ASSUME NEW u \in Tools \cup {NoTool}
        PROVE  [s EXCEPT !.pending = u, !.loop = @ + 1] \in AgentState
    <3>1. [s EXCEPT !.pending = u] \in AgentState
      BY FieldTypes
    <3>2. [[s EXCEPT !.pending = u] EXCEPT !.loop = s.loop + 1] \in AgentState
      BY <3>1, FieldTypes
    <3> QED
      BY <3>2
  <2>3. ASSUME NEW a \in Texts
        PROVE  [s EXCEPT !.pending = NoTool, !.loop = @ + 1, !.response = a]
                  \in AgentState
    <3>1. [s EXCEPT !.pending = NoTool, !.loop = @ + 1] \in AgentState
      BY <2>2
    <3>2. [[s EXCEPT !.pending = NoTool, !.loop = @ + 1] EXCEPT !.response = a]
             \in AgentState
      BY <3>1, FieldTypes
    <3> QED
      BY <3>2
  <2>4. [s EXCEPT !.error = TRUE] \in AgentState
    BY FieldTypes
  <2> QED
    BY <2>1, <2>2, <2>3, <2>4
<1>4. CASE n = "observe"
  <2>1. t = s \/ t = [s EXCEPT !.observed = s.observed + 1]
    BY <1>4 DEF Outcomes, Observed
  <2> QED
    BY <2>1, FieldTypes
<1>5. CASE n = "respond"
  <2>1. t = s \/ \E a \in Texts \cup {"text"} : t = [s EXCEPT !.response = a]
    BY <1>5 DEF Outcomes, Responded
  <2> QED
    BY <2>1, FieldTypes
<1> QED
  BY <1>1, <1>2, <1>3, <1>4, <1>5 DEF Nodes

LEMMA ActedType ==
    ASSUME NEW s \in AgentState
    PROVE  Acted(s) \in AgentState
<1>1. [s EXCEPT !.results = s.results + 1] \in AgentState
  BY FieldTypes
<1>2. [[s EXCEPT !.results = s.results + 1] EXCEPT !.pending = NoTool] \in AgentState
  BY <1>1, FieldTypes
<1> QED
  BY <1>2 DEF Acted

\* Every edge leads to a node of the graph or to its end.
LEMMA NextNodeType ==
    ASSUME NEW n \in Nodes, NEW s \in AgentState
    PROVE  NextNode(n, s) \in Nodes \cup {"end"}
  BY DEF Nodes, NextNode, AfterPlan, AfterReason

LEMMA InitialStateType == InitialState \in AgentState
  BY DEF InitialState, AgentState

\* Handing an update over keeps the engine's variables typed.
LEMMA EmitType ==
    ASSUME TypeOK, NEW r \in Slots, NEW n \in Nodes, NEW s \in AgentState,
           Emit(r, n, s)
    PROVE  /\ est' \in [Slots -> AgentState]
           /\ node' \in [Slots -> Working \cup Halted]
           /\ buf' \in [Slots -> Seq(Update)]
<1>1. NextNode(n, s) \in Working \cup Halted
  BY NextNodeType DEF Working, Halted
<1>2. [node |-> n, st |-> s] \in Update
  BY DEF Update
<1>3. Append(buf[r], [node |-> n, st |-> s]) \in Seq(Update)
  BY <1>2 DEF TypeOK
<1> QED
  BY <1>1, <1>3 DEF Emit, TypeOK

\* A slot that is released stays typed, and is free unless its engine lives.
LEMMA ReleaseType ==
    ASSUME TypeOK, NEW r \in Slots, Release(r)
    PROVE  /\ pc' \in [Slots -> Controls] /\ rjob' \in [Slots -> Jobs \cup {NoJob}]
           /\ cancelled' \in [Slots -> BOOLEAN] /\ cur' \in [Slots -> AgentState]
           /\ buf' \in [Slots -> Seq(Update)]
           /\ node' \in [Slots -> Working \cup Halted]
           /\ est' \in [Slots -> AgentState]
  BY InitialStateType DEF TypeOK, Release, Controls, Halted, NoJob

\* The fields of an approval, and the bounds on the environment.
LEMMA ApprovalFieldTypes ==
    ASSUME NEW b \in Approval
    PROVE  /\ \A x \in {"PENDING", "APPROVED", "REJECTED", "EXPIRED"} :
                 [b EXCEPT !.status = x] \in Approval
           /\ \A y \in BOOLEAN : [b EXCEPT !.named = y] \in Approval
           /\ b.tool \in Tools /\ b.named \in BOOLEAN
  BY DEF Approval

LEMMA SpentFieldTypes ==
    ASSUME NEW b \in Spent
    PROVE  /\ \A k \in Nat : [b EXCEPT !.crashes = k] \in Spent
           /\ \A k \in Nat : [b EXCEPT !.faults = k] \in Spent
           /\ \A k \in Nat : [b EXCEPT !.cancels = k] \in Spent
           /\ b.crashes + 1 \in Nat /\ b.faults + 1 \in Nat /\ b.cancels + 1 \in Nat
  BY DEF Spent

\* The attempts and stalls of a job, and where it is.
LEMMA JobFieldTypes ==
    ASSUME NEW b \in Job
    PROVE  /\ \A x \in {"absent", "wait", "active", "finished"} :
                 [b EXCEPT !.state = x] \in Job
           /\ \A k \in Nat : [b EXCEPT !.made = k] \in Job
           /\ \A k \in Nat : [b EXCEPT !.stalls = k] \in Job
           /\ b.made + 1 \in Nat /\ b.stalls + 1 \in Nat
  BY DEF Job

\* Whatever becomes of a job, the queue stays typed.
LEMMA JobsType ==
    ASSUME TypeOK, NEW r \in Slots, JobReturned(r) \/ JobThrew(r)
    PROVE  jobs' \in [Jobs -> Job]
<1>1. \A b \in Job : [jobs EXCEPT ![rjob[r]] = b] \in [Jobs -> Job]
  BY DEF TypeOK
<1>2. CASE rjob[r] \in Jobs
  <2>1. jobs[rjob[r]] \in Job
    BY <1>2 DEF TypeOK
  <2> DEFINE b == jobs[rjob[r]]
             thrown == [b EXCEPT !.made = b.made + 1]
  <2>2. CASE JobReturned(r)
    <3>1. jobs' = [jobs EXCEPT ![rjob[r]] = [b EXCEPT !.state = "finished"]]
      BY <2>2 DEF JobReturned
    <3> QED
      BY <3>1, <2>1, <1>1, JobFieldTypes
  <2>3. CASE JobThrew(r)
    <3>1. PICK x \in {"wait", "finished"} :
             jobs' = [jobs EXCEPT ![rjob[r]] = [thrown EXCEPT !.state = x]]
      BY <2>3 DEF JobThrew
    <3>2. thrown \in Job
      BY <2>1, JobFieldTypes
    <3>3. [thrown EXCEPT !.state = x] \in Job
      BY <3>2, JobFieldTypes
    <3> QED
      BY <3>1, <3>3, <1>1
  <2> QED
    BY <2>2, <2>3
<1>3. CASE rjob[r] \notin Jobs
  <2>1. jobs' = jobs
    <3>1. jobs \in [Jobs -> Job]
      BY DEF TypeOK
    <3>2. \A b : [jobs EXCEPT ![rjob[r]] = b] = jobs
      BY <1>3, <3>1
    <3>3. CASE JobReturned(r)
      BY <3>2, <3>3 DEF JobReturned
    <3>4. CASE JobThrew(r)
      <4>1. PICK b, c : jobs' = [[jobs EXCEPT ![rjob[r]] = b] EXCEPT ![rjob[r]] = c]
        BY <3>4, <3>1, <1>3 DEF JobThrew
      <4> QED
        BY <4>1, <3>2
    <3> QED
      BY <3>3, <3>4
  <2> QED
    BY <2>1 DEF TypeOK
<1> QED
  BY <1>2, <1>3

---------------------------------------------------------------------------
(* Type correctness.  It is not inductive: the act node stores and invokes   *)
(* what is pending, and a decision handler writes the approval it has read.  *)

AtAct == {"act", "act_create", "act_wait", "act_invoke"}

\* At the act node a tool is pending.
PendingNamed == \A r \in Slots : node[r] \in AtAct => est[r].pending # NoTool

\* A decision handler under way holds a decision on an existing approval.
DecisionsHeld ==
    \A p \in Approvers :
        dpc[p] # "idle" => /\ dec[p] \in Decision
                           /\ dec[p].approval \in DOMAIN approvals

TypeInv == TypeOK /\ PendingNamed /\ DecisionsHeld

LEMMA TypeInit == Init => TypeOK
<1>1. ASSUME Init PROVE jobs \in [Jobs -> Job]
  BY <1>1 DEF Init, Job
<1>2. ASSUME Init
      PROVE  /\ pc \in [Slots -> Controls] /\ rjob \in [Slots -> Jobs \cup {NoJob}]
             /\ cancelled \in [Slots -> BOOLEAN] /\ cur \in [Slots -> AgentState]
             /\ buf \in [Slots -> Seq(Update)]
             /\ node \in [Slots -> Working \cup Halted]
             /\ est \in [Slots -> AgentState]
  BY <1>2, InitialStateType DEF Init, Controls, Halted
<1>3. ASSUME Init
      PROVE  /\ dpc \in [Approvers -> {"idle", "read", "written"}]
             /\ dec \in [Approvers -> Decision \cup {NoDecision}]
             /\ approvals \in Seq(Approval)
  BY <1>3 DEF Init
<1>4. ASSUME Init
      PROVE  /\ status \in Statuses /\ answers \in Nat
             /\ saved \in AgentState \cup {NoState} /\ flag \in BOOLEAN
             /\ cpc \in {"idle", "flag", "write"}
             /\ stale \in SUBSET Nat /\ swept \in BOOLEAN
             /\ granted \subseteq Tools /\ invoked \subseteq Tools
             /\ spent \in Spent
  BY <1>4 DEF Init, Statuses, Spent
<1> QED
  BY <1>1, <1>2, <1>3, <1>4 DEF TypeOK

\* The queue, the runner's own steps.
LEMMA RunnerType ==
    ASSUME TypeOK, NEW r \in Slots, Runner(r)
    PROVE  TypeOK'
<1> USE DEF dbVars, runVars, engineVars, humanVars
<1>1. CASE Load(r)
  BY <1>1, ReleaseType, JobsType DEF Load, TypeOK, Controls
<1>2. CASE CheckCancel(r)
  BY <1>2 DEF CheckCancel, TypeOK, Controls
<1>3. CASE SetRunning(r)
  BY <1>3 DEF SetRunning, TypeOK, Controls, Statuses
<1>4. CASE StartGraph(r)
  BY <1>4, InitialStateType
     DEF StartGraph, StartState, TypeOK, Controls, Working, Nodes
<1>5. CASE Consume(r)
  <2>1. buf[r] \in Seq(Update) /\ buf[r] # <<>>
    BY <1>5 DEF Consume, TypeOK
  <2>2. Head(buf[r]) \in Update /\ Tail(buf[r]) \in Seq(Update)
    BY <2>1
  <2>3. Head(buf[r]).st \in AgentState
    BY <2>2 DEF Update
  <2>4. saved' \in AgentState \cup {NoState}
    BY <1>5, <2>3 DEF Consume, TypeOK
  <2>5. cur' \in [Slots -> AgentState]
    BY <1>5, <2>3 DEF Consume, TypeOK
  <2>6. pc' \in [Slots -> Controls]
    BY <1>5 DEF Consume, TypeOK, Controls
  <2>7. buf' \in [Slots -> Seq(Update)]
    <3>1. <<>> \in Seq(Update)
      OBVIOUS
    <3>2. buf \in [Slots -> Seq(Update)]
      BY DEF TypeOK
    <3>3. buf' = [buf EXCEPT ![r] = Tail(@)] \/ buf' = [buf EXCEPT ![r] = <<>>]
      BY <1>5 DEF Consume
    <3> QED
      BY <2>2, <3>1, <3>2, <3>3
  <2> QED
    BY <1>5, <2>4, <2>5, <2>6, <2>7 DEF Consume, TypeOK
<1>6. CASE StreamEnds(r)
  BY <1>6 DEF StreamEnds, TypeOK, Controls
<1>7. CASE StreamThrows(r)
  BY <1>7, ReleaseType, JobsType DEF StreamThrows, TypeOK, Controls
<1>8. CASE CreateMessage(r)
  BY <1>8 DEF CreateMessage, TypeOK, Controls
<1>9. CASE Complete(r)
  BY <1>9 DEF Complete, TypeOK, Controls, Statuses
<1>10. CASE Announce(r)
  BY <1>10, ReleaseType, JobsType DEF Announce, TypeOK
<1>11. CASE Fail(r)
  BY <1>11, ReleaseType, JobsType DEF Fail, Failed, TypeOK, Statuses
<1>12. CASE HandleCancel(r)
  BY <1>12 DEF HandleCancel, TypeOK, Controls, Statuses
<1>13. CASE ClearCancel(r)
  BY <1>13, ReleaseType, JobsType DEF ClearCancel, TypeOK
<1> QED
  BY <1>1, <1>2, <1>3, <1>4, <1>5, <1>6, <1>7, <1>8, <1>9, <1>10, <1>11, <1>12, <1>13
     DEF Runner

\* The engine's steps, and an abandoned one's end.
LEMMA EngineType ==
    ASSUME TypeInv, NEW r \in Slots, Engine(r) \/ OrphanStops(r)
    PROVE  TypeOK'
<1> TypeOK /\ PendingNamed
  BY DEF TypeInv
<1> USE DEF dbVars, runVars, engineVars, humanVars
<1> est[r] \in AgentState
  BY DEF TypeOK
<1>1. CASE RunNode(r)
  <2>1. PICK s \in Outcomes(node[r], est[r]) : Emit(r, node[r], s)
    BY <1>1 DEF RunNode
  <2>2. s \in AgentState /\ node[r] \in Nodes
    BY <1>1, OutcomesType DEF RunNode
  <2> QED
    BY <1>1, <2>1, <2>2, EmitType DEF RunNode, TypeOK
<1>2. CASE ActLookup(r)
  <2>1. CASE Emit(r, "act", Acted(est[r]))
    BY <1>2, <2>1, ActedType, EmitType DEF ActLookup, TypeOK, Nodes
  <2>2. CASE /\ \/ node' = [node EXCEPT ![r] = "act_create"]
                \/ node' = [node EXCEPT ![r] = "act_invoke"]
             /\ UNCHANGED <<buf, est>>
    BY <1>2, <2>2 DEF ActLookup, TypeOK, Working
  <2> QED
    BY <1>2, <2>1, <2>2 DEF ActLookup
<1>3. CASE ActCreate(r)
  <2>1. est[r].pending \in Tools
    BY <1>3 DEF ActCreate, PendingNamed, AtAct, AgentState
  <2>2. [tool |-> est[r].pending, named |-> TRUE, status |-> "PENDING"] \in Approval
    BY <2>1 DEF Approval
  <2>3. approvals' \in Seq(Approval)
    BY <1>3, <2>2 DEF ActCreate, TypeOK
  <2> QED
    BY <1>3, <2>3 DEF ActCreate, TypeOK, Working
<1>4. CASE ActWait(r)
  BY <1>4 DEF ActWait, Paused, TypeOK, Statuses, Halted
<1>5. CASE ActInvoke(r)
  <2>1. est[r].pending \in Tools
    BY <1>5 DEF ActInvoke, PendingNamed, AtAct, AgentState
  <2>2. "act" \in Nodes /\ Acted(est[r]) \in AgentState
    BY ActedType DEF Nodes
  <2> QED
    BY <1>5, <2>1, <2>2, EmitType DEF ActInvoke, TypeOK
<1>6. CASE ActThrows(r)
  BY <1>6 DEF ActThrows, TypeOK, Halted
<1>7. CASE OrphanStops(r)
  BY <1>7, InitialStateType DEF OrphanStops, TypeOK, Controls, Halted
<1> QED
  BY <1>1, <1>2, <1>3, <1>4, <1>5, <1>6, <1>7 DEF Engine

\* The queue, the poll and the cancel route.
LEMMA QueueType ==
    ASSUME TypeOK,
           \/ \E r \in Slots, j \in Jobs : Dequeue(r, j)
           \/ \E j \in Jobs : RecoverStalled(j)
           \/ \E r \in Slots : PollCancel(r)
           \/ Cancelling
    PROVE  TypeOK'
<1> USE DEF dbVars, runVars, engineVars, humanVars
<1>1. ASSUME NEW r \in Slots, NEW j \in Jobs, Dequeue(r, j) PROVE TypeOK'
  <2>1. [jobs[j] EXCEPT !.state = "active"] \in Job
    BY JobFieldTypes DEF TypeOK
  <2>2. jobs' = [jobs EXCEPT ![j] = [jobs[j] EXCEPT !.state = "active"]]
    BY <1>1 DEF Dequeue
  <2>3. spent' \in Spent
    <3>1. spent' = [spent EXCEPT !.overlap = Busy # {}] /\ (Busy # {}) \in BOOLEAN
      BY <1>1 DEF Dequeue
    <3> QED
      BY <3>1 DEF TypeOK, Spent
  <2> QED
    BY <1>1, <2>1, <2>2, <2>3 DEF Dequeue, TypeOK, Controls
<1>2. ASSUME NEW j \in Jobs, RecoverStalled(j) PROVE TypeOK'
  <2> DEFINE b == [jobs[j] EXCEPT !.stalls = jobs[j].stalls + 1]
  <2>1. PICK x \in {"wait", "finished"} :
           jobs' = [jobs EXCEPT ![j] = [b EXCEPT !.state = x]]
    BY <1>2 DEF RecoverStalled
  <2>2. b \in Job
    BY JobFieldTypes DEF TypeOK
  <2>3. [b EXCEPT !.state = x] \in Job
    BY <2>2, JobFieldTypes
  <2>4. jobs' \in [Jobs -> Job]
    BY <2>1, <2>3 DEF TypeOK
  <2> QED
    BY <1>2, <2>4 DEF RecoverStalled, TypeOK
<1>3. ASSUME NEW r \in Slots, PollCancel(r) PROVE TypeOK'
  BY <1>3 DEF PollCancel, TypeOK
<1>4. ASSUME Cancelling PROVE TypeOK'
  <2>1. spent \in Spent /\ [spent EXCEPT !.cancels = spent.cancels + 1] \in Spent
    BY SpentFieldTypes DEF TypeOK
  <2> QED
    BY <1>4, <2>1 DEF Cancelling, CancelRequest, CancelFlag, CancelWrite,
                      FlagExpires, TypeOK, Statuses
<1> QED
  BY <1>1, <1>2, <1>3, <1>4

\* A job added to the queue.
LEMMA EnqueueType ==
    ASSUME TypeOK, Enqueue
    PROVE  jobs' \in [Jobs -> Job]
<1>1. PICK j \in Jobs :
         jobs' = [jobs EXCEPT ![j] = [jobs[j] EXCEPT !.state = "wait"]]
  BY DEF Enqueue
<1>2. [jobs[j] EXCEPT !.state = "wait"] \in Job
  BY JobFieldTypes DEF TypeOK
<1> QED
  BY <1>1, <1>2 DEF TypeOK

\* Deciding and sweeping.
LEMMA HumanType ==
    ASSUME TypeInv, Sweeping \/ \E p \in Approvers : Approving(p)
    PROVE  TypeOK'
<1> TypeOK /\ DecisionsHeld
  BY DEF TypeInv
<1> USE DEF dbVars, runVars, engineVars, humanVars
<1>1. ASSUME NEW p \in Approvers, NEW a \in 1..MaxApprovals,
             NEW to \in {"APPROVED", "REJECTED"}, NEW note \in BOOLEAN,
             DecideRead(p, a, to, note)
      PROVE  TypeOK'
  <2>1. [approval |-> a, to |-> to, note |-> note] \in Decision
    BY DEF Decision
  <2> QED
    BY <1>1, <2>1 DEF DecideRead, TypeOK
<1>2. ASSUME NEW p \in Approvers, DecideWrite(p) PROVE TypeOK'
  <2> DEFINE a == dec[p].approval
             row == [tool   |-> approvals[a].tool,
                     named  |-> approvals[a].named /\ ~dec[p].note,
                     status |-> dec[p].to]
  <2>1. dec[p] \in Decision /\ a \in DOMAIN approvals
    BY <1>2 DEF DecideWrite, DecisionsHeld
  <2>2. approvals[a] \in Approval
    BY <2>1 DEF TypeOK
  <2>3. row \in Approval /\ approvals[a].tool \in Tools
    BY <2>1, <2>2 DEF Decision, Approval
  <2>4. approvals' = [approvals EXCEPT ![a] = row]
    BY <1>2 DEF DecideWrite
  <2>5. approvals' \in Seq(Approval)
    BY <2>1, <2>3, <2>4 DEF TypeOK
  <2>6. granted' \subseteq Tools
    BY <1>2, <2>3 DEF DecideWrite, TypeOK
  <2> QED
    BY <1>2, <2>5, <2>6 DEF DecideWrite, TypeOK
<1>3. ASSUME NEW p \in Approvers, DecideResume(p) PROVE TypeOK'
  BY <1>3, EnqueueType DEF DecideResume, TypeOK
<1>4. ASSUME NEW k \in 1..MaxApprovals, SweepRead(k) PROVE TypeOK'
  <2>1. k \in Nat /\ 1..k \subseteq Nat
    BY <1>4 DEF SweepRead, TypeOK
  <2>2. stale' \subseteq Nat
    BY <1>4, <2>1 DEF SweepRead
  <2> QED
    BY <1>4, <2>2 DEF SweepRead, TypeOK
<1>5. ASSUME SweepMark PROVE TypeOK'
  <2>1. ASSUME NEW a \in DOMAIN approvals
        PROVE  /\ approvals[a] \in Approval
               /\ [approvals[a] EXCEPT !.status = "EXPIRED"] \in Approval
    <3>1. approvals[a] \in Approval
      BY DEF TypeOK
    <3> QED
      BY <3>1, ApprovalFieldTypes
  <2>2. approvals' \in [1..Len(approvals) -> Approval] /\ Len(approvals) \in Nat
    BY <1>5, <2>1 DEF SweepMark, TypeOK
  <2>3. approvals' \in Seq(Approval)
    BY <2>2, SeqDef
  <2> QED
    BY <1>5, <2>3 DEF SweepMark, TypeOK
<1>6. ASSUME NEW a \in 1..MaxApprovals, SweepResume(a) PROVE TypeOK'
  BY <1>6, EnqueueType DEF SweepResume, TypeOK
<1> QED
  BY <1>1, <1>2, <1>3, <1>4, <1>5, <1>6 DEF Sweeping, Approving

\* Faults and crashes.
LEMMA FailingType ==
    ASSUME TypeOK, Failing
    PROVE  TypeOK'
<1> USE DEF dbVars, runVars, engineVars, humanVars
<1>1. /\ [spent EXCEPT !.faults = spent.faults + 1] \in Spent
      /\ [spent EXCEPT !.crashes = spent.crashes + 1] \in Spent
  BY SpentFieldTypes DEF TypeOK
<1>2. ASSUME NEW r \in Slots, RunnerFault(r) PROVE TypeOK'
  <2>1. CASE JobThrew(r) /\ Release(r)
    BY <1>1, <1>2, <2>1, ReleaseType, JobsType DEF RunnerFault, Fault, TypeOK
  <2>2. CASE /\ pc' = [pc EXCEPT ![r] = "fail"]
             /\ buf' = [buf EXCEPT ![r] = <<>>]
             /\ UNCHANGED <<jobs, rjob, cancelled, cur, node, est>>
    BY <1>1, <1>2, <2>2 DEF RunnerFault, Fault, TypeOK, Controls
  <2> QED
    BY <1>2, <2>1, <2>2 DEF RunnerFault
<1>3. ASSUME NEW r \in Slots, NodeFault(r) PROVE TypeOK'
  BY <1>1, <1>3 DEF NodeFault, Fault, TypeOK, Halted
<1>4. ASSUME HandlerFault PROVE TypeOK'
  BY <1>1, <1>4 DEF HandlerFault, Fault, TypeOK
<1>5. ASSUME WorkerCrash PROVE TypeOK'
  <2>1. buf' \in [Slots -> Seq(Update)]
    BY <1>5 DEF WorkerCrash
  <2> QED
    BY <1>1, <1>5, <2>1, InitialStateType
       DEF WorkerCrash, TypeOK, Controls, Halted, NoJob
<1> QED
  BY <1>2, <1>3, <1>4, <1>5 DEF Failing

---------------------------------------------------------------------------
(* Who may change what: the few ways in which a step of the whole system     *)
(* changes the engine of a slot, the approvals and a decision handler.       *)

\* In any step the engine of a slot is started, works, is left alone, or stops.
LEMMA EngineMoves ==
    ASSUME TypeOK, [Next]_vars, NEW r \in Slots
    PROVE  \/ StartGraph(r) \/ Engine(r)
           \/ node'[r] = node[r] /\ est'[r] = est[r]
           \/ node'[r] \in Halted /\ est'[r] \in {est[r], InitialState}
<1> USE DEF dbVars, runVars, engineVars, humanVars
<1> DEFINE Same == node'[r] = node[r] /\ est'[r] = est[r]
           Stops == node'[r] \in Halted /\ est'[r] \in {est[r], InitialState}
           Goal == StartGraph(r) \/ Engine(r) \/ Same \/ Stops
<1>1. ASSUME NEW q \in Slots, Release(q) PROVE Same \/ Stops
  BY <1>1 DEF Release, TypeOK, Halted
<1>2. ASSUME NEW q \in Slots, Runner(q) PROVE Goal
  <2>1. CASE StartGraph(q)
    BY <2>1 DEF StartGraph, TypeOK
  <2>2. CASE Release(q)
    BY <2>2, <1>1
  <2>3. CASE UNCHANGED <<node, est>>
    BY <2>3
  <2> QED
    BY <1>2, <2>1, <2>2, <2>3
       DEF Runner, Load, CheckCancel, SetRunning, Consume, StreamEnds,
           StreamThrows, CreateMessage, Complete, Announce, Fail, HandleCancel,
           ClearCancel
<1>3. ASSUME NEW q \in Slots, Engine(q) PROVE Goal
  <2>1. CASE q = r
    BY <1>3, <2>1
  <2>2. ASSUME q # r, NEW n, NEW s, Emit(q, n, s) PROVE Same
    BY <2>2 DEF Emit, TypeOK
  <2>3. ASSUME q # r, ~\E n, s : Emit(q, n, s) PROVE Same
    BY <1>3, <2>3 DEF Engine, RunNode, ActLookup, ActCreate, ActWait, ActInvoke,
                      ActThrows, TypeOK
  <2> QED
    BY <2>1, <2>2, <2>3
<1>4. ASSUME NEW q \in Slots, OrphanStops(q) PROVE Same \/ Stops
  BY <1>4 DEF OrphanStops, TypeOK, Halted
<1>5. ASSUME Failing PROVE Same \/ Stops
  <2>1. ASSUME NEW q \in Slots, RunnerFault(q) PROVE Same \/ Stops
    BY <2>1, <1>1 DEF RunnerFault
  <2>2. ASSUME NEW q \in Slots, NodeFault(q) PROVE Same \/ Stops
    BY <2>2 DEF NodeFault, TypeOK, Halted
  <2> QED
    BY <1>5, <2>1, <2>2 DEF Failing, HandlerFault, WorkerCrash, Halted
<1>6. ASSUME \/ \E q \in Slots, j \in Jobs : Dequeue(q, j)
             \/ \E j \in Jobs : RecoverStalled(j)
             \/ \E q \in Slots : PollCancel(q)
             \/ \E p \in Approvers : Approving(p)
             \/ Sweeping \/ Cancelling
             \/ UNCHANGED vars
      PROVE  Same
  BY <1>6 DEF Dequeue, RecoverStalled, PollCancel, Approving, DecideRead,
              DecideWrite, DecideResume, Sweeping, SweepRead, SweepMark,
              SweepResume, Cancelling, CancelRequest, CancelFlag, CancelWrite,
              FlagExpires, vars
<1> QED
  BY <1>2, <1>3, <1>4, <1>5, <1>6 DEF Next

\* The approvals change where one is created, decided or expired.
LEMMA ApprovalMoves ==
    ASSUME [Next]_vars
    PROVE  \/ approvals' = approvals /\ granted' = granted
           \/ \E r \in Slots : ActCreate(r)
           \/ \E p \in Approvers : DecideWrite(p)
           \/ SweepMark
<1> USE DEF dbVars, runVars, engineVars, humanVars
<1>1. ASSUME NEW r \in Slots, Runner(r) \/ PollCancel(r) \/ OrphanStops(r)
      PROVE  approvals' = approvals /\ granted' = granted
  BY <1>1 DEF Runner, Load, CheckCancel, SetRunning, StartGraph, Consume,
              StreamEnds, StreamThrows, CreateMessage, Complete, Announce, Fail,
              HandleCancel, ClearCancel, PollCancel, OrphanStops
<1>2. ASSUME NEW r \in Slots, Engine(r), ~ActCreate(r)
      PROVE  approvals' = approvals /\ granted' = granted
  BY <1>2 DEF Engine, RunNode, ActLookup, ActWait, ActInvoke, ActThrows
<1>3. ASSUME Failing PROVE approvals' = approvals /\ granted' = granted
  BY <1>3 DEF Failing, RunnerFault, NodeFault, HandlerFault, WorkerCrash
<1>4. ASSUME NEW p \in Approvers, Approving(p), ~DecideWrite(p)
      PROVE  approvals' = approvals /\ granted' = granted
  BY <1>4 DEF Approving, DecideRead, DecideResume
<1>5. ASSUME Sweeping, ~SweepMark PROVE approvals' = approvals /\ granted' = granted
  BY <1>5 DEF Sweeping, SweepRead, SweepResume
<1>6. ASSUME \/ \E r \in Slots, j \in Jobs : Dequeue(r, j)
             \/ \E j \in Jobs : RecoverStalled(j)
             \/ Cancelling
             \/ UNCHANGED vars
      PROVE  approvals' = approvals /\ granted' = granted
  BY <1>6 DEF Dequeue, RecoverStalled, Cancelling, CancelRequest, CancelFlag,
              CancelWrite, FlagExpires, vars
<1> QED
  BY <1>1, <1>2, <1>3, <1>4, <1>5, <1>6 DEF Next

\* A decision handler reads, writes, ends, or is left alone.
LEMMA DecisionMoves ==
    ASSUME TypeOK, [Next]_vars, NEW p \in Approvers
    PROVE  \/ dpc'[p] = dpc[p] /\ dec'[p] = dec[p]
           \/ dpc'[p] = "idle"
           \/ \E a \in 1..MaxApprovals, to \in {"APPROVED", "REJECTED"},
                 note \in BOOLEAN : DecideRead(p, a, to, note)
           \/ DecideWrite(p)
<1> USE DEF dbVars, runVars, engineVars, humanVars
<1> DEFINE Same == dpc'[p] = dpc[p] /\ dec'[p] = dec[p]
<1>1. ASSUME NEW r \in Slots, Runner(r) \/ PollCancel(r) \/ OrphanStops(r)
      PROVE  Same
  BY <1>1 DEF Runner, Load, CheckCancel, SetRunning, StartGraph, Consume,
              StreamEnds, StreamThrows, CreateMessage, Complete, Announce, Fail,
              HandleCancel, ClearCancel, PollCancel, OrphanStops
<1>2. ASSUME NEW r \in Slots, Engine(r) PROVE Same
  BY <1>2 DEF Engine, RunNode, ActLookup, ActCreate, ActWait, ActInvoke, ActThrows
<1>3. ASSUME Failing PROVE Same \/ dpc'[p] = "idle"
  BY <1>3 DEF Failing, RunnerFault, NodeFault, HandlerFault, WorkerCrash, TypeOK
<1>4. ASSUME NEW q \in Approvers, Approving(q), q # p PROVE Same
  BY <1>4 DEF Approving, DecideRead, DecideWrite, DecideResume, TypeOK
<1>5. ASSUME DecideResume(p) PROVE dpc'[p] = "idle"
  BY <1>5 DEF DecideResume, TypeOK
<1>6. ASSUME \/ \E r \in Slots, j \in Jobs : Dequeue(r, j)
             \/ \E j \in Jobs : RecoverStalled(j)
             \/ Cancelling \/ Sweeping
             \/ UNCHANGED vars
      PROVE  Same
  BY <1>6 DEF Dequeue, RecoverStalled, Cancelling, CancelRequest, CancelFlag,
              CancelWrite, FlagExpires, Sweeping, SweepRead, SweepMark,
              SweepResume, vars
<1> QED
  BY <1>1, <1>2, <1>3, <1>4, <1>5, <1>6 DEF Next, Approving

---------------------------------------------------------------------------
(* The two strengthenings, and type correctness.                            *)

\* Only reason leads to act, and only with a tool pending; the steps inside
\* the act node leave it pending.
LEMMA PendingStep ==
    ASSUME TypeInv, [Next]_vars
    PROVE  PendingNamed'
<1> TypeOK /\ PendingNamed
  BY DEF TypeInv
<1> USE DEF dbVars, runVars, engineVars, humanVars
<1> SUFFICES ASSUME NEW r \in Slots, node'[r] \in AtAct
             PROVE  est'[r].pending # NoTool
  BY DEF PendingNamed
<1>1. CASE node'[r] = node[r] /\ est'[r] = est[r]
  BY <1>1 DEF PendingNamed
<1>2. CASE node'[r] \in Halted
  BY <1>2 DEF Halted, AtAct
<1>3. CASE StartGraph(r)
  BY <1>3 DEF StartGraph, AtAct, TypeOK
<1>4. CASE Engine(r)
  <2>1. ASSUME NEW n \in Nodes, NEW s \in AgentState, Emit(r, n, s)
        PROVE  est'[r].pending # NoTool
    <3>1. est'[r] = s /\ node'[r] = NextNode(n, s)
      BY <2>1 DEF Emit, TypeOK
    <3>2. n = "reason" /\ AfterReason(s) = "act"
      BY <3>1 DEF NextNode, AfterPlan, AfterReason, AtAct, Nodes
    <3> QED
      BY <3>1, <3>2 DEF AfterReason
  <2>2. CASE RunNode(r)
    <3>1. est[r] \in AgentState
      BY DEF TypeOK
    <3> QED
      BY <2>1, <2>2, <3>1, OutcomesType DEF RunNode
  <2>3. CASE \E s : Emit(r, "act", s)
    <3>1. node'[r] = "observe"
      BY <2>3 DEF Emit, NextNode, TypeOK
    <3> QED
      BY <3>1 DEF AtAct
  <2>4. CASE est' = est /\ node[r] \in AtAct
    BY <2>4 DEF PendingNamed
  <2> QED
    BY <1>4, <2>2, <2>3, <2>4 DEF Engine, ActLookup, ActCreate, ActWait,
                                  ActInvoke, ActThrows, AtAct
<1> QED
  BY <1>1, <1>2, <1>3, <1>4, EngineMoves

\* Approvals are never deleted, so what a handler has read is still there.
LEMMA DecisionStep ==
    ASSUME TypeInv, [Next]_vars
    PROVE  DecisionsHeld'
<1> TypeOK /\ DecisionsHeld
  BY DEF TypeInv
<1> USE DEF dbVars, runVars, engineVars, humanVars
<1>1. DOMAIN approvals \subseteq DOMAIN approvals'
  <2>1. ASSUME NEW r \in Slots, ActCreate(r)
        PROVE  DOMAIN approvals \subseteq DOMAIN approvals'
    BY <2>1 DEF ActCreate, TypeOK
  <2>2. ASSUME NEW p \in Approvers, DecideWrite(p)
        PROVE  DOMAIN approvals \subseteq DOMAIN approvals'
    BY <2>2 DEF DecideWrite
  <2>3. ASSUME SweepMark PROVE DOMAIN approvals \subseteq DOMAIN approvals'
    BY <2>3 DEF SweepMark
  <2> QED
    BY <2>1, <2>2, <2>3, ApprovalMoves
<1>2. SUFFICES ASSUME NEW p \in Approvers, dpc'[p] # "idle"
               PROVE  dec'[p] \in Decision /\ dec'[p].approval \in DOMAIN approvals'
  BY DEF DecisionsHeld
<1>3. CASE dpc'[p] = dpc[p] /\ dec'[p] = dec[p]
  BY <1>1, <1>2, <1>3 DEF DecisionsHeld
<1>4. ASSUME NEW a \in 1..MaxApprovals, NEW to \in {"APPROVED", "REJECTED"},
             NEW note \in BOOLEAN, DecideRead(p, a, to, note)
      PROVE  dec'[p] \in Decision /\ dec'[p].approval \in DOMAIN approvals'
  <2>1. dec'[p] = [approval |-> a, to |-> to, note |-> note]
    BY <1>4 DEF DecideRead, TypeOK
  <2>2. a \in DOMAIN approvals
    BY <1>4 DEF DecideRead
  <2> QED
    BY <1>1, <2>1, <2>2 DEF Decision
<1>5. CASE DecideWrite(p)
  BY <1>1, <1>5 DEF DecideWrite, DecisionsHeld
<1> QED
  BY <1>2, <1>3, <1>4, <1>5, DecisionMoves

LEMMA TypeInvInit == Init => TypeInv
  BY TypeInit DEF Init, TypeInv, PendingNamed, DecisionsHeld, AtAct

LEMMA TypeInvStep == TypeInv /\ [Next]_vars => TypeInv'
<1> SUFFICES ASSUME TypeInv, [Next]_vars PROVE TypeInv'
  OBVIOUS
<1>1. TypeOK'
  <2> TypeOK
    BY DEF TypeInv
  <2>1. CASE UNCHANGED vars
    BY <2>1 DEF vars, dbVars, runVars, engineVars, humanVars, TypeOK
  <2> QED
    BY <2>1, RunnerType, EngineType, QueueType, HumanType, FailingType DEF Next
<1> QED
  BY <1>1, PendingStep, DecisionStep DEF TypeInv

\* Every variable keeps its type, whatever the number of slots, jobs,
\* approvals, approvers, attempts and failures.
THEOREM TypeCorrect == Spec => []TypeOK
<1>1. TypeInv => TypeOK
  BY DEF TypeInv
<1> QED
  BY <1>1, TypeInvInit, TypeInvStep, PTL DEF Spec

---------------------------------------------------------------------------
(* The approval gate.  Between the decision and the call lie the approval    *)
(* row and the act node's own reading of it; the invariant follows the       *)
(* permission through both.                                                  *)

\* A row that says APPROVED was approved by somebody.
ApprovedGranted ==
    \A a \in DOMAIN approvals :
        approvals[a].status = "APPROVED" => approvals[a].tool \in granted

\* A gated tool about to be invoked has been approved.
InvokeGranted ==
    \A r \in Slots :
        node[r] = "act_invoke" /\ est[r].pending \in Gated
            => est[r].pending \in granted

GateInv == TypeInv /\ ApprovedGranted /\ InvokeGranted /\ GateRespected

\* An approval once given stays given.
LEMMA GrantedGrows ==
    ASSUME [Next]_vars
    PROVE  granted \subseteq granted'
<1> USE DEF humanVars
<1>1. ASSUME NEW r \in Slots, ActCreate(r) PROVE granted \subseteq granted'
  BY <1>1 DEF ActCreate
<1>2. ASSUME NEW p \in Approvers, DecideWrite(p) PROVE granted \subseteq granted'
  BY <1>2 DEF DecideWrite
<1>3. ASSUME SweepMark PROVE granted \subseteq granted'
  BY <1>3 DEF SweepMark
<1> QED
  BY <1>1, <1>2, <1>3, ApprovalMoves

\* A new row is pending, a sweep only expires, and a decision is recorded.
LEMMA ApprovedGrantedStep ==
    ASSUME GateInv, [Next]_vars
    PROVE  ApprovedGranted'
<1> TypeOK /\ DecisionsHeld /\ ApprovedGranted
  BY DEF GateInv, TypeInv
<1> USE DEF humanVars
<1>1. CASE approvals' = approvals /\ granted' = granted
  BY <1>1 DEF ApprovedGranted
<1>2. ASSUME NEW r \in Slots, ActCreate(r) PROVE ApprovedGranted'
  <2> SUFFICES ASSUME NEW a \in DOMAIN approvals', approvals'[a].status = "APPROVED"
               PROVE  approvals'[a].tool \in granted'
    BY DEF ApprovedGranted
  <2>1. approvals' = Append(approvals, [tool |-> est[r].pending, named |-> TRUE,
                                        status |-> "PENDING"])
        /\ granted' = granted
    BY <1>2 DEF ActCreate
  <2>2. CASE a = Len(approvals) + 1
    BY <2>1, <2>2 DEF TypeOK
  <2>3. CASE a \in DOMAIN approvals
    BY <2>1, <2>3 DEF TypeOK, ApprovedGranted
  <2> QED
    BY <2>1, <2>2, <2>3 DEF TypeOK
<1>3. ASSUME NEW p \in Approvers, DecideWrite(p) PROVE ApprovedGranted'
  <2> DEFINE b == dec[p].approval
             row == [tool   |-> approvals[b].tool,
                     named  |-> approvals[b].named /\ ~dec[p].note,
                     status |-> dec[p].to]
  <2>1. approvals' = [approvals EXCEPT ![b] = row]
    BY <1>3 DEF DecideWrite
  <2>2. granted' = IF dec[p].to = "APPROVED"
                   THEN granted \cup {approvals[b].tool} ELSE granted
    BY <1>3 DEF DecideWrite
  <2> SUFFICES ASSUME NEW a \in DOMAIN approvals', approvals'[a].status = "APPROVED"
               PROVE  approvals'[a].tool \in granted'
    BY DEF ApprovedGranted
  <2>3. CASE a = b
    BY <2>1, <2>2, <2>3
  <2>4. CASE a # b
    BY <2>1, <2>2, <2>4 DEF ApprovedGranted
  <2> QED
    BY <2>3, <2>4
<1>4. ASSUME SweepMark PROVE ApprovedGranted'
  <2>1. \A a \in DOMAIN approvals :
           approvals'[a] = IF a \in stale
                           THEN [approvals[a] EXCEPT !.status = "EXPIRED"]
                           ELSE approvals[a]
    BY <1>4 DEF SweepMark
  <2>2. \A a \in DOMAIN approvals : approvals[a] \in Approval
    BY DEF TypeOK
  <2>3. DOMAIN approvals' = DOMAIN approvals /\ granted' = granted
    BY <1>4 DEF SweepMark
  <2>4. \A a \in DOMAIN approvals :
           [approvals[a] EXCEPT !.status = "EXPIRED"].status = "EXPIRED"
    BY <2>2 DEF Approval
  <2> QED
    BY <2>1, <2>3, <2>4 DEF ApprovedGranted
<1> QED
  BY <1>1, <1>2, <1>3, <1>4, ApprovalMoves

\* The act node goes on to the call only when the row it found says APPROVED.
LEMMA InvokeGrantedStep ==
    ASSUME GateInv, [Next]_vars
    PROVE  InvokeGranted'
<1> TypeOK /\ ApprovedGranted /\ InvokeGranted
  BY DEF GateInv, TypeInv
<1> SUFFICES ASSUME NEW r \in Slots, node'[r] = "act_invoke",
                    est'[r].pending \in Gated
             PROVE  est'[r].pending \in granted'
  BY DEF InvokeGranted
<1>1. CASE node'[r] = node[r] /\ est'[r] = est[r]
  BY <1>1, GrantedGrows DEF InvokeGranted
<1>2. CASE node'[r] \in Halted
  BY <1>2 DEF Halted
<1>3. CASE StartGraph(r)
  BY <1>3 DEF StartGraph, TypeOK
<1>4. CASE Engine(r)
  <2>1. ASSUME NEW n \in Nodes, NEW s, Emit(r, n, s) PROVE FALSE
    <3>1. node'[r] = NextNode(n, s)
      BY <2>1 DEF Emit, TypeOK
    <3> QED
      BY <3>1 DEF NextNode, AfterPlan, AfterReason, Nodes
  <2>2. ActLookup(r) /\ est' = est
    BY <1>4, <2>1 DEF Engine, RunNode, ActLookup, ActCreate, ActWait, ActInvoke,
                      ActThrows, TypeOK, Nodes
  <2>3. PICK d \in DecisionFor(est[r].pending) : d = "APPROVED"
    BY <2>1, <2>2 DEF ActLookup, TypeOK, Nodes
  <2>4. PICK a \in DOMAIN approvals : /\ approvals[a].tool = est[r].pending
                                      /\ approvals[a].status = "APPROVED"
    BY <2>3 DEF DecisionFor, Latest, Naming
  <2> QED
    BY <2>2, <2>4, GrantedGrows DEF ApprovedGranted
<1> QED
  BY <1>1, <1>2, <1>3, <1>4, EngineMoves

\* Only the act node's last step hands a tool to the executor.
LEMMA InvokedMoves ==
    ASSUME [Next]_vars
    PROVE  invoked' = invoked \/ \E r \in Slots : ActInvoke(r)
<1>1. ASSUME NEW r \in Slots, Runner(r) \/ PollCancel(r) \/ OrphanStops(r)
      PROVE  invoked' = invoked
  BY <1>1 DEF Runner, Load, CheckCancel, SetRunning, StartGraph, Consume,
              StreamEnds, StreamThrows, CreateMessage, Complete, Announce, Fail,
              HandleCancel, ClearCancel, PollCancel, OrphanStops
<1>2. ASSUME NEW r \in Slots, Engine(r), ~ActInvoke(r) PROVE invoked' = invoked
  BY <1>2 DEF Engine, RunNode, ActLookup, ActCreate, ActWait, ActThrows
<1>3. ASSUME Failing PROVE invoked' = invoked
  BY <1>3 DEF Failing, RunnerFault, NodeFault, HandlerFault, WorkerCrash
<1>4. ASSUME NEW p \in Approvers, Approving(p) PROVE invoked' = invoked
  BY <1>4 DEF Approving, DecideRead, DecideWrite, DecideResume
<1>5. ASSUME \/ \E r \in Slots, j \in Jobs : Dequeue(r, j)
             \/ \E j \in Jobs : RecoverStalled(j)
             \/ Cancelling \/ Sweeping
             \/ UNCHANGED vars
      PROVE  invoked' = invoked
  BY <1>5 DEF Dequeue, RecoverStalled, Cancelling, CancelRequest, CancelFlag,
              CancelWrite, FlagExpires, Sweeping, SweepRead, SweepMark,
              SweepResume, vars
<1> QED
  BY <1>1, <1>2, <1>3, <1>4, <1>5 DEF Next

LEMMA GateInvStep == GateInv /\ [Next]_vars => GateInv'
<1> SUFFICES ASSUME GateInv, [Next]_vars PROVE GateInv'
  OBVIOUS
<1>1. TypeInv'
  BY TypeInvStep DEF GateInv
<1>2. GateRespected'
  <2>1. CASE invoked' = invoked
    BY <2>1, GrantedGrows DEF GateInv, GateRespected
  <2>2. ASSUME NEW r \in Slots, ActInvoke(r) PROVE GateRespected'
    <3>1. invoked' = invoked \cup {est[r].pending} /\ node[r] = "act_invoke"
      BY <2>2 DEF ActInvoke
    <3> QED
      BY <3>1, GrantedGrows DEF GateInv, InvokeGranted, GateRespected
  <2> QED
    BY <2>1, <2>2, InvokedMoves
<1> QED
  BY <1>1, <1>2, ApprovedGrantedStep, InvokeGrantedStep DEF GateInv

\* A gated tool is handed to the executor only after somebody approved it for
\* this execution, however many runs, approvers, sweeps and failures there are.
THEOREM GateCorrect == Spec => []GateRespected
<1>1. Init => GateInv
  BY TypeInvInit
     DEF Init, GateInv, ApprovedGranted, InvokeGranted, GateRespected
<1>2. GateInv => GateRespected
  BY DEF GateInv
<1> QED
  BY <1>1, <1>2, GateInvStep, PTL DEF Spec

---------------------------------------------------------------------------
(* Locality: a step of another slot or process leaves a slot alone.          *)

Untouched(r) ==
    /\ pc'[r] = pc[r] /\ cur'[r] = cur[r] /\ buf'[r] = buf[r]
    /\ node'[r] = node[r] /\ est'[r] = est[r]

OwnStep(r) ==
    \/ Runner(r) \/ Engine(r) \/ OrphanStops(r) \/ RunnerFault(r) \/ NodeFault(r)
    \/ \E j \in Jobs : Dequeue(r, j)

\* Whatever happens, a slot is left alone, takes a step of its own, or the
\* worker process has crashed.
LEMMA SlotMoves ==
    ASSUME TypeOK, [Next]_vars, NEW r \in Slots
    PROVE  Untouched(r) \/ OwnStep(r) \/ WorkerCrash
<1> USE DEF dbVars, runVars, engineVars, humanVars
<1>1. ASSUME NEW q \in Slots, q # r, Release(q) PROVE Untouched(r)
  BY <1>1 DEF Release, TypeOK, Untouched
<1>2. ASSUME NEW q \in Slots, q # r, NEW n, NEW s, Emit(q, n, s),
             UNCHANGED runVars
      PROVE  Untouched(r)
  BY <1>2 DEF Emit, TypeOK, Untouched
<1>3. ASSUME NEW q \in Slots, q # r, Runner(q) PROVE Untouched(r)
  <2>1. CASE Release(q)
    BY <1>3, <2>1, <1>1
  <2>2. CASE ~Release(q)
    BY <1>3, <2>2
       DEF Runner, Load, CheckCancel, SetRunning, StartGraph, Consume,
           StreamEnds, StreamThrows, CreateMessage, Complete, Announce, Fail,
           HandleCancel, ClearCancel, TypeOK, Untouched
  <2> QED
    BY <2>1, <2>2
<1>4. ASSUME NEW q \in Slots, q # r, Engine(q) PROVE Untouched(r)
  <2>1. CASE \E n, s : Emit(q, n, s)
    BY <1>4, <2>1, <1>2 DEF Engine, RunNode, ActLookup, ActCreate, ActWait,
                            ActInvoke, ActThrows
  <2>2. CASE ~\E n, s : Emit(q, n, s)
    BY <1>4, <2>2 DEF Engine, RunNode, ActLookup, ActCreate, ActWait, ActInvoke,
                      ActThrows, TypeOK, Untouched
  <2> QED
    BY <2>1, <2>2
<1>5. ASSUME NEW q \in Slots, q # r, OrphanStops(q) \/ NodeFault(q)
      PROVE  Untouched(r)
  BY <1>5 DEF OrphanStops, NodeFault, TypeOK, Untouched
<1>6. ASSUME NEW q \in Slots, q # r, RunnerFault(q) PROVE Untouched(r)
  BY <1>6, <1>1 DEF RunnerFault, TypeOK, Untouched
<1>7. ASSUME NEW q \in Slots, NEW j \in Jobs, q # r, Dequeue(q, j)
      PROVE  Untouched(r)
  BY <1>7 DEF Dequeue, TypeOK, Untouched
<1>8. ASSUME \/ \E j \in Jobs : RecoverStalled(j)
             \/ \E q \in Slots : PollCancel(q)
             \/ Cancelling \/ Sweeping \/ HandlerFault
             \/ UNCHANGED vars
      PROVE  Untouched(r)
  BY <1>8 DEF RecoverStalled, PollCancel, Cancelling, CancelRequest, CancelFlag,
              CancelWrite, FlagExpires, Sweeping, SweepRead, SweepMark,
              SweepResume, HandlerFault, vars, Untouched
<1>9. ASSUME NEW p \in Approvers, Approving(p) PROVE Untouched(r)
  BY <1>9 DEF Approving, DecideRead, DecideWrite, DecideResume, Untouched
<1> QED
  BY <1>3, <1>4, <1>5, <1>6, <1>7, <1>8, <1>9 DEF Next, Failing, OwnStep

---------------------------------------------------------------------------
(* The answer.  The message is written from the runner's copy of the state,  *)
(* the respond node works on the engine's: the invariant relates the two.    *)

Early == {"free", "load", "check", "setrun", "loadcp"}

\* Before its graph is started a slot's engine is idle and its buffer empty.
Quiet ==
    \A r \in Slots :
        /\ pc[r] \in Early => node[r] = "idle"
        /\ pc[r] \in Early \cup {"orphan"} => buf[r] = <<>>

\* The state the runner will have when it has consumed all it was handed.
LastSeen(r) == IF buf[r] = <<>> THEN cur[r] ELSE buf[r][Len(buf[r])].st

\* While the runner streams, that state is the engine's.
Followed == \A r \in Slots : pc[r] = "stream" => LastSeen(r) = est[r]

\* An engine that is done has responded.
EndAnswered ==
    \A r \in Slots : node[r] = "end" => est[r].response # "null"

AnswerInv ==
    TypeInv /\ Quiet /\ Followed /\ EndAnswered /\ AnswersAreResponses

LEMMA QuietStep ==
    ASSUME TypeInv, Quiet, [Next]_vars
    PROVE  Quiet'
<1> TypeOK
  BY DEF TypeInv
<1> USE DEF dbVars, runVars, engineVars, humanVars
<1> SUFFICES ASSUME NEW r \in Slots
             PROVE  /\ pc'[r] \in Early => node'[r] = "idle"
                    /\ pc'[r] \in Early \cup {"orphan"} => buf'[r] = <<>>
  BY DEF Quiet
<1> DEFINE Goal == /\ pc'[r] \in Early => node'[r] = "idle"
                   /\ pc'[r] \in Early \cup {"orphan"} => buf'[r] = <<>>
<1>1. CASE Untouched(r)
  BY <1>1 DEF Untouched, Quiet
<1>2. CASE WorkerCrash
  BY <1>2 DEF WorkerCrash
<1>3. CASE Release(r)
  BY <1>3 DEF Release, TypeOK, Halted, Early
<1>4. CASE Runner(r)
  BY <1>3, <1>4
     DEF Runner, Load, CheckCancel, SetRunning, StartGraph, Consume, StreamEnds,
         StreamThrows, CreateMessage, Complete, Announce, Fail, HandleCancel,
         ClearCancel, TypeOK, Early, Quiet
<1>5. CASE Engine(r)
  <2>1. pc' = pc /\ node[r] \in Working
    BY <1>5 DEF Engine, RunNode, ActLookup, ActCreate, ActWait, ActInvoke,
                ActThrows, Working, Nodes
  <2>2. pc[r] \notin Early
    BY <2>1 DEF Quiet, Working, Nodes
  <2>3. pc[r] = "orphan" => buf' = buf
    BY <1>5 DEF Engine, RunNode, ActLookup, ActCreate, ActWait, ActInvoke,
                ActThrows, Emit, Abandoned
  <2> QED
    BY <2>1, <2>2, <2>3 DEF Quiet
<1>6. CASE OrphanStops(r)
  BY <1>6 DEF OrphanStops, TypeOK, Quiet
<1>7. CASE RunnerFault(r)
  BY <1>3, <1>7 DEF RunnerFault, TypeOK, Early
<1>8. CASE NodeFault(r)
  BY <1>8 DEF NodeFault, TypeOK, Quiet, Working, Nodes
<1>9. ASSUME NEW j \in Jobs, Dequeue(r, j) PROVE Goal
  BY <1>9 DEF Dequeue, TypeOK, Quiet, Early
<1> QED
  BY <1>1, <1>2, <1>4, <1>5, <1>6, <1>7, <1>8, <1>9, SlotMoves DEF OwnStep

\* Only respond leads to the end, and it leaves a response behind.
LEMMA EndAnsweredStep ==
    ASSUME TypeInv, EndAnswered, [Next]_vars
    PROVE  EndAnswered'
<1> TypeOK
  BY DEF TypeInv
<1> USE DEF dbVars, runVars, engineVars, humanVars
<1> SUFFICES ASSUME NEW r \in Slots, node'[r] = "end"
             PROVE  est'[r].response # "null"
  BY DEF EndAnswered
<1>1. CASE node'[r] = node[r] /\ est'[r] = est[r]
  BY <1>1 DEF EndAnswered
<1>2. CASE StartGraph(r)
  BY <1>2 DEF StartGraph, TypeOK
<1>3. CASE Engine(r)
  <2>1. ASSUME NEW n \in Nodes, NEW s, Emit(r, n, s) PROVE n = "respond" /\ est'[r] = s
    <3>1. node'[r] = NextNode(n, s) /\ est'[r] = s
      BY <2>1 DEF Emit, TypeOK
    <3> QED
      BY <3>1 DEF NextNode, AfterPlan, AfterReason, Nodes
  <2>2. CASE RunNode(r)
    <3>1. PICK s \in Outcomes(node[r], est[r]) : Emit(r, node[r], s)
      BY <2>2 DEF RunNode
    <3>2. node[r] = "respond" /\ est'[r] = s
      BY <2>1, <2>2, <3>1 DEF RunNode
    <3>3. s \in Responded(est[r])
      BY <3>1, <3>2 DEF Outcomes
    <3>4. est[r] \in AgentState
      BY DEF TypeOK
    <3> QED
      BY <3>2, <3>3, <3>4, GraphAssumption DEF Responded, AgentState
  <2>3. CASE ~RunNode(r)
    BY <1>3, <2>1, <2>3 DEF Engine, ActLookup, ActCreate, ActWait, ActInvoke,
                            ActThrows, TypeOK, Nodes
  <2> QED
    BY <2>2, <2>3
<1>4. CASE Release(r)
  BY <1>4 DEF Release, TypeOK, EndAnswered, Halted
<1>5. CASE NodeFault(r) \/ OrphanStops(r) \/ WorkerCrash
  BY <1>5 DEF NodeFault, OrphanStops, WorkerCrash, TypeOK
<1>6. CASE Runner(r) /\ ~StartGraph(r)
  BY <1>1, <1>4, <1>6
     DEF Runner, Load, CheckCancel, SetRunning, Consume, StreamEnds,
         StreamThrows, CreateMessage, Complete, Announce, Fail, HandleCancel,
         ClearCancel
<1>7. CASE RunnerFault(r)
  BY <1>1, <1>4, <1>7 DEF RunnerFault
<1>8. CASE \E j \in Jobs : Dequeue(r, j)
  BY <1>1, <1>8 DEF Dequeue
<1> QED
  BY <1>1, <1>2, <1>3, <1>5, <1>6, <1>7, <1>8, SlotMoves DEF OwnStep, Untouched

\* Each update the engine appends is its new state, and the runner takes them
\* in order, so the two meet when the buffer is empty.
LEMMA FollowedStep ==
    ASSUME TypeInv, Quiet, Followed, [Next]_vars
    PROVE  Followed'
<1> TypeOK
  BY DEF TypeInv
<1> USE DEF dbVars, runVars, engineVars, humanVars
<1> SUFFICES ASSUME NEW r \in Slots, pc'[r] = "stream"
             PROVE  LastSeen(r)' = est'[r]
  BY DEF Followed
<1>1. CASE Untouched(r)
  BY <1>1 DEF Untouched, Followed, LastSeen
<1>2. CASE WorkerCrash \/ Release(r) \/ OrphanStops(r)
  BY <1>2 DEF WorkerCrash, Release, OrphanStops, TypeOK
<1>3. CASE StartGraph(r)
  <2>1. buf'[r] = <<>>
    BY <1>3 DEF StartGraph, Quiet, Early
  <2> QED
    BY <1>3, <2>1 DEF StartGraph, TypeOK, LastSeen
<1>4. CASE Consume(r)
  <2> DEFINE b == buf[r]
  <2>1. b \in Seq(Update) /\ b # <<>> /\ pc[r] = "stream"
    BY <1>4 DEF Consume, TypeOK
  <2>2. /\ cur'[r] = Head(b).st /\ buf'[r] = Tail(b) /\ est' = est
    BY <1>4 DEF Consume, TypeOK
  <2>3. est[r] = b[Len(b)].st
    BY <2>1 DEF Followed, LastSeen
  <2>4. CASE Tail(b) = <<>>
    <3>1. Len(b) = 1 /\ Head(b) = b[1]
      <4>1. Len(Tail(b)) = Len(b) - 1 /\ Len(b) \in Nat
        BY <2>1, HeadTailProperties
      <4>2. Len(Tail(b)) = Len(<<>>)
        BY <2>4, Zenon
      <4>3. Len(<<>>) = 0
        BY EmptySeq
      <4> QED
        BY <2>1, <4>1, <4>2, <4>3
    <3> QED
      BY <2>2, <2>3, <2>4, <3>1 DEF LastSeen
  <2>5. CASE Tail(b) # <<>>
    <3>1. Tail(b)[Len(Tail(b))] = b[Len(b)]
      BY <2>1, <2>5
    <3> QED
      BY <2>2, <2>3, <2>5, <3>1 DEF LastSeen
  <2> QED
    BY <2>4, <2>5
<1>5. CASE Engine(r)
  <2>1. pc' = pc /\ cur' = cur
    BY <1>5 DEF Engine, RunNode, ActLookup, ActCreate, ActWait, ActInvoke, ActThrows
  <2>2. ASSUME NEW n, NEW s, Emit(r, n, s) PROVE LastSeen(r)' = est'[r]
    <3>1. est'[r] = s
      BY <2>2 DEF Emit, TypeOK
    <3>2. buf'[r] = Append(buf[r], [node |-> n, st |-> s])
      BY <2>1, <2>2 DEF Emit, Abandoned, TypeOK
    <3> DEFINE u == [node |-> n, st |-> s]
    <3>3. buf[r] \in Seq(Update \cup {u})
      BY SeqMonotonic DEF TypeOK
    <3>4. buf'[r] # <<>> /\ buf'[r][Len(buf'[r])] = u
      BY <3>2, <3>3, AppendProperties
    <3> QED
      BY <3>1, <3>4 DEF LastSeen
  <2>3. CASE UNCHANGED <<buf, est>>
    BY <2>1, <2>3 DEF Followed, LastSeen
  <2> QED
    BY <1>5, <2>2, <2>3 DEF Engine, RunNode, ActLookup, ActCreate, ActWait,
                            ActInvoke, ActThrows
<1>6. CASE NodeFault(r)
  BY <1>6 DEF NodeFault, Followed, LastSeen
<1>7. CASE Runner(r) /\ ~StartGraph(r) /\ ~Consume(r) /\ ~Release(r)
  BY <1>7 DEF Runner, Load, CheckCancel, SetRunning, StreamEnds, StreamThrows,
              CreateMessage, Complete, Announce, Fail, HandleCancel,
              ClearCancel, TypeOK
<1>8. CASE RunnerFault(r) \/ \E j \in Jobs : Dequeue(r, j)
  BY <1>2, <1>8 DEF RunnerFault, Dequeue, TypeOK
<1> QED
  BY <1>1, <1>2, <1>3, <1>4, <1>5, <1>6, <1>7, <1>8, SlotMoves DEF OwnStep

LEMMA AnswersStep ==
    ASSUME AnswerInv, [Next]_vars
    PROVE  AnswersAreResponses'
<1> TypeOK /\ Followed /\ EndAnswered /\ AnswersAreResponses
  BY DEF AnswerInv, TypeInv
<1> USE DEF dbVars, runVars, engineVars, humanVars
<1> SUFFICES ASSUME NEW r \in Slots,
                    pc'[r] \in {"message", "complete", "announce"}
             PROVE  cur'[r].response # "null" /\ ~cur'[r].error
  BY DEF AnswersAreResponses
<1>1. CASE Untouched(r)
  BY <1>1 DEF Untouched, AnswersAreResponses
<1>2. CASE WorkerCrash \/ Release(r) \/ OrphanStops(r)
  BY <1>2 DEF WorkerCrash, Release, OrphanStops, TypeOK
<1>3. CASE StreamEnds(r)
  <2>1. cur[r] = est[r] /\ est[r].response # "null"
    BY <1>3 DEF StreamEnds, StreamDone, Followed, LastSeen, EndAnswered
  <2> QED
    BY <1>3, <2>1 DEF StreamEnds, TypeOK
<1>4. CASE CreateMessage(r) \/ Complete(r)
  BY <1>4 DEF CreateMessage, Complete, AnswersAreResponses
<1>5. CASE Engine(r) \/ NodeFault(r)
  BY <1>5 DEF Engine, RunNode, ActLookup, ActCreate, ActWait, ActInvoke,
              ActThrows, NodeFault, AnswersAreResponses
<1>6. CASE RunnerFault(r) \/ \E j \in Jobs : Dequeue(r, j)
  BY <1>2, <1>6 DEF RunnerFault, Dequeue, TypeOK
<1>7. CASE /\ Runner(r) /\ ~StreamEnds(r) /\ ~CreateMessage(r) /\ ~Complete(r)
           /\ ~Release(r)
  BY <1>7 DEF Runner, Load, CheckCancel, SetRunning, StartGraph, Consume,
              StreamThrows, Announce, Fail, HandleCancel, ClearCancel, TypeOK
<1> QED
  BY <1>1, <1>2, <1>3, <1>4, <1>5, <1>6, <1>7, SlotMoves DEF OwnStep

\* A run that writes a message writes what the respond node produced, and a
\* run with an error writes none, however far the engine runs ahead of its
\* consumer and whatever fails.
THEOREM AnswersCorrect == Spec => []AnswersAreResponses
<1>1. Init => AnswerInv
  BY TypeInvInit
     DEF Init, AnswerInv, Quiet, Followed, EndAnswered, AnswersAreResponses
<1>2. AnswerInv /\ [Next]_vars => AnswerInv'
  BY TypeInvStep, QuietStep, EndAnsweredStep, FollowedStep, AnswersStep
     DEF AnswerInv
<1>3. AnswerInv => AnswersAreResponses
  BY DEF AnswerInv
<1> QED
  BY <1>1, <1>2, <1>3, PTL DEF Spec

---------------------------------------------------------------------------
(* The tool budget.  The loop count is what bounds the results, across the   *)
(* checkpoint too, since a resumed run keeps the count it had.               *)

\* No more results than passes through reason, nor than the budget.
Within(s) == s.results <= MaxLoops /\ s.results <= s.loop

\* There is room for one more result.
HasRoom(s) == s.results < MaxLoops /\ s.results < s.loop

EngineBudget ==
    \A r \in Slots : /\ Within(est[r])
                     /\ node[r] \in AtAct => HasRoom(est[r])

ConsumerBudget ==
    /\ \A r \in Slots : /\ Within(cur[r])
                        /\ \A i \in DOMAIN buf[r] : Within(buf[r][i].st)
    /\ saved # NoState => Within(saved)

BudgetInv == TypeInv /\ EngineBudget /\ ConsumerBudget

LEMMA InitialWithin == Within(InitialState)
  BY GraphAssumption DEF Within, InitialState

\* A node keeps within the budget, and reason leads to act with room left.
LEMMA OutcomesWithin ==
    ASSUME NEW n \in Nodes \ {"act"}, NEW s \in AgentState, Within(s),
           NEW t \in Outcomes(n, s)
    PROVE  /\ Within(t)
           /\ NextNode(n, t) = "act" => HasRoom(t)
<1>1. CASE n = "reason"
  <2>1. \/ \E u \in Tools : t = [s EXCEPT !.pending = u, !.loop = @ + 1]
        \/ \E a \in Texts : t = [s EXCEPT !.pending = NoTool, !.loop = @ + 1,
                                          !.response = a]
        \/ t = [s EXCEPT !.error = TRUE]
    BY <1>1 DEF Outcomes, Reasoned, ToolChosen, Answered
  <2>2. /\ t.results = s.results
        /\ \/ t.loop = s.loop + 1
           \/ t.loop = s.loop /\ t.error
    BY <2>1 DEF AgentState
  <2>3. s.results \in Nat /\ s.loop \in Nat /\ MaxLoops \in Nat
    BY GraphAssumption DEF AgentState
  <2>4. NextNode(n, t) = "act" => ~t.error /\ t.loop <= MaxLoops
    BY <1>1 DEF NextNode, AfterReason
  <2> QED
    BY <2>2, <2>3, <2>4 DEF Within, HasRoom
<1>2. CASE n # "reason"
  <2>1. NextNode(n, t) # "act"
    BY <1>2 DEF NextNode, AfterPlan, Nodes
  <2>2. t.results = s.results /\ t.loop = s.loop
    <3>1. CASE n = "plan"
      <4>1. \/ \E b \in Plans : t = [s EXCEPT !.needs = b]
            \/ t = [[s EXCEPT !.error = TRUE] EXCEPT !.needs = FALSE]
        BY <3>1 DEF Outcomes, Planned
      <4> QED
        BY <4>1 DEF AgentState
    <3>2. CASE n \in {"retrieve", "retrieve_memory"}
      BY <3>2 DEF Outcomes, Retrieved, Recalled
    <3>3. CASE n = "observe"
      BY <3>3 DEF Outcomes, Observed, AgentState
    <3>4. CASE n = "respond"
      BY <3>4 DEF Outcomes, Responded, AgentState
    <3> QED
      BY <1>2, <3>1, <3>2, <3>3, <3>4 DEF Nodes
  <2> QED
    BY <2>1, <2>2 DEF Within
<1> QED
  BY <1>1, <1>2

\* The act node uses the room it has.
LEMMA ActedWithin ==
    ASSUME NEW s \in AgentState, HasRoom(s)
    PROVE  Within(Acted(s))
<1>1. Acted(s).results = s.results + 1 /\ Acted(s).loop = s.loop
  BY DEF Acted, AgentState
<1> QED
  BY <1>1, GraphAssumption DEF Within, HasRoom, AgentState

\* Wherever the engine gets to is within the budget.
LEMMA EngineWithin ==
    ASSUME TypeInv, EngineBudget, NEW r \in Slots, Engine(r)
    PROVE  Within(est'[r]) /\ (node'[r] \in AtAct => HasRoom(est'[r]))
<1> TypeOK
  BY DEF TypeInv
<1>1. est[r] \in AgentState
  BY DEF TypeOK
<1>2. CASE RunNode(r)
  <2>1. PICK t \in Outcomes(node[r], est[r]) : Emit(r, node[r], t)
    BY <1>2 DEF RunNode
  <2>2. est'[r] = t /\ node'[r] = NextNode(node[r], t)
    BY <2>1 DEF Emit, TypeOK
  <2>3. node[r] \in Nodes \ {"act"}
    BY <1>2 DEF RunNode
  <2>4. NextNode(node[r], t) \in AtAct => NextNode(node[r], t) = "act"
    BY <2>3 DEF NextNode, AfterPlan, AfterReason, AtAct, Nodes
  <2> QED
    BY <1>1, <2>1, <2>2, <2>3, <2>4, OutcomesWithin DEF EngineBudget
<1>3. CASE ActLookup(r) \/ ActInvoke(r)
  <2>1. node[r] \in AtAct
    BY <1>3 DEF ActLookup, ActInvoke, AtAct
  <2>2. CASE Emit(r, "act", Acted(est[r]))
    <3>1. est'[r] = Acted(est[r]) /\ node'[r] = "observe"
      BY <2>2 DEF Emit, NextNode, TypeOK
    <3> QED
      BY <1>1, <2>1, <3>1, ActedWithin DEF EngineBudget, AtAct
  <2>3. CASE ~Emit(r, "act", Acted(est[r]))
    <3>1. est'[r] = est[r] /\ node'[r] \in AtAct
      BY <1>3, <2>3 DEF ActLookup, ActInvoke, AtAct, TypeOK
    <3> QED
      BY <2>1, <3>1 DEF EngineBudget
  <2> QED
    BY <2>2, <2>3
<1>4. CASE ActCreate(r) \/ ActWait(r) \/ ActThrows(r)
  BY <1>4 DEF ActCreate, ActWait, ActThrows, EngineBudget, AtAct, TypeOK
<1> QED
  BY <1>2, <1>3, <1>4 DEF Engine

LEMMA EngineBudgetStep ==
    ASSUME BudgetInv, [Next]_vars
    PROVE  EngineBudget'
<1> TypeInv /\ TypeOK /\ EngineBudget /\ ConsumerBudget
  BY DEF BudgetInv, TypeInv
<1> SUFFICES ASSUME NEW r \in Slots
             PROVE  Within(est'[r]) /\ (node'[r] \in AtAct => HasRoom(est'[r]))
  BY DEF EngineBudget, Within, HasRoom
<1>1. CASE StartGraph(r)
  <2>1. est'[r] = StartState /\ node'[r] = "plan"
    BY <1>1 DEF StartGraph, TypeOK
  <2> QED
    BY <2>1, InitialWithin DEF StartState, ConsumerBudget, AtAct
<1>2. CASE Engine(r)
  BY <1>2, EngineWithin
<1>3. CASE node'[r] = node[r] /\ est'[r] = est[r]
  BY <1>3 DEF EngineBudget
<1>4. CASE node'[r] \in Halted /\ est'[r] \in {est[r], InitialState}
  BY <1>4, InitialWithin DEF EngineBudget, Halted, AtAct
<1> QED
  BY <1>1, <1>2, <1>3, <1>4, EngineMoves

\* Only the runner's loop saves a checkpoint.
LEMMA SavedMoves ==
    ASSUME [Next]_vars
    PROVE  saved' = saved \/ \E r \in Slots : Consume(r)
<1> USE DEF dbVars
<1>1. ASSUME NEW r \in Slots, Runner(r), ~Consume(r) PROVE saved' = saved
  BY <1>1 DEF Runner, Load, CheckCancel, SetRunning, StartGraph, StreamEnds,
              StreamThrows, CreateMessage, Complete, Announce, Fail,
              HandleCancel, ClearCancel
<1>2. ASSUME NEW r \in Slots, Engine(r) \/ PollCancel(r) \/ OrphanStops(r)
      PROVE  saved' = saved
  BY <1>2 DEF Engine, RunNode, ActLookup, ActCreate, ActWait, ActInvoke,
              ActThrows, PollCancel, OrphanStops
<1>3. ASSUME Failing PROVE saved' = saved
  BY <1>3 DEF Failing, RunnerFault, NodeFault, HandlerFault, WorkerCrash
<1>4. ASSUME NEW p \in Approvers, Approving(p) PROVE saved' = saved
  BY <1>4 DEF Approving, DecideRead, DecideWrite, DecideResume
<1>5. ASSUME \/ \E r \in Slots, j \in Jobs : Dequeue(r, j)
             \/ \E j \in Jobs : RecoverStalled(j)
             \/ Cancelling \/ Sweeping
             \/ UNCHANGED vars
      PROVE  saved' = saved
  BY <1>5 DEF Dequeue, RecoverStalled, Cancelling, CancelRequest, CancelFlag,
              CancelWrite, FlagExpires, Sweeping, SweepRead, SweepMark,
              SweepResume, vars
<1> QED
  BY <1>1, <1>2, <1>3, <1>4, <1>5 DEF Next

LEMMA ConsumerBudgetStep ==
    ASSUME BudgetInv, [Next]_vars
    PROVE  ConsumerBudget'
<1> TypeInv /\ TypeOK /\ EngineBudget /\ ConsumerBudget
  BY DEF BudgetInv, TypeInv
<1> USE DEF dbVars, runVars, engineVars, humanVars
<1>1. ASSUME NEW r \in Slots, Consume(r), buf[r] # <<>>
      PROVE  Within(Head(buf[r]).st)
  <2>1. buf[r] \in Seq(Update) /\ 1 \in DOMAIN buf[r] /\ Head(buf[r]) = buf[r][1]
    BY <1>1 DEF TypeOK
  <2> QED
    BY <2>1 DEF ConsumerBudget
<1>2. saved' # NoState => Within(saved')
  <2>1. ASSUME NEW r \in Slots, Consume(r) PROVE saved' # NoState => Within(saved')
    BY <2>1, <1>1 DEF Consume, ConsumerBudget
  <2> QED
    BY <2>1, SavedMoves DEF ConsumerBudget
<1>3. ASSUME NEW r \in Slots
      PROVE  /\ Within(cur'[r])
             /\ \A i \in DOMAIN buf'[r] : Within(buf'[r][i].st)
  <2> DEFINE Goal == /\ Within(cur'[r])
                     /\ \A i \in DOMAIN buf'[r] : Within(buf'[r][i].st)
  <2>1. CASE cur'[r] = cur[r] /\ buf'[r] \in {buf[r], <<>>}
    BY <2>1 DEF ConsumerBudget
  <2>2. CASE Untouched(r)
    BY <2>1, <2>2 DEF Untouched
  <2>3. CASE WorkerCrash \/ Release(r)
    BY <2>3, InitialWithin DEF WorkerCrash, Release, TypeOK
  <2>4. CASE StartGraph(r)
    BY <2>4, InitialWithin DEF StartGraph, StartState, ConsumerBudget, TypeOK
  <2>5. CASE Consume(r)
    <3>1. CASE cancelled[r]
      BY <2>1, <2>5, <3>1 DEF Consume, TypeOK
    <3>2. CASE ~cancelled[r]
      <4>1. /\ buf[r] \in Seq(Update) /\ buf[r] # <<>>
            /\ cur'[r] = Head(buf[r]).st /\ buf'[r] = Tail(buf[r])
        BY <2>5, <3>2 DEF Consume, TypeOK
      <4>2. \A i \in DOMAIN Tail(buf[r]) :
               i + 1 \in DOMAIN buf[r] /\ Tail(buf[r])[i] = buf[r][i + 1]
        BY <4>1
      <4> QED
        BY <1>1, <2>5, <4>1, <4>2 DEF ConsumerBudget
    <3> QED
      BY <3>1, <3>2
  <2>6. CASE Engine(r)
    <3>1. cur' = cur
      BY <2>6 DEF Engine, RunNode, ActLookup, ActCreate, ActWait, ActInvoke,
                  ActThrows
    <3>2. ASSUME NEW n, NEW s, Emit(r, n, s),
                 buf'[r] = Append(buf[r], [node |-> n, st |-> s])
          PROVE  Goal
      <4> DEFINE u == [node |-> n, st |-> s]
      <4>1. est'[r] = s
        BY <3>2 DEF Emit, TypeOK
      <4>2. Within(s)
        BY <2>6, <4>1, EngineWithin
      <4>3. buf[r] \in Seq(Update \cup {u})
        BY SeqMonotonic DEF TypeOK
      <4>4. \A i \in DOMAIN buf'[r] : \/ i \in DOMAIN buf[r] /\ buf'[r][i] = buf[r][i]
                                      \/ buf'[r][i] = u
        BY <3>2, <4>3
      <4> QED
        BY <3>1, <4>2, <4>4 DEF ConsumerBudget
    <3>3. ASSUME NEW n, NEW s, Emit(r, n, s) PROVE Goal
      BY <2>1, <3>1, <3>2, <3>3 DEF Emit, TypeOK
    <3>4. CASE buf' = buf
      BY <2>1, <3>1, <3>4
    <3> QED
      BY <2>6, <3>3, <3>4 DEF Engine, RunNode, ActLookup, ActCreate, ActWait,
                              ActInvoke, ActThrows
  <2>7. CASE OrphanStops(r) \/ NodeFault(r) \/ RunnerFault(r)
    BY <2>1, <2>3, <2>7 DEF OrphanStops, NodeFault, RunnerFault, TypeOK
  <2>8. CASE \E j \in Jobs : Dequeue(r, j)
    BY <2>1, <2>8 DEF Dequeue
  <2>9. CASE Runner(r) /\ ~StartGraph(r) /\ ~Consume(r)
    BY <2>1, <2>3, <2>9
       DEF Runner, Load, CheckCancel, SetRunning, StreamEnds, StreamThrows,
           CreateMessage, Complete, Announce, Fail, HandleCancel, ClearCancel
  <2> QED
    BY <2>2, <2>3, <2>4, <2>5, <2>6, <2>7, <2>8, <2>9, SlotMoves DEF OwnStep
<1> QED
  BY <1>2, <1>3 DEF ConsumerBudget, Within

\* No lineage of states, in the engine, in the runner or in the checkpoints,
\* has more tool results than maxLoops, across any number of resumed runs.
THEOREM BudgetCorrect == Spec => []ToolBudget
<1>1. Init => BudgetInv
  BY TypeInvInit, InitialWithin
     DEF Init, BudgetInv, EngineBudget, ConsumerBudget, AtAct
<1>2. BudgetInv /\ [Next]_vars => BudgetInv'
  BY TypeInvStep, EngineBudgetStep, ConsumerBudgetStep DEF BudgetInv
<1>3. BudgetInv => ToolBudget
  BY DEF BudgetInv, EngineBudget, ConsumerBudget, Within, ToolBudget
<1> QED
  BY <1>1, <1>2, <1>3, PTL DEF Spec

---------------------------------------------------------------------------
(* Finality.  With every engine idle and every run at its first read at the  *)
(* most, only steps that leave the outcome alone are left.                   *)

LEMMA SettledStep ==
    ASSUME TypeInv, Quiet, Settled, [Next]_vars
    PROVE  Settled' /\ UNCHANGED <<status, answers, saved, invoked>>
<1> TypeOK
  BY DEF TypeInv
<1> USE DEF dbVars, runVars, engineVars, humanVars
<1> DEFINE Kept == UNCHANGED <<status, answers, saved, invoked>>
<1>1. \A r \in Slots : pc[r] \in {"free", "load"} /\ node[r] = "idle"
  BY DEF Settled, Quiet, Early
<1>2. status \in Terminal /\ cpc = "idle"
  BY DEF Settled
<1>3. ASSUME Kept, cpc' = cpc, \A r \in Slots : pc'[r] \in {"free", "load"}
      PROVE  Settled'
  BY <1>2, <1>3 DEF Settled
<1>4. ASSUME NEW r \in Slots, Release(r), Kept, cpc' = cpc PROVE Settled'
  <2>1. \A q \in Slots : pc'[q] \in {"free", "load"}
    BY <1>1, <1>4 DEF Release, TypeOK, Halted
  <2> QED
    BY <1>3, <1>4, <2>1
<1>5. ASSUME NEW r \in Slots, Runner(r) PROVE Settled' /\ Kept
  <2>1. Load(r)
    BY <1>1, <1>5 DEF Runner, CheckCancel, SetRunning, StartGraph, Consume,
                      StreamEnds, StreamThrows, CreateMessage, Complete,
                      Announce, Fail, HandleCancel, ClearCancel
  <2>2. ~IsResumable
    BY <1>2 DEF IsResumable, Resumable, Terminal
  <2> QED
    BY <1>4, <2>1, <2>2 DEF Load
<1>6. ASSUME NEW r \in Slots, Engine(r) \/ OrphanStops(r) \/ PollCancel(r)
      PROVE  FALSE
  BY <1>1, <1>6 DEF Engine, RunNode, ActLookup, ActCreate, ActWait, ActInvoke,
                    ActThrows, OrphanStops, PollCancel, Nodes
<1>7. ASSUME Failing PROVE Settled' /\ Kept
  <2>1. ASSUME NEW r \in Slots, RunnerFault(r) PROVE Settled' /\ Kept
    BY <2>1, <1>1, <1>4 DEF RunnerFault
  <2>2. ASSUME NEW r \in Slots, NodeFault(r) PROVE FALSE
    BY <2>2, <1>1 DEF NodeFault, Working, Nodes
  <2>3. CASE HandlerFault
    BY <2>3, <1>1, <1>2, <1>3 DEF HandlerFault
  <2>4. CASE WorkerCrash
    BY <2>4, <1>3 DEF WorkerCrash
  <2> QED
    BY <1>7, <2>1, <2>2, <2>3, <2>4 DEF Failing
<1>8. ASSUME NEW r \in Slots, NEW j \in Jobs, Dequeue(r, j) PROVE Settled' /\ Kept
  BY <1>8, <1>1, <1>3 DEF Dequeue, TypeOK
<1>9. CASE Cancelling
  BY <1>9, <1>1, <1>2, <1>3
     DEF Cancelling, CancelRequest, CancelFlag, CancelWrite, FlagExpires
<1>10. ASSUME \/ \E j \in Jobs : RecoverStalled(j)
              \/ \E p \in Approvers : Approving(p)
              \/ Sweeping \/ UNCHANGED vars
       PROVE  Settled' /\ Kept
  BY <1>10, <1>1, <1>3
     DEF RecoverStalled, Approving, DecideRead, DecideWrite, DecideResume,
         Sweeping, SweepRead, SweepMark, SweepResume, vars
<1> QED
  BY <1>5, <1>6, <1>7, <1>8, <1>9, <1>10 DEF Next

\* Once an execution is terminal and nothing that was let in before is left,
\* no retry, stalled job, late decision, expiry, crash or cancel request ever
\* changes its status, its answers, its checkpoint or the tools it invoked.
THEOREM SettledStays == Spec => SettledIsFinal
<1>1. Init => TypeInv /\ Quiet
  BY TypeInvInit DEF Init, Quiet
<1>2. TypeInv /\ Quiet /\ [Next]_vars => (TypeInv /\ Quiet)'
  BY TypeInvStep, QuietStep
<1>3. TypeInv /\ Quiet /\ [Next]_vars
         => [Settled => /\ Settled'
                        /\ UNCHANGED <<status, answers, saved, invoked>>]_vars
  BY SettledStep
<1> QED
  BY <1>1, <1>2, <1>3, PTL DEF Spec, SettledIsFinal
---------------------------------------------------------------------------
(* Stranded runs.  Each run owns its job; one that nobody owns was left by a *)
(* crash, and goes back to the queue while there are stalls to spare.  The   *)
(* witness is a job that will still be run: not one whose run has written    *)
(* its outcome and is about to hand the job back.                            *)

Forgiven == spent.faults = 0 /\ spent.crashes <= MaxStalls

\* A run has an active job, and nobody else has it.
Owned ==
    /\ \A r \in Busy : rjob[r] \in Jobs /\ jobs[rjob[r]].state = "active"
    /\ \A q, r \in Busy : rjob[q] = rjob[r] => q = r

Unowned(j) == jobs[j].state = "active" /\ \A r \in Busy : rjob[r] # j

\* No more stalls than crashes, the one about to be found included.
StallsCounted ==
    \A j \in Jobs : /\ jobs[j].stalls <= spent.crashes
                    /\ Unowned(j) => jobs[j].stalls < spent.crashes

\* The run has written its outcome, or its engine has for it.
Leaving(r) == \/ pc[r] \in {"announce", "uncancel"}
              \/ pc[r] = "stream" /\ node[r] = "paused"

Holding(j) == \/ jobs[j].state = "wait"
              \/ /\ jobs[j].state = "active"
                 /\ \A r \in Busy : rjob[r] = j => ~Leaving(r)

Held == Forgiven /\ status \in {"CREATED", "RUNNING"} => \E j \in Jobs : Holding(j)

HeldInv == TypeInv /\ Owned /\ StallsCounted /\ Held

\* A run that is over gives its job back, and there is an outcome by then.
HandsBack(r) ==
    /\ r \in Busy /\ Release(r) /\ (JobReturned(r) \/ JobThrew(r))
    /\ Leaving(r) \/ RunnerFault(r) \/ status' \notin {"CREATED", "RUNNING"}

\* What a step may do to the jobs and to who runs them.
LEMMA QueueMoves ==
    ASSUME TypeOK, [Next]_vars
    PROVE  \/ \E r \in Slots : HandsBack(r)
           \/ \E r \in Slots, j \in Jobs : Dequeue(r, j)
           \/ \E j \in Jobs : RecoverStalled(j)
           \/ Enqueue /\ pc' = pc /\ rjob' = rjob
           \/ WorkerCrash
           \/ jobs' = jobs /\ rjob' = rjob /\ Busy' = Busy
<1> USE DEF dbVars, runVars, engineVars, humanVars
<1> DEFINE Same == jobs' = jobs /\ rjob' = rjob /\ Busy' = Busy
<1>1. ASSUME NEW r \in Slots, Runner(r) PROVE HandsBack(r) \/ Same
  <2>1. pc[r] \notin {"free", "orphan"}
    BY <1>1 DEF Runner, Load, CheckCancel, SetRunning, StartGraph, Consume,
                StreamEnds, StreamThrows, CreateMessage, Complete, Announce,
                Fail, HandleCancel, ClearCancel
  <2>2. r \in Busy
    BY <2>1 DEF Busy
  <2>3. \/ /\ Release(r) /\ (JobReturned(r) \/ JobThrew(r))
           /\ Leaving(r) \/ status' \notin {"CREATED", "RUNNING"}
        \/ /\ jobs' = jobs /\ rjob' = rjob
           /\ \E x : x \notin {"free", "orphan"} /\ pc' = [pc EXCEPT ![r] = x]
        \/ jobs' = jobs /\ rjob' = rjob /\ pc' = pc
    BY <1>1 DEF Runner, Load, CheckCancel, SetRunning, StartGraph, Consume,
                StreamEnds, StreamThrows, CreateMessage, Complete, Announce,
                Fail, HandleCancel, ClearCancel, IsResumable, Resumable,
                Failed, Leaving
  <2> QED
    BY <2>1, <2>2, <2>3 DEF HandsBack, Busy, TypeOK
<1>2. ASSUME NEW r \in Slots, Engine(r) \/ PollCancel(r) \/ NodeFault(r) PROVE Same
  BY <1>2 DEF Engine, RunNode, ActLookup, ActCreate, ActWait, ActInvoke, ActThrows,
              PollCancel, NodeFault, Busy
<1>3. ASSUME NEW r \in Slots, OrphanStops(r) PROVE Same
  BY <1>3 DEF OrphanStops, Busy, TypeOK
<1>4. ASSUME NEW r \in Slots, RunnerFault(r) PROVE HandsBack(r) \/ Same
  BY <1>4 DEF RunnerFault, HandsBack, Busy, TypeOK
<1>5. ASSUME HandlerFault \/ Cancelling \/ UNCHANGED vars PROVE Same
  BY <1>5 DEF HandlerFault, Cancelling, CancelRequest, CancelFlag, CancelWrite,
              FlagExpires, vars, Busy
<1>6. ASSUME \/ \E p \in Approvers : Approving(p)
             \/ Sweeping
      PROVE  Same \/ (Enqueue /\ pc' = pc /\ rjob' = rjob)
  BY <1>6 DEF Approving, DecideRead, DecideWrite, DecideResume, Sweeping,
              SweepRead, SweepMark, SweepResume, Busy
<1> QED
  BY <1>1, <1>2, <1>3, <1>4, <1>5, <1>6 DEF Next, Failing

\* Faults and crashes only add up, and only a crash is a crash.
LEMMA SpentMoves ==
    ASSUME TypeOK, [Next]_vars
    PROVE  /\ spent'.crashes = spent.crashes \/ WorkerCrash
           /\ Forgiven' => Forgiven
           /\ (\E r \in Slots : RunnerFault(r)) => ~Forgiven'
           /\ spent'.overlap = spent.overlap \/ \E r \in Slots, j \in Jobs : Dequeue(r, j)
<1> USE DEF dbVars, runVars, engineVars, humanVars
<1>1. /\ spent \in Spent /\ spent.crashes \in Nat /\ spent.faults \in Nat
      /\ spent.crashes <= spent.crashes + 1 /\ spent.faults + 1 # 0
      /\ MaxStalls \in Nat
  BY ExecutionAssumption DEF TypeOK, Spent
<1>2. \/ spent' = spent
      \/ spent' = [spent EXCEPT !.faults = spent.faults + 1]
      \/ spent' = [spent EXCEPT !.cancels = spent.cancels + 1]
      \/ WorkerCrash /\ spent' = [spent EXCEPT !.crashes = spent.crashes + 1]
      \/ /\ \E r \in Slots, j \in Jobs : Dequeue(r, j)
         /\ \E b \in BOOLEAN : spent' = [spent EXCEPT !.overlap = b]
  <2>1. ASSUME NEW r \in Slots, Runner(r) \/ Engine(r) \/ PollCancel(r) \/ OrphanStops(r)
        PROVE  spent' = spent
    BY <2>1 DEF Runner, Load, CheckCancel, SetRunning, StartGraph, Consume,
                StreamEnds, StreamThrows, CreateMessage, Complete, Announce,
                Fail, HandleCancel, ClearCancel, Engine, RunNode, ActLookup,
                ActCreate, ActWait, ActInvoke, ActThrows, PollCancel, OrphanStops
  <2>2. ASSUME Failing
        PROVE  \/ spent' = [spent EXCEPT !.faults = spent.faults + 1]
               \/ WorkerCrash /\ spent' = [spent EXCEPT !.crashes = spent.crashes + 1]
    BY <2>2 DEF Failing, RunnerFault, NodeFault, HandlerFault, WorkerCrash, Fault
  <2>3. ASSUME \/ \E j \in Jobs : RecoverStalled(j)
               \/ \E p \in Approvers : Approving(p)
               \/ Sweeping \/ UNCHANGED vars
        PROVE  spent' = spent
    BY <2>3 DEF RecoverStalled, Approving, DecideRead, DecideWrite,
                DecideResume, Sweeping, SweepRead, SweepMark, SweepResume, vars
  <2>4. ASSUME Cancelling
        PROVE  spent' = spent \/ spent' = [spent EXCEPT !.cancels = spent.cancels + 1]
    BY <2>4 DEF Cancelling, CancelRequest, CancelFlag, CancelWrite, FlagExpires
  <2>5. ASSUME NEW r \in Slots, NEW j \in Jobs, Dequeue(r, j)
        PROVE  \E b \in BOOLEAN : spent' = [spent EXCEPT !.overlap = b]
    BY <2>5 DEF Dequeue
  <2> QED
    BY <2>1, <2>2, <2>3, <2>4, <2>5 DEF Next
<1>3. (\E r \in Slots : RunnerFault(r)) =>
          spent' = [spent EXCEPT !.faults = spent.faults + 1]
  BY DEF RunnerFault, Fault
<1> QED
  BY <1>1, <1>2, <1>3 DEF Forgiven, Spent

\* The job that is handed back, and the ones that stay where they are.
LEMMA HandedBack ==
    ASSUME TypeOK, Owned, NEW r \in Slots, HandsBack(r)
    PROVE  /\ Busy' = Busy \ {r} /\ rjob[r] \in Jobs
           /\ \A q \in Busy \ {r} : rjob'[q] = rjob[q] /\ rjob[q] # rjob[r]
           /\ \A j \in Jobs \ {rjob[r]} : jobs'[j] = jobs[j]
           /\ jobs'[rjob[r]].state \in {"wait", "finished"}
           /\ jobs'[rjob[r]].stalls = jobs[rjob[r]].stalls
<1>1. r \in Busy /\ rjob[r] \in Jobs /\ jobs[rjob[r]] \in Job
  BY DEF HandsBack, Owned, TypeOK
<1>2. Busy' = Busy \ {r} /\ \A q \in Busy \ {r} : rjob'[q] = rjob[q]
  BY DEF HandsBack, Release, Busy, TypeOK
<1>3. \E m, x : /\ x \in {"wait", "finished"}
                /\ jobs' = [jobs EXCEPT ![rjob[r]] =
                               [[jobs[rjob[r]] EXCEPT !.made = m] EXCEPT !.state = x]]
  <2>1. CASE JobReturned(r)
    <3>1. [jobs[rjob[r]] EXCEPT !.made = jobs[rjob[r]].made] = jobs[rjob[r]]
      BY <1>1 DEF Job
    <3> QED
      BY <2>1, <3>1 DEF JobReturned
  <2>2. CASE JobThrew(r)
    BY <2>2 DEF JobThrew
  <2> QED
    BY <2>1, <2>2 DEF HandsBack
<1>4. /\ \A j \in Jobs \ {rjob[r]} : jobs'[j] = jobs[j]
      /\ jobs'[rjob[r]].state \in {"wait", "finished"}
      /\ jobs'[rjob[r]].stalls = jobs[rjob[r]].stalls
  BY <1>1, <1>3 DEF TypeOK, Job
<1> QED
  BY <1>1, <1>2, <1>4 DEF Owned

\* The job a slot takes was waiting, so nobody has it.
LEMMA Dequeued ==
    ASSUME TypeOK, Owned, NEW r \in Slots, NEW j \in Jobs, Dequeue(r, j)
    PROVE  /\ Busy' = Busy \cup {r} /\ r \notin Busy
           /\ rjob'[r] = j /\ \A q \in Busy : rjob'[q] = rjob[q] /\ rjob[q] # j
           /\ \A i \in Jobs \ {j} : jobs'[i] = jobs[i]
           /\ jobs'[j].state = "active" /\ jobs'[j].stalls = jobs[j].stalls
<1>1. pc' = [pc EXCEPT ![r] = "load"] /\ rjob' = [rjob EXCEPT ![r] = j]
      /\ pc[r] = "free" /\ jobs[j].state = "wait" /\ jobs[j] \in Job
  BY DEF Dequeue, TypeOK
<1>2. Busy' = Busy \cup {r} /\ r \notin Busy
  BY <1>1 DEF Busy, TypeOK
<1>3. jobs' = [jobs EXCEPT ![j] = [jobs[j] EXCEPT !.state = "active"]]
  BY DEF Dequeue
<1>4. /\ \A i \in Jobs \ {j} : jobs'[i] = jobs[i]
      /\ jobs'[j].state = "active" /\ jobs'[j].stalls = jobs[j].stalls
  BY <1>1, <1>3 DEF TypeOK, Job
<1>5. rjob'[r] = j /\ \A q \in Busy : rjob'[q] = rjob[q] /\ rjob[q] # j
  BY <1>1, <1>2 DEF TypeOK, Owned, Busy
<1> QED
  BY <1>2, <1>4, <1>5

\* A stalled job goes back as long as stalls are forgiven.
LEMMA Recovered ==
    ASSUME TypeOK, NEW j \in Jobs, RecoverStalled(j)
    PROVE  /\ Busy' = Busy /\ rjob' = rjob /\ Unowned(j)
           /\ \A i \in Jobs \ {j} : jobs'[i] = jobs[i]
           /\ jobs'[j].stalls = jobs[j].stalls + 1
           /\ jobs'[j].state = IF jobs[j].stalls < MaxStalls THEN "wait" ELSE "finished"
<1> DEFINE x == IF jobs[j].stalls < MaxStalls THEN "wait" ELSE "finished"
           b == [jobs[j] EXCEPT !.stalls = jobs[j].stalls + 1]
<1>1. jobs[j] \in Job
  BY DEF TypeOK
<1>2. jobs' = [jobs EXCEPT ![j] = [b EXCEPT !.state = x]]
  BY DEF RecoverStalled
<1>3. [b EXCEPT !.state = x].state = x /\ [b EXCEPT !.state = x].stalls = jobs[j].stalls + 1
  BY <1>1 DEF Job
<1>4. Busy' = Busy /\ rjob' = rjob /\ Unowned(j)
  BY DEF RecoverStalled, runVars, Busy, Unowned
<1> HIDE DEF b, x
<1>5. /\ \A i \in Jobs \ {j} : jobs'[i] = jobs[i]
      /\ jobs'[j] = [b EXCEPT !.state = x]
  BY <1>2 DEF TypeOK
<1> QED
  BY <1>3, <1>4, <1>5 DEF x

\* What is added to the queue is a job nobody has had.
LEMMA Added ==
    ASSUME TypeOK, Enqueue
    PROVE  \E j \in Jobs : /\ jobs[j].state = "absent" /\ jobs'[j].state = "wait"
                           /\ jobs'[j].stalls = jobs[j].stalls
                           /\ \A i \in Jobs \ {j} : jobs'[i] = jobs[i]
<1>1. PICK j \in Jobs : /\ jobs[j].state = "absent"
                        /\ jobs' = [jobs EXCEPT ![j] = [jobs[j] EXCEPT !.state = "wait"]]
  BY DEF Enqueue
<1>2. jobs[j] \in Job
  BY DEF TypeOK
<1> QED
  BY <1>1, <1>2 DEF TypeOK, Job

LEMMA OwnedStep ==
    ASSUME TypeOK, Owned, StallsCounted, [Next]_vars
    PROVE  Owned' /\ StallsCounted'
<1>1. /\ spent.crashes \in Nat /\ spent'.crashes \in Nat
      /\ \A j \in Jobs : jobs[j].stalls \in Nat
  <2>1. spent.crashes \in Nat
    BY DEF TypeOK, Spent
  <2>2. CASE WorkerCrash
    <3>1. spent'.crashes = spent.crashes + 1
      BY <2>2 DEF WorkerCrash, TypeOK, Spent
    <3> QED
      BY <2>1, <3>1 DEF TypeOK, Job
  <2> QED
    BY <2>1, <2>2, SpentMoves DEF TypeOK, Job
<1>2. CASE WorkerCrash
  <2>1. Busy' = {} /\ jobs' = jobs /\ spent'.crashes = spent.crashes + 1
    BY <1>2 DEF WorkerCrash, Busy, TypeOK, Spent
  <2> QED
    BY <1>1, <2>1 DEF Owned, StallsCounted, Unowned
<1>3. ASSUME spent'.crashes = spent.crashes, NEW r \in Slots, HandsBack(r)
      PROVE  Owned' /\ StallsCounted'
  <2>1. Owned'
    BY <1>3, HandedBack DEF Owned
  <2>2. ASSUME NEW j \in Jobs PROVE jobs'[j].stalls = jobs[j].stalls
    BY <1>3, HandedBack
  <2>3. ASSUME NEW j \in Jobs, Unowned(j)' PROVE Unowned(j)
    <3>1. j # rjob[r] /\ jobs'[j] = jobs[j]
      BY <1>3, <2>3, HandedBack DEF Unowned
    <3> QED
      BY <1>3, <2>3, <3>1, HandedBack DEF Unowned
  <2> QED
    BY <1>3, <2>1, <2>2, <2>3 DEF StallsCounted
<1>4. ASSUME spent'.crashes = spent.crashes, NEW r \in Slots, NEW j \in Jobs, Dequeue(r, j)
      PROVE  Owned' /\ StallsCounted'
  <2>1. Owned'
    BY <1>4, Dequeued DEF Owned
  <2>2. ASSUME NEW i \in Jobs
        PROVE  jobs'[i].stalls = jobs[i].stalls /\ (Unowned(i)' => Unowned(i))
    BY <1>4, Dequeued DEF Unowned
  <2> QED
    BY <1>4, <2>1, <2>2 DEF StallsCounted
<1>5. ASSUME spent'.crashes = spent.crashes, NEW j \in Jobs, RecoverStalled(j)
      PROVE  Owned' /\ StallsCounted'
  <2>1. Owned'
    BY <1>5, Recovered DEF Owned, Unowned
  <2>2. jobs'[j].stalls <= spent.crashes /\ ~Unowned(j)'
    BY <1>1, <1>5, Recovered DEF StallsCounted, Unowned
  <2>3. ASSUME NEW i \in Jobs \ {j}
        PROVE  jobs'[i] = jobs[i] /\ (Unowned(i)' => Unowned(i))
    BY <1>5, Recovered DEF Unowned
  <2> QED
    BY <1>5, <2>1, <2>2, <2>3 DEF StallsCounted
<1>6. ASSUME spent'.crashes = spent.crashes, Enqueue, pc' = pc, rjob' = rjob
      PROVE  Owned' /\ StallsCounted'
  <2>1. Busy' = Busy
    BY <1>6 DEF Busy
  <2>2. PICK j \in Jobs : /\ jobs[j].state = "absent" /\ jobs'[j].state = "wait"
                          /\ jobs'[j].stalls = jobs[j].stalls
                          /\ \A i \in Jobs \ {j} : jobs'[i] = jobs[i]
    BY <1>6, Added
  <2> QED
    BY <1>6, <2>1, <2>2 DEF Owned, StallsCounted, Unowned
<1>7. ASSUME spent'.crashes = spent.crashes, jobs' = jobs, rjob' = rjob, Busy' = Busy
      PROVE  Owned' /\ StallsCounted'
  BY <1>7 DEF Owned, StallsCounted, Unowned
<1> QED
  BY <1>2, <1>3, <1>4, <1>5, <1>6, <1>7, QueueMoves, SpentMoves

\* A run gets to its end by writing another status.
LEMMA LeavingMoves ==
    ASSUME TypeOK, [Next]_vars, NEW r \in Slots, ~Leaving(r), Leaving(r)', Forgiven'
    PROVE  status' \notin {"CREATED", "RUNNING"}
<1> USE DEF dbVars, runVars, engineVars, humanVars
<1>1. CASE Untouched(r)
  BY <1>1 DEF Untouched, Leaving
<1>2. CASE WorkerCrash
  BY <1>2 DEF WorkerCrash, Leaving
<1>3. CASE Release(r)
  BY <1>3 DEF Release, Leaving, TypeOK
<1>4. CASE Complete(r) \/ HandleCancel(r) \/ ActWait(r)
  BY <1>4 DEF Complete, HandleCancel, ActWait, Paused
<1>5. CASE Runner(r) /\ ~Release(r) /\ ~Complete(r) /\ ~HandleCancel(r)
  BY <1>5 DEF Runner, Load, CheckCancel, SetRunning, StartGraph, Consume,
              StreamEnds, StreamThrows, CreateMessage, Announce, Fail,
              ClearCancel, Leaving, TypeOK
<1>6. CASE Engine(r) /\ ~ActWait(r)
  <2>1. pc' = pc
    BY <1>6 DEF Engine, RunNode, ActLookup, ActCreate, ActInvoke, ActThrows
  <2>2. ASSUME NEW n \in Nodes, NEW s, Emit(r, n, s) PROVE node'[r] # "paused"
    BY <2>2 DEF Emit, TypeOK, NextNode, AfterPlan, AfterReason, Nodes
  <2>3. node'[r] # "paused"
    BY <1>6, <2>2 DEF Engine, RunNode, ActLookup, ActCreate, ActInvoke, ActThrows,
                      TypeOK, Nodes
  <2> QED
    BY <2>1, <2>3 DEF Leaving
<1>7. CASE OrphanStops(r) \/ NodeFault(r) \/ \E j \in Jobs : Dequeue(r, j)
  BY <1>7 DEF OrphanStops, NodeFault, Dequeue, Leaving, TypeOK
<1>8. CASE RunnerFault(r)
  BY <1>8, SpentMoves
<1> QED
  BY <1>1, <1>2, <1>3, <1>4, <1>5, <1>6, <1>7, <1>8, SlotMoves DEF OwnStep

\* Only a run that starts says that the execution runs.
LEMMA RunningMoves ==
    ASSUME TypeOK, [Next]_vars, status' \in {"CREATED", "RUNNING"}
    PROVE  status' = status \/ \E r \in Slots : SetRunning(r)
<1> USE DEF dbVars
<1>1. ASSUME NEW r \in Slots, Runner(r), ~SetRunning(r) PROVE status' = status
  BY <1>1 DEF Runner, Load, CheckCancel, StartGraph, Consume, StreamEnds,
              StreamThrows, CreateMessage, Complete, Announce, Fail, Failed,
              HandleCancel, ClearCancel
<1>2. ASSUME NEW r \in Slots, Engine(r) \/ PollCancel(r) \/ OrphanStops(r)
      PROVE  status' = status
  BY <1>2 DEF Engine, RunNode, ActLookup, ActCreate, ActWait, Paused, ActInvoke,
              ActThrows, PollCancel, OrphanStops
<1>3. ASSUME Failing PROVE status' = status
  BY <1>3 DEF Failing, RunnerFault, NodeFault, HandlerFault, WorkerCrash
<1>4. ASSUME NEW p \in Approvers, Approving(p) PROVE status' = status
  BY <1>4 DEF Approving, DecideRead, DecideWrite, DecideResume
<1>5. ASSUME \/ \E r \in Slots, j \in Jobs : Dequeue(r, j)
             \/ \E j \in Jobs : RecoverStalled(j)
             \/ Cancelling \/ Sweeping
             \/ UNCHANGED vars
      PROVE  status' = status
  BY <1>5 DEF Dequeue, RecoverStalled, Cancelling, CancelRequest, CancelFlag,
              CancelWrite, FlagExpires, Sweeping, SweepRead, SweepMark,
              SweepResume, vars
<1> QED
  BY <1>1, <1>2, <1>3, <1>4, <1>5 DEF Next

\* A job goes on holding while it stays as it is with whoever has it.
LEMMA HoldingStays ==
    ASSUME TypeOK, [Next]_vars, Forgiven', status' \in {"CREATED", "RUNNING"},
           NEW j \in Jobs, Holding(j), jobs'[j].state = jobs[j].state,
           \A q \in Busy' : rjob'[q] = j => q \in Busy /\ rjob[q] = j
    PROVE  Holding(j)'
<1>1. ASSUME NEW q \in Busy', rjob'[q] = j, jobs[j].state = "active"
      PROVE  ~Leaving(q)'
  <2>1. q \in Slots /\ ~Leaving(q)
    BY <1>1 DEF Holding, Busy
  <2> QED
    BY <2>1, LeavingMoves
<1> QED
  BY <1>1 DEF Holding

LEMMA HeldStep ==
    ASSUME HeldInv, [Next]_vars
    PROVE  Held'
<1> SUFFICES ASSUME Forgiven', status' \in {"CREATED", "RUNNING"}
             PROVE  \E j \in Jobs : Holding(j)'
  BY DEF Held
<1>1. TypeOK /\ Owned /\ StallsCounted /\ Forgiven
  BY SpentMoves DEF HeldInv, TypeInv
<1>2. ASSUME NEW r \in Slots, SetRunning(r) PROVE \E j \in Jobs : Holding(j)'
  <2>1. /\ jobs' = jobs /\ rjob' = rjob /\ Busy' = Busy /\ r \in Busy
        /\ pc'[r] = "loadcp"
    BY <1>1, <1>2 DEF SetRunning, Busy, TypeOK
  <2>2. PICK j \in Jobs : /\ j = rjob[r] /\ jobs[j].state = "active"
                          /\ \A q \in Busy : rjob[q] = j => q = r
    BY <1>1, <2>1 DEF Owned
  <2> QED
    BY <2>1, <2>2 DEF Holding, Leaving
<1>3. CASE status' = status
  <2>1. PICK j \in Jobs : Holding(j)
    BY <1>1, <1>3 DEF HeldInv, Held
  <2>2. ASSUME NEW r \in Slots, HandsBack(r) PROVE Holding(j)'
    <3>1. ~RunnerFault(r)
      BY <1>1, SpentMoves
    <3>2. rjob[r] # j
      BY <1>1, <2>1, <2>2, <3>1 DEF HandsBack, Holding, Owned
    <3> QED
      BY <1>1, <2>1, <2>2, <3>2, HandedBack, HoldingStays
  <2>3. ASSUME NEW r \in Slots, NEW i \in Jobs, Dequeue(r, i) PROVE Holding(j)'
    <3>1. CASE i = j
      <4>1. \A q \in Busy' : rjob'[q] = j => q = r
        BY <1>1, <2>3, <3>1, Dequeued
      <4>2. jobs'[j].state = "active" /\ pc'[r] = "load"
        BY <1>1, <2>3, <3>1, Dequeued DEF Dequeue, TypeOK
      <4> QED
        BY <4>1, <4>2 DEF Holding, Leaving
    <3>2. CASE i # j
      <4>1. jobs'[j] = jobs[j] /\ \A q \in Busy' : rjob'[q] = j => q \in Busy /\ rjob[q] = j
        BY <1>1, <2>3, <3>2, Dequeued
      <4> QED
        BY <1>1, <2>1, <4>1, HoldingStays
    <3> QED
      BY <3>1, <3>2
  <2>4. ASSUME NEW i \in Jobs, RecoverStalled(i) PROVE Holding(j)'
    <3>1. CASE i = j
      <4>1. jobs[i].stalls < spent.crashes
        BY <1>1, <2>4, Recovered DEF StallsCounted
      <4>2. /\ jobs[i].stalls \in Nat /\ spent.crashes \in Nat /\ MaxStalls \in Nat
            /\ spent.crashes <= MaxStalls
        <5>1. jobs[i] \in Job /\ spent \in Spent
          BY <1>1 DEF TypeOK
        <5> QED
          BY <1>1, <5>1, ExecutionAssumption DEF Forgiven, Spent, Job
      <4>3. jobs[i].stalls < MaxStalls
        BY <4>1, <4>2
      <4> QED
        BY <1>1, <2>4, <3>1, <4>3, Recovered DEF Holding
    <3>2. CASE i # j
      <4>1. jobs'[j] = jobs[j] /\ Busy' = Busy /\ rjob' = rjob
        BY <1>1, <2>4, <3>2, Recovered
      <4> QED
        BY <1>1, <2>1, <4>1, HoldingStays
    <3> QED
      BY <3>1, <3>2
  <2>5. ASSUME Enqueue, pc' = pc, rjob' = rjob PROVE Holding(j)'
    <3>1. Busy' = Busy
      BY <2>5 DEF Busy
    <3>2. PICK i \in Jobs : /\ jobs[i].state = "absent" /\ jobs'[i].state = "wait"
                            /\ \A k \in Jobs \ {i} : jobs'[k] = jobs[k]
      BY <1>1, <2>5, Added
    <3>3. i # j
      BY <2>1, <3>2 DEF Holding
    <3> QED
      BY <1>1, <2>1, <2>5, <3>1, <3>2, <3>3, HoldingStays
  <2>6. CASE WorkerCrash
    <3>1. jobs' = jobs /\ Busy' = {}
      BY <2>6 DEF WorkerCrash, Busy
    <3> QED
      BY <1>1, <2>1, <3>1, HoldingStays
  <2>7. CASE jobs' = jobs /\ rjob' = rjob /\ Busy' = Busy
    BY <1>1, <2>1, <2>7, HoldingStays
  <2> QED
    BY <1>1, <2>2, <2>3, <2>4, <2>5, <2>6, <2>7, QueueMoves
<1> QED
  BY <1>1, <1>2, <1>3, RunningMoves

\* As long as no call fails and crashes stay within what BullMQ forgives, an
\* execution that says it is created or running has a job, however many runs
\* there are at once, whatever is cancelled, decided or expired.
THEOREM NoneStranded == Spec => []NoStrandedRun
<1>1. Init => HeldInv
  <2> SUFFICES ASSUME Init PROVE HeldInv
    OBVIOUS
  <2>1. Busy = {} /\ TypeInv
    BY TypeInvInit DEF Init, Busy
  <2>2. 1 \in Jobs /\ jobs[1].state = "wait" /\ \A j \in Jobs : jobs[j].stalls = 0
    BY ExecutionAssumption DEF Init, Jobs
  <2>3. \A j \in Jobs : jobs[j].state # "active"
    BY DEF Init
  <2> QED
    BY <2>1, <2>2, <2>3 DEF Init, HeldInv, Owned, StallsCounted, Unowned, Held, Holding
<1>2. HeldInv /\ [Next]_vars => HeldInv'
  BY TypeInvStep, OwnedStep, HeldStep DEF HeldInv, TypeInv
<1>3. HeldInv => NoStrandedRun
  BY DEF HeldInv, Held, Forgiven, Holding, NoStrandedRun
<1> QED
  BY <1>1, <1>2, <1>3, PTL DEF Spec
---------------------------------------------------------------------------
(* Progress.  From the checkpoint over the runner's state and the updates    *)
(* in the buffer to the engine's state the counts only rise.                 *)

NoLess(s, t) ==
    t.results >= s.results /\ t.observed >= s.observed /\ t.loop >= s.loop

\* No two runs of the execution at the same time.
OneRun == \A q, r \in Busy : q = r

Rises(r) ==
    /\ saved # NoState => NoLess(saved, cur[r])
    /\ NoLess(cur[r], est[r])
    /\ \A i \in DOMAIN buf[r] : /\ NoLess(cur[r], buf[r][i].st)
                                /\ NoLess(buf[r][i].st, est[r])
    /\ \A i, j \in DOMAIN buf[r] : i <= j => NoLess(buf[r][i].st, buf[r][j].st)

Rising == \A r \in Slots : pc[r] = "stream" => Rises(r)

\* What holds of the runs since one began alone.
RisingInv == TypeInv /\ Quiet /\ (~spent.overlap => OneRun /\ Rising)

LEMMA NoLessOrder ==
    /\ \A s \in AgentState : NoLess(s, s)
    /\ \A s, t, u \in AgentState : NoLess(s, t) /\ NoLess(t, u) => NoLess(s, u)
  BY DEF NoLess, AgentState

\* A node never takes a count back.
LEMMA OutcomesRise ==
    ASSUME NEW n \in Nodes \ {"act"}, NEW s \in AgentState, NEW t \in Outcomes(n, s)
    PROVE  NoLess(s, t)
<1>1. CASE n = "reason"
  <2>1. \/ \E u \in Tools : t = [s EXCEPT !.pending = u, !.loop = @ + 1]
        \/ \E a \in Texts : t = [s EXCEPT !.pending = NoTool, !.loop = @ + 1,
                                          !.response = a]
        \/ t = [s EXCEPT !.error = TRUE]
    BY <1>1 DEF Outcomes, Reasoned, ToolChosen, Answered
  <2>2. t.results = s.results /\ t.observed = s.observed /\ t.loop \in {s.loop, s.loop + 1}
    BY <2>1 DEF AgentState
  <2> QED
    BY <2>2 DEF NoLess, AgentState
<1>2. CASE n = "plan"
  <2>1. t.results = s.results /\ t.loop = s.loop /\ t.observed = s.observed
    <3>1. \/ \E b \in Plans : t = [s EXCEPT !.needs = b]
          \/ t = [[s EXCEPT !.error = TRUE] EXCEPT !.needs = FALSE]
      BY <1>2 DEF Outcomes, Planned
    <3> QED
      BY <3>1 DEF AgentState
  <2> QED
    BY <2>1 DEF NoLess, AgentState
<1>3. CASE n \in {"retrieve", "retrieve_memory"}
  BY <1>3, NoLessOrder DEF Outcomes, Retrieved, Recalled
<1>4. CASE n = "observe"
  <2>1. /\ t.results = s.results /\ t.loop = s.loop
        /\ t.observed \in {s.observed, s.observed + 1}
    BY <1>4 DEF Outcomes, Observed, AgentState
  <2> QED
    BY <2>1 DEF NoLess, AgentState
<1>5. CASE n = "respond"
  BY <1>5 DEF Outcomes, Responded, AgentState, NoLess
<1> QED
  BY <1>1, <1>2, <1>3, <1>4, <1>5 DEF Nodes

LEMMA ActedRises ==
    ASSUME NEW s \in AgentState
    PROVE  NoLess(s, Acted(s))
<1>1. /\ Acted(s).results = s.results + 1 /\ Acted(s).loop = s.loop
      /\ Acted(s).observed = s.observed
  BY DEF Acted, AgentState
<1> QED
  BY <1>1 DEF NoLess, AgentState

LEMMA UpdateFieldTypes == \A u \in Update : u.st \in AgentState
  BY DEF Update

\* What the engine hands over is its new state, and no less than its old one.
LEMMA EngineRises ==
    ASSUME TypeInv, NEW r \in Slots, Engine(r)
    PROVE  /\ pc' = pc /\ cur' = cur /\ est'[r] \in AgentState
           /\ NoLess(est[r], est'[r])
           /\ \/ buf' = buf
              \/ \E n \in Nodes : buf'[r] = Append(buf[r], [node |-> n, st |-> est'[r]])
<1> TypeOK
  BY DEF TypeInv
<1>1. est[r] \in AgentState /\ pc' = pc /\ cur' = cur
  BY DEF Engine, RunNode, ActLookup, ActCreate, ActWait, ActInvoke, ActThrows,
         runVars, TypeOK
<1>2. ASSUME NEW n \in Nodes, NEW s, Emit(r, n, s)
      PROVE  /\ est'[r] = s
             /\ buf' = buf \/ buf'[r] = Append(buf[r], [node |-> n, st |-> s])
  BY <1>2 DEF Emit, TypeOK
<1>3. CASE RunNode(r)
  <2>1. PICK s \in Outcomes(node[r], est[r]) : Emit(r, node[r], s)
    BY <1>3 DEF RunNode
  <2>2. node[r] \in Nodes \ {"act"}
    BY <1>3 DEF RunNode
  <2>3. s \in AgentState /\ NoLess(est[r], s)
    BY <1>1, <2>1, <2>2, OutcomesType, OutcomesRise
  <2> QED
    BY <1>1, <1>2, <2>1, <2>2, <2>3
<1>4. CASE Emit(r, "act", Acted(est[r]))
  <2>1. Acted(est[r]) \in AgentState /\ NoLess(est[r], Acted(est[r])) /\ "act" \in Nodes
    BY <1>1, ActedType, ActedRises DEF Nodes
  <2>2. /\ est'[r] = Acted(est[r])
        /\ buf' = buf \/ buf'[r] = Append(buf[r], [node |-> "act", st |-> Acted(est[r])])
    BY <1>2, <1>4, <2>1
  <2> QED
    BY <1>1, <2>1, <2>2
<1>5. CASE UNCHANGED <<buf, est>>
  BY <1>1, <1>5, NoLessOrder
<1> QED
  BY <1>3, <1>4, <1>5 DEF Engine, ActLookup, ActCreate, ActWait, ActInvoke, ActThrows

\* The engine's side.
LEMMA EngineKeepsRising ==
    ASSUME TypeInv, Rising, NEW r \in Slots, Engine(r), pc'[r] = "stream", saved' = saved
    PROVE  Rises(r)'
<1> TypeOK
  BY DEF TypeInv
<1>1. /\ pc[r] = "stream" /\ cur'[r] = cur[r] /\ est'[r] \in AgentState
      /\ NoLess(est[r], est'[r]) /\ Rises(r)
      /\ est[r] \in AgentState /\ cur[r] \in AgentState /\ buf[r] \in Seq(Update)
  BY EngineRises DEF Rising, TypeOK
<1>2. \A i \in DOMAIN buf[r] : buf[r][i].st \in AgentState
  BY <1>1, UpdateFieldTypes
<1>3. \A s \in AgentState : NoLess(s, est[r]) => NoLess(s, est'[r])
  BY <1>1, NoLessOrder
<1>4. CASE buf' = buf
  BY <1>1, <1>2, <1>3, <1>4 DEF Rises
<1>5. ASSUME NEW n \in Nodes, buf'[r] = Append(buf[r], [node |-> n, st |-> est'[r]])
      PROVE  Rises(r)'
  <2> DEFINE u == [node |-> n, st |-> est'[r]]
             m == Len(buf[r]) + 1
  <2>1. /\ DOMAIN buf'[r] = DOMAIN buf[r] \cup {m} /\ buf'[r][m] = u
        /\ \A i \in DOMAIN buf[r] : i \in Nat /\ i < m /\ buf'[r][i] = buf[r][i]
    <3>1. u \in Update
      BY <1>1 DEF Update
    <3> HIDE DEF u
    <3> QED
      BY <1>1, <1>5, <3>1 DEF u
  <2>2. u.st = est'[r] /\ NoLess(est'[r], est'[r]) /\ NoLess(cur[r], est'[r]) /\ m \in Nat
    BY <1>1, <1>3, NoLessOrder DEF Rises
  <2>3. ASSUME NEW i \in DOMAIN buf'[r]
        PROVE  NoLess(cur'[r], buf'[r][i].st) /\ NoLess(buf'[r][i].st, est'[r])
    <3>1. CASE i = m
      BY <1>1, <2>1, <2>2, <3>1
    <3>2. CASE i \in DOMAIN buf[r]
      BY <1>1, <1>2, <1>3, <2>1, <3>2 DEF Rises
    <3> QED
      BY <2>1, <3>1, <3>2
  <2>4. ASSUME NEW i \in DOMAIN buf'[r], NEW j \in DOMAIN buf'[r], i <= j
        PROVE  NoLess(buf'[r][i].st, buf'[r][j].st)
    <3>1. CASE j = m
      BY <2>1, <2>2, <2>3, <3>1
    <3>2. CASE j \in DOMAIN buf[r]
      <4>1. i \in DOMAIN buf[r]
        BY <2>1, <2>2, <2>4, <3>2
      <4> QED
        BY <1>1, <2>1, <2>4, <3>2, <4>1 DEF Rises
    <3> QED
      BY <2>1, <3>1, <3>2
  <2> HIDE DEF u, m
  <2> QED
    BY <1>1, <2>2, <2>3, <2>4 DEF Rises
<1> QED
  BY <1>4, <1>5, EngineRises

\* The runner's side: it takes the next state, and saves that one or none.
LEMMA ConsumeRises ==
    ASSUME TypeInv, Rising, NEW r \in Slots, Consume(r)
    PROVE  /\ pc'[r] = "stream" => Rises(r)'
           /\ saved' = saved \/ (saved' # NoState /\ (saved # NoState => NoLess(saved, saved')))
<1> TypeOK
  BY DEF TypeInv
<1> DEFINE b == buf[r]
           u == Head(b)
<1>1. /\ pc[r] = "stream" /\ Rises(r) /\ b \in Seq(Update) /\ b # <<>>
      /\ cur[r] \in AgentState /\ est[r] \in AgentState /\ est' = est
      /\ saved \in AgentState \cup {NoState}
  BY DEF Consume, Rising, TypeOK
<1>2. 1 \in DOMAIN b /\ u = b[1] /\ u \in Update /\ u.st \in AgentState
  BY <1>1, UpdateFieldTypes
<1>3. CASE cancelled[r]
  BY <1>3 DEF Consume, TypeOK
<1>4. CASE ~cancelled[r]
  <2>1. /\ cur'[r] = u.st /\ buf'[r] = Tail(b) /\ saved' \in {u.st, saved}
    BY <1>4 DEF Consume, TypeOK
  <2>2. \A i \in DOMAIN Tail(b) :
            /\ i \in Nat /\ i + 1 \in DOMAIN b /\ Tail(b)[i] = b[i + 1] /\ 1 <= i + 1
            /\ b[i + 1].st \in AgentState
    BY <1>1, UpdateFieldTypes
  <2>3. NoLess(cur[r], u.st) /\ NoLess(u.st, est[r]) /\ NoLess(u.st, u.st)
    BY <1>1, <1>2, NoLessOrder DEF Rises
  <2>4. saved # NoState => NoLess(saved, u.st)
    BY <1>1, <1>2, <2>3, NoLessOrder DEF Rises
  <2>5. u.st # NoState
    BY <1>2 DEF AgentState, NoState
  <2>6. \A i \in DOMAIN Tail(b) :
            NoLess(u.st, Tail(b)[i].st) /\ NoLess(Tail(b)[i].st, est[r])
    BY <1>1, <1>2, <2>2 DEF Rises
  <2>7. \A i, j \in DOMAIN Tail(b) : i <= j => NoLess(Tail(b)[i].st, Tail(b)[j].st)
    BY <1>1, <2>2 DEF Rises
  <2>8. Rises(r)'
    BY <1>1, <2>1, <2>3, <2>4, <2>6, <2>7 DEF Rises
  <2> QED
    BY <2>1, <2>4, <2>5, <2>8
<1> QED
  BY <1>3, <1>4

LEMMA RisingStep ==
    ASSUME TypeInv, Quiet, OneRun, Rising, [Next]_vars
    PROVE  Rising'
<1> TypeOK
  BY DEF TypeInv
<1> USE DEF dbVars, runVars, engineVars, humanVars
<1> SUFFICES ASSUME NEW r \in Slots, pc'[r] = "stream" PROVE Rises(r)'
  BY DEF Rising
<1>1. CASE Consume(r)
  BY <1>1, ConsumeRises
<1>2. ASSUME NEW q \in Slots, q # r, Consume(q) PROVE FALSE
  <2>1. pc[q] = "stream" /\ pc[r] = "stream"
    BY <1>2 DEF Consume, TypeOK
  <2> QED
    BY <1>2, <2>1 DEF OneRun, Busy
<1>3. ASSUME saved' = saved, ~Consume(r) PROVE Rises(r)'
  <2>1. CASE /\ pc[r] = "stream" /\ cur'[r] = cur[r] /\ est'[r] = est[r]
             /\ buf'[r] = buf[r]
    BY <1>3, <2>1 DEF Rising, Rises
  <2>2. CASE StartGraph(r)
    <3>1. /\ cur'[r] = StartState /\ est'[r] = StartState /\ buf'[r] = <<>>
          /\ StartState \in AgentState /\ (saved # NoState => StartState = saved)
      BY <2>2, InitialStateType DEF StartGraph, StartState, Quiet, Early, TypeOK
    <3>2. NoLess(StartState, StartState)
      BY <3>1, NoLessOrder
    <3> QED
      BY <1>3, <3>1, <3>2 DEF Rises
  <2>3. CASE Engine(r)
    BY <1>3, <2>3, EngineKeepsRising
  <2>4. CASE Release(r) \/ WorkerCrash \/ OrphanStops(r)
    BY <2>4 DEF Release, WorkerCrash, OrphanStops, TypeOK
  <2>5. CASE Untouched(r) \/ NodeFault(r)
    BY <2>1, <2>5 DEF Untouched, NodeFault
  <2>6. CASE Runner(r) /\ ~StartGraph(r)
    BY <1>3, <2>1, <2>4, <2>6
       DEF Runner, Load, CheckCancel, SetRunning, StreamEnds, StreamThrows,
           CreateMessage, Complete, Announce, Fail, HandleCancel, ClearCancel,
           TypeOK
  <2>7. CASE RunnerFault(r) \/ \E j \in Jobs : Dequeue(r, j)
    BY <2>4, <2>7 DEF RunnerFault, Dequeue, TypeOK
  <2> QED
    BY <2>2, <2>3, <2>4, <2>5, <2>6, <2>7, SlotMoves DEF OwnStep
<1> QED
  BY <1>1, <1>2, <1>3, SavedMoves

\* Runs only become two when a job is taken beside a busy slot.
LEMMA OneRunStep ==
    ASSUME TypeInv, OneRun, [Next]_vars,
           ~\E r \in Slots, j \in Jobs : Dequeue(r, j)
    PROVE  OneRun'
<1>1. TypeOK
  BY DEF TypeInv
<1>2. ASSUME NEW r \in Slots, HandsBack(r) PROVE Busy' \subseteq Busy
  BY <1>1, <1>2 DEF HandsBack, Release, Busy, TypeOK
<1>3. ASSUME \/ \E j \in Jobs : RecoverStalled(j)
             \/ Enqueue /\ pc' = pc /\ rjob' = rjob
      PROVE  Busy' = Busy
  BY <1>3 DEF RecoverStalled, runVars, Busy
<1>4. CASE WorkerCrash
  BY <1>4 DEF WorkerCrash, OneRun, Busy
<1>5. CASE Busy' \subseteq Busy
  BY <1>5 DEF OneRun
<1> QED
  BY <1>1, <1>2, <1>3, <1>4, <1>5, QueueMoves DEF OneRun

\* A run that begins alone is the only one, and has not read its checkpoint.
LEMMA BeginsAlone ==
    ASSUME TypeOK, NEW r \in Slots, NEW j \in Jobs, Dequeue(r, j), ~spent'.overlap
    PROVE  OneRun' /\ Rising'
<1>1. Busy = {}
  BY DEF Dequeue, TypeOK, Spent
<1>2. Busy' = {r} /\ pc'[r] = "load"
  BY <1>1 DEF Dequeue, Busy, TypeOK
<1>3. \A q \in Slots : pc'[q] # "stream"
  BY <1>2 DEF Busy
<1> QED
  BY <1>2, <1>3 DEF OneRun, Rising

\* From the start of a run that begins alone to the start of one that does not,
\* no checkpoint is behind an earlier one: not after a retry, a pause, a stalled
\* job or a crash, and whatever the concurrency of the worker is.
THEOREM ProgressIsKept == Spec => ProgressKept
<1>1. Init => RisingInv
  BY TypeInvInit DEF Init, RisingInv, Quiet, Rising, OneRun, Busy
<1>2. RisingInv /\ [Next]_vars => RisingInv'
  <2> SUFFICES ASSUME TypeInv, Quiet, ~spent.overlap => OneRun /\ Rising,
                      [Next]_vars, ~spent'.overlap
               PROVE  OneRun' /\ Rising'
    BY TypeInvStep, QuietStep DEF RisingInv
  <2>1. TypeOK
    BY DEF TypeInv
  <2>2. CASE \E r \in Slots, j \in Jobs : Dequeue(r, j)
    BY <2>1, <2>2, BeginsAlone
  <2>3. CASE ~\E r \in Slots, j \in Jobs : Dequeue(r, j)
    <3>1. ~spent.overlap
      BY <2>1, <2>3, SpentMoves
    <3> QED
      BY <2>3, <3>1, OneRunStep, RisingStep
  <2> QED
    BY <2>2, <2>3
<1>3. RisingInv /\ [Next]_vars =>
          [~spent.overlap /\ saved # NoState =>
              /\ saved'.results >= saved.results
              /\ saved'.observed >= saved.observed
              /\ saved'.loop >= saved.loop]_saved
  BY SavedMoves, ConsumeRises DEF RisingInv, NoLess
<1> QED
  BY <1>1, <1>2, <1>3, PTL DEF Spec, ProgressKept
=============================================================================
