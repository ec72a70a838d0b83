--------------------------- MODULE AgentExecution ---------------------------
(***************************************************************************)
(* The life of one execution: the BullMQ jobs that run it, the runner that  *)
(* drives the research graph in a worker slot, the cancel route, the        *)
(* approvals and the expiry sweeper.  Every await of the code is a point    *)
(* where the other processes may act, so each step below is what the code   *)
(* does between two of them (an event append that nothing else reads is     *)
(* joined to the step before it).  No statement of these components touches *)
(* another execution's rows, so one execution is modelled.                  *)
(***************************************************************************)
EXTENDS ResearchGraph, Sequences, FiniteSets

CONSTANTS Slots,        \* contexts a run may live in, abandoned ones included
          Concurrency,  \* concurrency of the BullMQ worker (2 in the code)
          Attempts,     \* attempts of a job (3 in the code)
          MaxStalls,    \* BullMQ's maxStalledCount (default 1)
          Approvers,    \* concurrent requests to decide an approval
          MaxAhead,     \* updates the graph engine may run ahead of its consumer
          MaxJobs, MaxApprovals,                 \* bounds on what is created
          MaxCrashes, MaxFaults, MaxCancels      \* bounds on the environment

ASSUME ExecutionAssumption ==
    /\ {Concurrency, Attempts, MaxStalls, MaxAhead, MaxJobs, MaxApprovals,
        MaxCrashes, MaxFaults, MaxCancels} \subseteq Nat
    /\ MaxJobs > 0 /\ Attempts > 0

VARIABLES
    status,     \* Execution.status
    answers,    \* number of assistant messages written for the execution
    saved,      \* state of the latest checkpoint, or NoState
    approvals,  \* the Approval rows in creation order
    flag,       \* the Redis cancellation flag
    jobs,       \* the BullMQ jobs of the execution
    pc,         \* per slot: where the runner (consumer of the stream) is
    rjob,       \* per slot: the job it runs
    cancelled,  \* per slot: what the cancellation poll last set
    cur,        \* per slot: the runner's currentState
    buf,        \* per slot: updates emitted by the engine, not yet consumed
    node,       \* per slot: the node the graph engine is at
    est,        \* per slot: the engine's own state
    cpc,        \* the cancel route's handler
    dpc, dec,   \* per approver: the decision handler, and what it decides
    stale,      \* approvals the sweeper has read as stale and not yet resumed
    swept,      \* whether the sweeper has marked them
    granted,    \* history: tools for which a decision APPROVED was written
    invoked,    \* history: tools the act node handed to the executor
    spent       \* crashes, faults and cancel requests so far; overlap: the
                \* latest run began while another one was under way

dbVars     == <<status, answers, saved>>
runVars    == <<pc, rjob, cancelled, cur>>
engineVars == <<buf, node, est>>
humanVars  == <<approvals, dpc, dec, stale, swept, granted>>
vars == <<dbVars, flag, jobs, runVars, engineVars, cpc, humanVars, invoked,
          spent>>

Jobs      == 1..MaxJobs
Job       == [state : {"absent", "wait", "active", "finished"},
              made : Nat, stalls : Nat]
NoJob     == 0
Statuses  == {"CREATED", "RUNNING", "WAITING_FOR_APPROVAL",
              "COMPLETED", "FAILED", "CANCELLED"}
Terminal  == {"COMPLETED", "FAILED", "CANCELLED"}
Resumable == {"CREATED", "RUNNING", "WAITING_FOR_APPROVAL"}
NoState   == [none |-> TRUE]
Update    == [node : Nodes, st : AgentState]
Halted    == {"idle", "end", "paused", "threw"}
Working   == Nodes \cup {"act_create", "act_wait", "act_invoke"}
Controls  == {"free", "load", "check", "setrun", "loadcp", "stream", "message",
              "complete", "announce", "fail", "cancel", "uncancel", "orphan"}
Approval  == [tool : Tools, named : BOOLEAN,
              status : {"PENDING", "APPROVED", "REJECTED", "EXPIRED"}]
Decision  == [approval : 1..MaxApprovals, to : {"APPROVED", "REJECTED"},
              note : BOOLEAN]
NoDecision == [none |-> TRUE]
Spent     == [crashes : Nat, faults : Nat, cancels : Nat, overlap : BOOLEAN]

Init ==
    /\ status = "CREATED" /\ answers = 0 /\ saved = NoState
    /\ approvals = <<>> /\ flag = FALSE
    /\ jobs = [j \in Jobs |->
                 [state |-> IF j = 1 THEN "wait" ELSE "absent",
                  made |-> 0, stalls |-> 0]]
    /\ pc = [r \in Slots |-> "free"] /\ rjob = [r \in Slots |-> NoJob]
    /\ cancelled = [r \in Slots |-> FALSE]
    /\ cur = [r \in Slots |-> InitialState]
    /\ buf = [r \in Slots |-> <<>>]
    /\ node = [r \in Slots |-> "idle"]
    /\ est = [r \in Slots |-> InitialState]
    /\ cpc = "idle"
    /\ dpc = [p \in Approvers |-> "idle"]
    /\ dec = [p \in Approvers |-> NoDecision]
    /\ stale = {} /\ swept = FALSE
    /\ granted = {} /\ invoked = {}
    /\ spent = [crashes |-> 0, faults |-> 0, cancels |-> 0, overlap |-> FALSE]

---------------------------------------------------------------------------
(* The queue: producer, and what BullMQ does with a job.                    *)

\* enqueueResume: the time-stamped id is never one of an earlier job.
Enqueue ==
    \E j \in Jobs :
        /\ jobs[j].state = "absent"
        /\ \A i \in 1..(j - 1) : jobs[i].state # "absent"
        /\ jobs' = [jobs EXCEPT ![j].state = "wait"]

Busy == {r \in Slots : pc[r] \notin {"free", "orphan"}}

\* A free worker slot takes a waiting job.
Dequeue(r, j) ==
    /\ pc[r] = "free" /\ jobs[j].state = "wait"
    /\ Cardinality(Busy) < Concurrency
    /\ jobs' = [jobs EXCEPT ![j].state = "active"]
    /\ rjob' = [rjob EXCEPT ![r] = j]
    /\ pc' = [pc EXCEPT ![r] = "load"]
    /\ spent' = [spent EXCEPT !.overlap = Busy # {}]
    /\ UNCHANGED <<dbVars, flag, cancelled, cur, engineVars, cpc, humanVars,
                   invoked>>

\* The processor returned, or threw and the job has attempts left, or none.
JobReturned(r) == jobs' = [jobs EXCEPT ![rjob[r]].state = "finished"]

JobThrew(r) ==
    LET made == jobs[rjob[r]].made + 1 IN
    jobs' = [jobs EXCEPT ![rjob[r]].made = made,
                         ![rjob[r]].state =
                            IF made < Attempts THEN "wait" ELSE "finished"]

\* The slot is free again, unless the graph engine it leaves is still at work.
Release(r) ==
    /\ pc' = [pc EXCEPT ![r] = IF node[r] \in Halted THEN "free" ELSE "orphan"]
    /\ cancelled' = [cancelled EXCEPT ![r] = FALSE]
    /\ cur' = [cur EXCEPT ![r] = InitialState]
    /\ buf' = [buf EXCEPT ![r] = <<>>]
    /\ node' = [node EXCEPT ![r] = IF @ \in Halted THEN "idle" ELSE @]
    /\ est' = [est EXCEPT ![r] = IF node[r] \in Halted THEN InitialState ELSE @]
    /\ rjob' = [rjob EXCEPT ![r] = NoJob]

\* The stalled check: an active job nobody runs goes back, or fails for good.
RecoverStalled(j) ==
    /\ jobs[j].state = "active"
    /\ \A r \in Busy : rjob[r] # j
    /\ jobs' = [jobs EXCEPT ![j].stalls = @ + 1,
                            ![j].state = IF jobs[j].stalls < MaxStalls
                                         THEN "wait" ELSE "finished"]
    /\ UNCHANGED <<dbVars, flag, runVars, engineVars, cpc, humanVars, invoked,
                   spent>>

---------------------------------------------------------------------------
(* The runner, before the graph starts (nothing here is inside its try).    *)

MutantAnyStatus == TRUE
IsResumable == status \in Resumable

\* Reads the execution; one that is not resumable is skipped.
Load(r) ==
    /\ pc[r] = "load"
    /\ \/ /\ IsResumable
          /\ pc' = [pc EXCEPT ![r] = "check"]
          /\ UNCHANGED <<jobs, rjob, cancelled, cur, engineVars>>
       \/ /\ ~IsResumable
          /\ JobReturned(r) /\ Release(r)
    /\ UNCHANGED <<dbVars, flag, cpc, humanVars, invoked, spent>>

CheckCancel(r) ==
    /\ pc[r] = "check"
    /\ pc' = [pc EXCEPT ![r] = IF flag THEN "cancel" ELSE "setrun"]
    /\ UNCHANGED <<dbVars, flag, jobs, rjob, cancelled, cur, engineVars, cpc,
                   humanVars, invoked, spent>>

SetRunning(r) ==
    /\ pc[r] = "setrun"
    /\ status' = "RUNNING"
    /\ pc' = [pc EXCEPT ![r] = "loadcp"]
    /\ UNCHANGED <<answers, saved, flag, jobs, rjob, cancelled, cur,
                   engineVars, cpc, humanVars, invoked, spent>>

MutantFreshState == InitialState
StartState == IF saved = NoState THEN InitialState ELSE saved

\* The saved state, or a fresh one, enters the graph at its first node.
StartGraph(r) ==
    /\ pc[r] = "loadcp"
    /\ pc' = [pc EXCEPT ![r] = "stream"]
    /\ cur' = [cur EXCEPT ![r] = StartState]
    /\ est' = [est EXCEPT ![r] = StartState]
    /\ node' = [node EXCEPT ![r] = "plan"]
    /\ UNCHANGED <<dbVars, flag, jobs, rjob, cancelled, buf, cpc, humanVars,
                   invoked, spent>>

---------------------------------------------------------------------------
(* The graph engine.  It runs on its own and hands its updates to the       *)
(* runner through a buffer; an abandoned one goes on until it is stopped.   *)

Abandoned(r) == pc[r] \in {"cancel", "uncancel", "fail", "orphan"}

MayEmit(r) == Abandoned(r) \/ (pc[r] = "stream" /\ Len(buf[r]) < MaxAhead)

Emit(r, n, s) ==
    /\ est' = [est EXCEPT ![r] = s]
    /\ node' = [node EXCEPT ![r] = NextNode(n, s)]
    /\ buf' = IF Abandoned(r) THEN buf
              ELSE [buf EXCEPT ![r] = Append(@, [node |-> n, st |-> s])]

\* A node that only transforms the shared state.
RunNode(r) ==
    /\ node[r] \in Nodes \ {"act"} /\ MayEmit(r)
    /\ \E s \in Outcomes(node[r], est[r]) : Emit(r, node[r], s)
    /\ UNCHANGED <<dbVars, flag, jobs, runVars, cpc, humanVars, invoked, spent>>

\* The latest approval of the execution whose payload names the tool decides;
\* if there is none, the decision is still pending.
Naming(t) == {a \in DOMAIN approvals : approvals[a].named /\ approvals[a].tool = t}

Latest(t) == {a \in Naming(t) : \A b \in Naming(t) : b <= a}

MutantExpiredPasses(t) ==
    IF Naming(t) = {} THEN {"PENDING"}
    ELSE {IF approvals[a].status = "EXPIRED" THEN "APPROVED"
          ELSE approvals[a].status : a \in Latest(t)}

DecisionFor(t) ==
    IF Naming(t) = {} THEN {"PENDING"} ELSE {approvals[a].status : a \in Latest(t)}

ActLookup(r) ==
    /\ node[r] = "act" /\ MayEmit(r)
    /\ LET t == est[r].pending IN
       \E d \in (IF t \in Gated THEN DecisionFor(t) ELSE {"APPROVED"}) :
          \/ /\ d = "PENDING"
             /\ node' = [node EXCEPT ![r] = "act_create"]
             /\ UNCHANGED <<buf, est>>
          \/ /\ d = "APPROVED"
             /\ node' = [node EXCEPT ![r] = "act_invoke"]
             /\ UNCHANGED <<buf, est>>
          \/ /\ d \in {"REJECTED", "EXPIRED"}
             /\ Emit(r, "act", Acted(est[r]))
    /\ UNCHANGED <<dbVars, flag, jobs, runVars, cpc, humanVars, invoked, spent>>

\* createApproval: the row, then the status, the event, the pause.
ActCreate(r) ==
    /\ node[r] = "act_create" /\ Len(approvals) < MaxApprovals
    /\ approvals' = Append(approvals, [tool |-> est[r].pending, named |-> TRUE,
                                       status |-> "PENDING"])
    /\ node' = [node EXCEPT ![r] = "act_wait"]
    /\ UNCHANGED <<dbVars, flag, jobs, runVars, buf, est, cpc, dpc, dec, stale,
                   swept, granted, invoked, spent>>

MutantNoPause == status
Paused == "WAITING_FOR_APPROVAL"

ActWait(r) ==
    /\ node[r] = "act_wait"
    /\ status' = Paused
    /\ node' = [node EXCEPT ![r] = "paused"]
    /\ UNCHANGED <<answers, saved, flag, jobs, runVars, buf, est, cpc,
                   humanVars, invoked, spent>>

\* The executor returns a result for a success, an error and a timeout alike.
ActInvoke(r) ==
    /\ node[r] = "act_invoke" /\ MayEmit(r)
    /\ invoked' = invoked \cup {est[r].pending}
    /\ Emit(r, "act", Acted(est[r]))
    /\ UNCHANGED <<dbVars, flag, jobs, runVars, cpc, humanVars, spent>>

\* An unknown tool, or an input its schema refuses, throws out of the node.
ActThrows(r) ==
    /\ node[r] \in {"act", "act_invoke"}
    /\ node' = [node EXCEPT ![r] = "threw"]
    /\ UNCHANGED <<dbVars, flag, jobs, runVars, buf, est, cpc, humanVars,
                   invoked, spent>>

\* An engine nobody consumes reaches its end, fails, or is aborted.
OrphanStops(r) ==
    /\ pc[r] = "orphan" /\ node[r] \in Halted \cup Nodes
    /\ pc' = [pc EXCEPT ![r] = "free"]
    /\ node' = [node EXCEPT ![r] = "idle"]
    /\ est' = [est EXCEPT ![r] = InitialState]
    /\ UNCHANGED <<dbVars, flag, jobs, rjob, cancelled, cur, buf, cpc,
                   humanVars, invoked, spent>>

---------------------------------------------------------------------------
(* The runner, inside its try.                                              *)

\* The one-second poll.
PollCancel(r) ==
    /\ pc[r] = "stream" /\ flag /\ ~cancelled[r]
    /\ cancelled' = [cancelled EXCEPT ![r] = TRUE]
    /\ UNCHANGED <<dbVars, flag, jobs, pc, rjob, cur, engineVars, cpc,
                   humanVars, invoked, spent>>

\* The next update: a cancelled run throws, another merges it and saves.
Consume(r) ==
    /\ pc[r] = "stream" /\ buf[r] # <<>>
    /\ \/ /\ cancelled[r]
          /\ pc' = [pc EXCEPT ![r] = "cancel"]
          /\ buf' = [buf EXCEPT ![r] = <<>>]
          /\ UNCHANGED <<cur, saved>>
       \/ /\ ~cancelled[r]
          /\ LET u == Head(buf[r]) IN
             /\ cur' = [cur EXCEPT ![r] = u.st]
             /\ saved' = IF u.node \in CheckpointNodes THEN u.st ELSE saved
          /\ buf' = [buf EXCEPT ![r] = Tail(@)]
          /\ UNCHANGED pc
    /\ UNCHANGED <<status, answers, flag, jobs, rjob, cancelled, node, est,
                   cpc, humanVars, invoked, spent>>

MutantEngineDone(r) == node[r] = "end"
StreamDone(r) == node[r] = "end" /\ buf[r] = <<>>

\* The stream ends; an error left in the state fails the run after all.
StreamEnds(r) ==
    /\ pc[r] = "stream" /\ StreamDone(r)
    /\ pc' = [pc EXCEPT ![r] = IF cur[r].error THEN "fail" ELSE "message"]
    /\ UNCHANGED <<dbVars, flag, jobs, rjob, cancelled, cur, engineVars, cpc,
                   humanVars, invoked, spent>>

\* The engine's error reaches the runner, which may lose buffered updates.
StreamThrows(r) ==
    /\ pc[r] = "stream"
    /\ \/ /\ node[r] = "paused"
          /\ JobThrew(r) /\ Release(r)
       \/ /\ node[r] = "threw"
          /\ pc' = [pc EXCEPT ![r] = "fail"]
          /\ UNCHANGED <<jobs, rjob, cancelled, cur, engineVars>>
    /\ UNCHANGED <<dbVars, flag, cpc, humanVars, invoked, spent>>

CreateMessage(r) ==
    /\ pc[r] = "message"
    /\ answers' = answers + 1
    /\ pc' = [pc EXCEPT ![r] = "complete"]
    /\ UNCHANGED <<status, saved, flag, jobs, rjob, cancelled, cur, engineVars,
                   cpc, humanVars, invoked, spent>>

Complete(r) ==
    /\ pc[r] = "complete"
    /\ status' = "COMPLETED"
    /\ pc' = [pc EXCEPT ![r] = "announce"]
    /\ UNCHANGED <<answers, saved, flag, jobs, rjob, cancelled, cur, engineVars,
                   cpc, humanVars, invoked, spent>>

\* COMPLETED is announced, the flag cleared, and the job returns (pruning
\* keeps the latest checkpoint, the only one this module is about).
Announce(r) ==
    /\ pc[r] = "announce"
    /\ flag' = FALSE
    /\ JobReturned(r) /\ Release(r)
    /\ UNCHANGED <<dbVars, cpc, humanVars, invoked, spent>>

MutantErrorUnrecorded == status
Failed == "FAILED"

Fail(r) ==
    /\ pc[r] = "fail"
    /\ status' = Failed
    /\ JobThrew(r) /\ Release(r)
    /\ UNCHANGED <<answers, saved, flag, cpc, humanVars, invoked, spent>>

\* handleCancel: the status, then the event and the flag.  Before the graph
\* the job returns; out of the stream the error is thrown on.
HandleCancel(r) ==
    /\ pc[r] = "cancel"
    /\ status' = "CANCELLED"
    /\ pc' = [pc EXCEPT ![r] = "uncancel"]
    /\ UNCHANGED <<answers, saved, flag, jobs, rjob, cancelled, cur, engineVars,
                   cpc, humanVars, invoked, spent>>

ClearCancel(r) ==
    /\ pc[r] = "uncancel"
    /\ flag' = FALSE
    /\ IF node[r] = "idle" THEN JobReturned(r) ELSE JobThrew(r)
    /\ Release(r)
    /\ UNCHANGED <<dbVars, cpc, humanVars, invoked, spent>>

---------------------------------------------------------------------------
(* The cancel route: ownership snapshot, flag, status and event.            *)

CancelRequest ==
    /\ cpc = "idle" /\ spent.cancels < MaxCancels
    /\ status \notin Terminal
    /\ cpc' = "flag"
    /\ spent' = [spent EXCEPT !.cancels = @ + 1]
    /\ UNCHANGED <<dbVars, flag, jobs, runVars, engineVars, humanVars, invoked>>

CancelFlag ==
    /\ cpc = "flag"
    /\ flag' = TRUE /\ cpc' = "write"
    /\ UNCHANGED <<dbVars, jobs, runVars, engineVars, humanVars, invoked, spent>>

CancelWrite ==
    /\ cpc = "write"
    /\ status' = "CANCELLED" /\ cpc' = "idle"
    /\ UNCHANGED <<answers, saved, flag, jobs, runVars, engineVars, humanVars,
                   invoked, spent>>

\* The flag lives for an hour; an approval may be awaited for two days.
FlagExpires ==
    /\ flag /\ flag' = FALSE
    /\ UNCHANGED <<dbVars, jobs, runVars, engineVars, cpc, humanVars, invoked,
                   spent>>

---------------------------------------------------------------------------
(* Deciding an approval, and expiring those nobody decides.                 *)

DecideRead(p, a, to, note) ==
    /\ dpc[p] = "idle"
    /\ a \in DOMAIN approvals /\ approvals[a].status = "PENDING"
    /\ dpc' = [dpc EXCEPT ![p] = "read"]
    /\ dec' = [dec EXCEPT ![p] = [approval |-> a, to |-> to, note |-> note]]
    /\ UNCHANGED <<dbVars, flag, jobs, runVars, engineVars, cpc, approvals,
                   stale, swept, granted, invoked, spent>>

\* The row is written by its id alone, and a note replaces its payload.
DecideWrite(p) ==
    LET a == dec[p].approval IN
    /\ dpc[p] = "read"
    /\ approvals' = [approvals EXCEPT
                        ![a] = [tool   |-> approvals[a].tool,
                                named  |-> approvals[a].named /\ ~dec[p].note,
                                status |-> dec[p].to]]
    /\ granted' = IF dec[p].to = "APPROVED"
                  THEN granted \cup {approvals[a].tool} ELSE granted
    /\ dpc' = [dpc EXCEPT ![p] = "written"]
    /\ UNCHANGED <<dbVars, flag, jobs, runVars, engineVars, cpc, dec, stale,
                   swept, invoked, spent>>

DecideResume(p) ==
    /\ dpc[p] = "written"
    /\ Enqueue
    /\ dpc' = [dpc EXCEPT ![p] = "idle"]
    /\ dec' = [dec EXCEPT ![p] = NoDecision]
    /\ UNCHANGED <<dbVars, flag, runVars, engineVars, cpc, approvals, stale,
                   swept, granted, invoked, spent>>

\* expireStale: all approvals have the same time to live, so the stale ones
\* are the pending among the first k.  They are marked by id, whatever they
\* have become, and then resumed one by one in no particular order.  (Bound: a
\* sweep for whose resume MaxJobs leaves no job is not begun.)
SweepRead(k) ==
    LET found == {a \in 1..k : approvals[a].status = "PENDING"} IN
    /\ stale = {} /\ k \in DOMAIN approvals /\ found # {}
    /\ \E j \in Jobs : jobs[j].state = "absent"
    /\ stale' = found /\ swept' = FALSE
    /\ UNCHANGED <<dbVars, flag, jobs, runVars, engineVars, cpc, approvals,
                   dpc, dec, granted, invoked, spent>>

SweepMark ==
    /\ stale # {} /\ ~swept
    /\ approvals' = [a \in DOMAIN approvals |->
                        IF a \in stale
                        THEN [approvals[a] EXCEPT !.status = "EXPIRED"]
                        ELSE approvals[a]]
    /\ swept' = TRUE
    /\ UNCHANGED <<dbVars, flag, jobs, runVars, engineVars, cpc, dpc, dec,
                   stale, granted, invoked, spent>>

SweepResume(a) ==
    /\ swept /\ a \in stale
    /\ Enqueue
    /\ stale' = stale \ {a}
    /\ swept' = (stale \ {a} # {})
    /\ UNCHANGED <<dbVars, flag, runVars, engineVars, cpc, approvals, dpc, dec,
                   granted, invoked, spent>>

---------------------------------------------------------------------------
(* Failures: a rejected database or Redis call, a crash of the API process  *)
(* in a handler, a crash of the worker process with all it runs.            *)

Fault ==
    /\ spent.faults < MaxFaults
    /\ spent' = [spent EXCEPT !.faults = @ + 1]

\* Before the try, and in its catch, the rejection fails the job and no more.
RunnerFault(r) ==
    /\ Fault
    /\ \/ /\ pc[r] \in {"load", "check", "setrun", "loadcp", "fail", "cancel",
                        "uncancel"}
          /\ JobThrew(r) /\ Release(r)
       \/ /\ pc[r] \in {"stream", "message", "complete", "announce"}
          /\ pc' = [pc EXCEPT ![r] = "fail"]
          /\ buf' = [buf EXCEPT ![r] = <<>>]
          /\ UNCHANGED <<jobs, rjob, cancelled, cur, node, est>>
    /\ UNCHANGED <<dbVars, flag, cpc, humanVars, invoked>>

NodeFault(r) ==
    /\ Fault
    /\ node[r] \in Working
    /\ node' = [node EXCEPT ![r] = "threw"]
    /\ UNCHANGED <<dbVars, flag, jobs, runVars, buf, est, cpc, humanVars,
                   invoked>>

HandlerFault ==
    /\ Fault
    /\ \/ /\ cpc # "idle" /\ cpc' = "idle"
          /\ UNCHANGED <<dpc, dec, stale, swept>>
       \/ \E p \in Approvers :
             /\ dpc[p] # "idle"
             /\ dpc' = [dpc EXCEPT ![p] = "idle"]
             /\ dec' = [dec EXCEPT ![p] = NoDecision]
             /\ UNCHANGED <<cpc, stale, swept>>
       \/ /\ stale # {}
          /\ stale' = {} /\ swept' = FALSE
          /\ UNCHANGED <<cpc, dpc, dec>>
    /\ UNCHANGED <<dbVars, flag, jobs, runVars, engineVars, approvals, granted,
                   invoked>>

WorkerCrash ==
    /\ spent.crashes < MaxCrashes
    /\ spent' = [spent EXCEPT !.crashes = @ + 1]
    /\ \E r \in Slots : pc[r] # "free"
    /\ pc' = [r \in Slots |-> "free"] /\ rjob' = [r \in Slots |-> NoJob]
    /\ cancelled' = [r \in Slots |-> FALSE]
    /\ cur' = [r \in Slots |-> InitialState]
    /\ buf' = [r \in Slots |-> <<>>]
    /\ node' = [r \in Slots |-> "idle"]
    /\ est' = [r \in Slots |-> InitialState]
    /\ stale' = {} /\ swept' = FALSE
    /\ UNCHANGED <<dbVars, flag, jobs, cpc, approvals, dpc, dec, granted,
                   invoked>>

---------------------------------------------------------------------------
Runner(r) ==
    \/ Load(r) \/ CheckCancel(r) \/ SetRunning(r) \/ StartGraph(r)
    \/ Consume(r) \/ StreamEnds(r) \/ StreamThrows(r)
    \/ CreateMessage(r) \/ Complete(r) \/ Announce(r)
    \/ Fail(r) \/ HandleCancel(r) \/ ClearCancel(r)

Engine(r) ==
    \/ RunNode(r) \/ ActLookup(r) \/ ActCreate(r) \/ ActWait(r)
    \/ ActInvoke(r) \/ ActThrows(r)

Approving(p) ==
    \/ \E a \in 1..MaxApprovals, to \in {"APPROVED", "REJECTED"},
          note \in BOOLEAN : DecideRead(p, a, to, note)
    \/ DecideWrite(p) \/ DecideResume(p)

Sweeping ==
    \/ \E k \in 1..MaxApprovals : SweepRead(k)
    \/ SweepMark
    \/ \E a \in 1..MaxApprovals : SweepResume(a)

Cancelling == CancelRequest \/ CancelFlag \/ CancelWrite \/ FlagExpires

Failing ==
    \/ \E r \in Slots : RunnerFault(r) \/ NodeFault(r)
    \/ HandlerFault \/ WorkerCrash

Next ==
    \/ \E r \in Slots, j \in Jobs : Dequeue(r, j)
    \/ \E j \in Jobs : RecoverStalled(j)
    \/ \E r \in Slots : Runner(r) \/ Engine(r) \/ PollCancel(r) \/ OrphanStops(r)
    \/ \E p \in Approvers : Approving(p)
    \/ Sweeping \/ Cancelling \/ Failing

Spec == Init /\ [][Next]_vars

\* A worker process that is up keeps serving: jobs are taken and recovered,
\* every await of a run and of a node settles, and an engine that nobody consumes
\* comes to its end.  People and timers owe nothing.
Fairness ==
    /\ \A j \in Jobs : WF_vars(RecoverStalled(j) \/ \E r \in Slots : Dequeue(r, j))
    /\ \A r \in Slots : WF_vars(Runner(r) \/ Engine(r) \/ OrphanStops(r))

FairSpec == Spec /\ Fairness

---------------------------------------------------------------------------
(* Properties *)

TypeOK ==
    /\ status \in Statuses /\ answers \in Nat
    /\ saved \in AgentState \cup {NoState}
    /\ approvals \in Seq(Approval) /\ flag \in BOOLEAN
    /\ jobs \in [Jobs -> Job]
    /\ pc \in [Slots -> Controls] /\ rjob \in [Slots -> Jobs \cup {NoJob}]
    /\ cancelled \in [Slots -> BOOLEAN] /\ cur \in [Slots -> AgentState]
    /\ buf \in [Slots -> Seq(Update)]
    /\ node \in [Slots -> Working \cup Halted] /\ est \in [Slots -> AgentState]
    /\ cpc \in {"idle", "flag", "write"}
    /\ dpc \in [Approvers -> {"idle", "read", "written"}]
    /\ dec \in [Approvers -> Decision \cup {NoDecision}]
    /\ stale \in SUBSET Nat /\ swept \in BOOLEAN
    /\ granted \subseteq Tools /\ invoked \subseteq Tools
    /\ spent \in Spent

\* A tool that requires approval reaches the executor only if somebody decided
\* APPROVED on an approval of this execution naming that tool: whatever the
\* act node reads across retries, concurrent runs, crashes, notes that replace
\* payloads and sweeps that overwrite decisions.
GateRespected == invoked \cap Gated \subseteq granted

\* The tool results of an execution stay within maxLoops on every lineage of
\* states: in the engine, in the runner and in the checkpoint a later run
\* starts from, although each resumed run enters the graph at its beginning.
ToolBudget ==
    /\ \A r \in Slots : est[r].results <= MaxLoops /\ cur[r].results <= MaxLoops
    /\ saved # NoState => saved.results <= MaxLoops

\* A run that is past its stream answers with what the respond node made: the
\* '(no response)' the runner falls back on is never what is stored, and no
\* run that ends in an error gets as far as a message.
AnswersAreResponses ==
    \A r \in Slots :
        pc[r] \in {"message", "complete", "announce"} =>
            cur[r].response # "null" /\ ~cur[r].error

\* Nothing is left that was let in while the execution was not yet terminal:
\* no run past its first read, no abandoned engine, no cancel request.
Settled ==
    /\ status \in Terminal
    /\ \A r \in Slots : pc[r] \in {"free", "load"}
    /\ cpc = "idle"

\* A settled execution stays as it is, for good: no retry, no stalled job, no
\* resume after a late decision or expiry brings it back, answers it once more
\* or runs one of its tools, and no cancel request changes its outcome.
SettledIsFinal ==
    [][Settled => /\ Settled'
                  /\ UNCHANGED <<status, answers, saved, invoked>>]_vars

\* As long as calls do not fail and crashes are within what BullMQ forgives, an
\* execution that says it is created or running has a job that is queued or
\* active: every way out of a run leaves another status behind.
NoStrandedRun ==
    /\ spent.faults = 0 /\ spent.crashes <= MaxStalls
    /\ status \in {"CREATED", "RUNNING"}
    => \E j \in Jobs : jobs[j].state \in {"wait", "active"}

\* The checkpointed progress never goes back while runs of the execution follow
\* each other: a retry, a resume or a restart continues from what was saved,
\* and saves no less.  Two resumes, or a resume beside a retry, may run side by
\* side; such a run starts from a checkpoint the other one leaves behind, so
\* from its start until a run begins alone again nothing is promised.
ProgressKept ==
    [][~spent.overlap /\ saved # NoState =>
          /\ saved'.results >= saved.results
          /\ saved'.observed >= saved.observed
          /\ saved'.loop >= saved.loop]_saved

\* Every tool result has become an observation when the model reasons again.
ResultsObserved ==
    \A r \in Slots : node[r] = "reason" => est[r].observed = est[r].results

\* Approving runs the tool: an act node that looks for the decision on a tool
\* somebody approved, and that has not run, does not ask for it once more.
ApprovalIsHonoured ==
    [][\A r \in Slots :
          node[r] = "act" /\ node'[r] = "act_create" =>
              est[r].pending \notin granted \ invoked]_node

\* Whoever writes CANCELLED, the cancel route or the worker, the execution does
\* not end up in another terminal state after it.
CancelledIsFinal ==
    [][status = "CANCELLED" => status' \notin Terminal \ {"CANCELLED"}]_status

\* The work comes to an end: the reason/act loop, the retries, the stalled jobs
\* and the resumes are finite and nothing a run waits for is left undone, so
\* the execution is in the end terminal, or it waits for a person and no job
\* of it is left.
WorkEnds ==
    <>[](/\ status \in Terminal \cup {"WAITING_FOR_APPROVAL"}
         /\ \A j \in Jobs : jobs[j].state \in {"absent", "finished"})
=============================================================================
