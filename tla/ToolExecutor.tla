---------------------------- MODULE ToolExecutor ----------------------------
(***************************************************************************)
(* ToolExecutorService.invoke: the tool calls of one execution.  Callers    *)
(* are the processes that execute it: workers whose jobs retry or overlap,  *)
(* and the API server with its /step route.  A call looks for a success it  *)
(* may reuse, records a ToolCall row, runs the tool against a timer, and    *)
(* records how it ended; a tool that loses against its timer goes on.       *)
(* An unknown tool and an invalid input are refused before anything is      *)
(* read or written, and are left out.                                       *)
(***************************************************************************)
EXTENDS Naturals, Sequences, FiniteSets

CONSTANTS Callers, Tools, Inputs,
          MaxCalls, MaxFailures   \* bounds

ASSUME ExecutorAssumption ==
    MaxCalls \in Nat /\ MaxFailures \in Nat /\ Tools # {} /\ Inputs # {}

VARIABLES
    calls,    \* the ToolCall rows in the order of their creation
    work,     \* per row: what became of the promise of tool.execute
    pc,       \* per caller: the await it is at
    req,      \* the tool and the input it was called with
    row,      \* the ToolCall it created
    late,     \* whether the error it caught says that it timed out
    reply,    \* what the caller was told last
    settled,  \* hashes whose success the call that made it was told of
    barred,   \* settled, when the caller's invocation began
    failures

callVars == <<calls, work>>
vars == <<callVars, pc, req, row, late, reply, settled, barred, failures>>

Request  == [tool : Tools, input : Inputs]
Status   == {"PENDING", "RUNNING", "SUCCESS", "ERROR", "CANCELLED"}
\* by is not stored: it is the process that runs the tool.
ToolCall == [tool : Tools, input : Inputs, status : Status, by : Callers]
Reply    == [status : {"none", "threw", "SUCCESS", "ERROR", "CANCELLED"},
             row : Nat, of : {"nothing", "own", "reused"}]
None     == [status |-> "none", row |-> 0, of |-> "nothing"]
Threw    == [None EXCEPT !.status = "threw"]

Init ==
    /\ calls = <<>> /\ work = <<>>
    /\ pc = [c \in Callers |-> "idle"]
    /\ req = [c \in Callers |-> CHOOSE r \in Request : TRUE]
    /\ row = [c \in Callers |-> 0] /\ late = [c \in Callers |-> FALSE]
    /\ reply = [c \in Callers |-> None]
    /\ settled = {} /\ barred = [c \in Callers |-> {}]
    /\ failures = 0

---------------------------------------------------------------------------
(* invoke *)

Go(c, p) == pc' = [pc EXCEPT ![c] = p]

\* The locals of the invocation are gone.
Leave(c) == /\ Go(c, "idle")
            /\ row' = [row EXCEPT ![c] = 0] /\ late' = [late EXCEPT ![c] = FALSE]

Busy == {c \in Callers : pc[c] # "idle"}

Invoke(c, r) ==
    /\ pc[c] = "idle" /\ Len(calls) + Cardinality(Busy) < MaxCalls
    /\ Go(c, "lookup")
    /\ req' = [req EXCEPT ![c] = r]
    /\ reply' = [reply EXCEPT ![c] = None]
    /\ barred' = [barred EXCEPT ![c] = settled]
    /\ UNCHANGED <<callVars, row, late, settled, failures>>

\* The replacer array keeps the keys toolName and input at every level, and no
\* tool has an input field of that name: the input is hashed as an empty object.
HashToolInput(r) == r.tool

MutantAnyStatus(s) == s # "ERROR"
MutantHashLost(s)  == FALSE
IsReusable(s)      == s = "SUCCESS"

Reusable(c) ==
    {n \in DOMAIN calls : /\ IsReusable(calls[n].status)
                          /\ HashToolInput(calls[n]) = HashToolInput(req[c])}

\* findFirst without an order.
Lookup(c) ==
    /\ pc[c] = "lookup"
    /\ \/ \E n \in Reusable(c) :
             /\ Leave(c)
             /\ reply' = [reply EXCEPT ![c] =
                            [status |-> "SUCCESS", row |-> n, of |-> "reused"]]
       \/ Reusable(c) = {} /\ Go(c, "create") /\ UNCHANGED <<reply, row, late>>
    /\ UNCHANGED <<callVars, req, settled, barred, failures>>

Create(c) ==
    /\ pc[c] = "create"
    /\ Go(c, "calling")
    /\ calls' = Append(calls, [tool |-> req[c].tool, input |-> req[c].input,
                               status |-> "PENDING", by |-> c])
    /\ work' = Append(work, "none")
    /\ row' = [row EXCEPT ![c] = Len(calls) + 1]
    /\ UNCHANGED <<req, late, reply, settled, barred, failures>>

Mark(c, s) == calls' = [calls EXCEPT ![row[c]].status = s]

CallingTool(c) ==
    /\ pc[c] = "calling"
    /\ Go(c, "mark")
    /\ UNCHANGED <<callVars, req, row, late, reply, settled, barred, failures>>

MarkRunning(c) ==
    /\ pc[c] = "mark"
    /\ Go(c, "executing")
    /\ Mark(c, "RUNNING")
    /\ UNCHANGED <<work, req, row, late, reply, settled, barred, failures>>

\* Once its event is stored the tool is called and its timer set.
ExecutingTool(c) ==
    /\ pc[c] = "executing"
    /\ Go(c, "race")
    /\ work' = [work EXCEPT ![row[c]] = "running"]
    /\ UNCHANGED <<calls, req, row, late, reply, settled, barred, failures>>

---------------------------------------------------------------------------
(* The race, and what follows it *)

ToolDone(c) ==
    /\ pc[c] = "race" /\ work[row[c]] = "done"
    /\ Go(c, "success")
    /\ UNCHANGED <<callVars, req, row, late, reply, settled, barred, failures>>

\* A timeout is recognised by the text of the error, which a tool may also use.
Caught(c) == Go(c, "caught") /\ \E b \in BOOLEAN : late' = [late EXCEPT ![c] = b]

ToolFailed(c) ==
    /\ pc[c] = "race" /\ work[row[c]] = "failed"
    /\ Caught(c)
    /\ UNCHANGED <<callVars, req, row, reply, settled, barred, failures>>

MutantNoTimer(c) == FALSE
TimerFires(c)    == pc[c] = "race" /\ work[row[c]] = "running"

Timeout(c) ==
    /\ TimerFires(c)
    /\ Go(c, "caught")
    /\ late' = [late EXCEPT ![c] = TRUE]
    /\ UNCHANGED <<callVars, req, row, reply, settled, barred, failures>>

MarkSuccess(c) ==
    /\ pc[c] = "success"
    /\ Go(c, "result")
    /\ Mark(c, "SUCCESS")
    /\ UNCHANGED <<work, req, row, late, reply, settled, barred, failures>>

Tell(c, s) ==
    reply' = [reply EXCEPT ![c] = [status |-> s, row |-> row[c], of |-> "own"]]

\* The TOOL_RESULT event is stored and the result returned.
ReturnSuccess(c) ==
    /\ pc[c] = "result"
    /\ Leave(c)
    /\ Tell(c, "SUCCESS")
    /\ settled' = settled \cup {HashToolInput(req[c])}
    /\ UNCHANGED <<callVars, req, barred, failures>>

EndStatus(c)    == IF late[c] THEN "CANCELLED" ELSE "ERROR"
MutantError(c)  == "ERROR"
MutantCode(c)   == IF late[c] THEN "TIMEOUT" ELSE "ERROR"
MarkedStatus(c) == EndStatus(c)

MarkEnded(c) ==
    /\ pc[c] = "caught"
    /\ Go(c, "report")
    /\ Mark(c, MarkedStatus(c))
    /\ UNCHANGED <<work, req, row, late, reply, settled, barred, failures>>

ReturnEnded(c) ==
    /\ pc[c] = "report"
    /\ Leave(c)
    /\ Tell(c, EndStatus(c))
    /\ UNCHANGED <<callVars, req, settled, barred, failures>>

---------------------------------------------------------------------------
(* The tool, whoever still waits for it *)

ToolEnds(n) ==
    /\ work[n] = "running"
    /\ \E w \in {"done", "failed"} : work' = [work EXCEPT ![n] = w]
    /\ UNCHANGED <<calls, pc, req, row, late, reply, settled, barred, failures>>

---------------------------------------------------------------------------
(* Failures *)

Failure == failures < MaxFailures /\ failures' = failures + 1

\* A statement or an append rejects: before the try, or in the catch, invoke
\* throws; after the tool's success it is caught as if the tool had failed.
Fault(c) ==
    /\ Failure
    /\ \/ /\ pc[c] \in {"lookup", "create", "calling", "mark", "executing",
                        "caught", "report"}
          /\ Leave(c)
          /\ reply' = [reply EXCEPT ![c] = Threw]
       \/ pc[c] \in {"success", "result"} /\ Caught(c) /\ UNCHANGED <<reply, row>>
    /\ UNCHANGED <<callVars, req, settled, barred>>

Orphans(c) == {n \in DOMAIN work : work[n] = "running" /\ calls[n].by = c}

\* A caller's process dies, and with it the tools it waits for or has given up.
Crash(c) ==
    /\ Failure
    /\ Leave(c)
    /\ reply' = IF pc[c] = "idle" THEN reply ELSE [reply EXCEPT ![c] = Threw]
    /\ work' = [n \in DOMAIN work |-> IF n \in Orphans(c) THEN "lost" ELSE work[n]]
    /\ UNCHANGED <<calls, req, settled, barred>>

---------------------------------------------------------------------------
Step(c) ==
    \/ Lookup(c) \/ Create(c) \/ CallingTool(c) \/ MarkRunning(c)
    \/ ExecutingTool(c) \/ ToolDone(c) \/ ToolFailed(c) \/ Timeout(c)
    \/ MarkSuccess(c) \/ ReturnSuccess(c) \/ MarkEnded(c) \/ ReturnEnded(c)

Next ==
    \/ \E c \in Callers : \/ Step(c) \/ Fault(c) \/ Crash(c)
                          \/ \E r \in Request : Invoke(c, r)
    \/ \E n \in DOMAIN work : ToolEnds(n)

Spec == Init /\ [][Next]_vars

\* A process goes on with what it awaits, and timers fire.  A tool owes nothing.
FairSpec == Spec /\ \A c \in Callers : WF_vars(Step(c))

---------------------------------------------------------------------------
(* Properties *)

Places == {"idle", "lookup", "create", "calling", "mark", "executing", "race",
           "success", "result", "caught", "report"}

TypeOK ==
    /\ calls \in Seq(ToolCall)
    /\ work \in Seq({"none", "running", "done", "failed", "lost"})
    /\ Len(work) = Len(calls)
    /\ pc \in [Callers -> Places] /\ req \in [Callers -> Request]
    /\ row \in [Callers -> Nat] /\ late \in [Callers -> BOOLEAN]
    /\ reply \in [Callers -> Reply]
    /\ settled \subseteq Tools /\ barred \in [Callers -> SUBSET Tools]
    /\ failures \in Nat

\* Whoever is told SUCCESS, by its own call or by one it reuses, is told of a
\* tool that ran to its end: no row a crash, a timeout or another caller left
\* behind passes for a result.
SuccessIsReal ==
    \A c \in Callers : reply[c].status = "SUCCESS" =>
        LET n == reply[c].row IN
        n \in DOMAIN calls /\ work[n] = "done" /\ calls[n].tool = req[c].tool

\* What a call was told of itself is what its row says, and goes on saying when
\* the tool it gave up ends after all, or others retry and crash.
RepliesAreRecorded ==
    \A c \in Callers : reply[c].of = "own" =>
        LET n == reply[c].row IN
        n \in DOMAIN calls /\ calls[n].status = reply[c].status

Acting == {"create", "calling", "mark", "executing", "race", "success",
           "result", "caught", "report"}

\* A call that begins after one with the same hash was told of its success
\* never runs the tool again, whatever failed or raced in between.
SettledIsReused ==
    \A c \in Callers : pc[c] \in Acting => HashToolInput(req[c]) \notin barred[c]

\* A tool that never answers does not hold its caller.
InvocationsEnd == \A c \in Callers : pc[c] # "idle" ~> pc[c] = "idle"

\* A reused output was made from the input the call was given.
OutputsOfTheirInput ==
    \A c \in Callers : reply[c].status = "SUCCESS" =>
        calls[reply[c].row].input = req[c].input
=============================================================================
