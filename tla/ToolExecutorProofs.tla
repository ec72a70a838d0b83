------------------------- MODULE ToolExecutorProofs -------------------------
(***************************************************************************)
(* Proofs about ToolExecutor: a success is real, what a call was told is     *)
(* recorded, and what was told is reused, for any callers, tools and faults. *)
(***************************************************************************)
EXTENDS ToolExecutor, SequenceTheorems, TLAPS

\* Only c's entry of a function differs from f to g.
Alone(c, f, g) == \A d \in Callers \ {c} : g[d] = f[d]

Holding == {"calling", "mark", "executing", "race", "success", "result",
            "caught", "report"}

\* A call under way holds a row of its own; no other call has one.
Held ==
    \A c \in Callers :
        /\ pc[c] \in Holding =>
              /\ row[c] \in DOMAIN calls
              /\ calls[row[c]].by = c /\ calls[row[c]].tool = req[c].tool
        /\ pc[c] \notin Holding => row[c] = 0

\* Where a call is says what its row and its tool are.
Stages ==
    \A c \in Callers :
        /\ pc[c] \in {"calling", "mark", "executing"} =>
              work[row[c]] = "none"
        /\ pc[c] \in {"success", "result"} => work[row[c]] = "done"
        /\ pc[c] = "result" => calls[row[c]].status = "SUCCESS"
        /\ pc[c] = "report" => calls[row[c]].status = EndStatus(c)

DoneBehind == \A n \in DOMAIN calls : calls[n].status = "SUCCESS" => work[n] = "done"

\* Whoever was told of its own call is idle, and the row is out of reach.
ToldIdle ==
    \A c \in Callers : reply[c].of = "own" =>
        /\ pc[c] = "idle"
        /\ reply[c].row \in DOMAIN calls /\ calls[reply[c].row].by = c

\* A settled hash has a success that no call under way holds.
SettledHeld ==
    /\ \A h \in settled : \E n \in DOMAIN calls :
          /\ calls[n].status = "SUCCESS" /\ calls[n].tool = h
          /\ \A c \in Callers : row[c] # n
    /\ \A c \in Callers : barred[c] \subseteq settled

ExecInv == /\ TypeOK /\ Held /\ Stages /\ DoneBehind /\ ToldIdle /\ SettledHeld
           /\ SuccessIsReal /\ RepliesAreRecorded /\ SettledIsReused

---------------------------------------------------------------------------
(* Records and rows.                                                        *)

\* The two replies that tell of no call.
LEMMA NoReplies ==
    /\ None \in Reply /\ None.of = "nothing" /\ None.status = "none" /\ None.row = 0
    /\ Threw \in Reply /\ Threw.of = "nothing" /\ Threw.status = "threw" /\ Threw.row = 0
BY DEF None, Threw, Reply

\* Marking a row changes its status and nothing else of any row.
LEMMA Marked ==
    ASSUME TypeOK, Held, NEW c \in Callers, pc[c] \in Holding,
           NEW s \in Status, Mark(c, s)
    PROVE  /\ calls' \in Seq(ToolCall) /\ DOMAIN calls' = DOMAIN calls
           /\ calls'[row[c]].status = s
           /\ \A n \in DOMAIN calls :
                 /\ calls'[n].tool = calls[n].tool /\ calls'[n].by = calls[n].by
                 /\ n # row[c] => calls'[n].status = calls[n].status
<1>1. /\ row[c] \in 1..Len(calls) /\ calls \in Seq(ToolCall)
      /\ calls[row[c]] \in ToolCall
  BY DEF TypeOK, Held
<1>2. [calls[row[c]] EXCEPT !.status = s] \in ToolCall
  BY <1>1 DEF ToolCall
<1>3. calls' = [calls EXCEPT ![row[c]] = [calls[row[c]] EXCEPT !.status = s]]
  BY DEF Mark
<1>4. \A n \in 1..Len(calls) : calls'[n] =
         IF n = row[c] THEN [calls[row[c]] EXCEPT !.status = s] ELSE calls[n]
  BY <1>1, <1>3
<1>5. calls' \in Seq(ToolCall) /\ DOMAIN calls' = DOMAIN calls
  BY <1>1, <1>2, <1>3
<1>6. \A n \in 1..Len(calls) :
         /\ calls'[n].tool = calls[n].tool /\ calls'[n].by = calls[n].by
         /\ n # row[c] => calls'[n].status = calls[n].status
  BY <1>1, <1>4 DEF ToolCall
<1>7. calls'[row[c]].status = s
  BY <1>1, <1>4 DEF ToolCall
<1> QED
  BY <1>1, <1>5, <1>6, <1>7

\* Being told of its own call changes a caller's reply and no other's.
LEMMA Told ==
    ASSUME TypeOK, NEW c \in Callers, NEW s \in {"SUCCESS", "ERROR", "CANCELLED"},
           Tell(c, s)
    PROVE  /\ reply' \in [Callers -> Reply]
           /\ reply'[c].status = s /\ reply'[c].row = row[c] /\ reply'[c].of = "own"
           /\ Alone(c, reply, reply')
<1> DEFINE r == [status |-> s, row |-> row[c], of |-> "own"]
<1>1. r \in Reply /\ r.status = s /\ r.row = row[c] /\ r.of = "own"
  BY DEF Reply, TypeOK
<1>2. reply' = [reply EXCEPT ![c] = r]
  BY DEF Tell
<1> HIDE DEF r
<1> QED
  BY <1>1, <1>2 DEF TypeOK, Alone

---------------------------------------------------------------------------
(* The invariant holds at first, and every action keeps it.                 *)

\* Nothing was called, told or settled.
LEMMA ExecInit == Init => ExecInv
<1> SUFFICES ASSUME Init PROVE ExecInv
  OBVIOUS
<1> USE NoReplies DEF Init
<1>1. TypeOK
  <2>1. calls \in Seq(ToolCall) /\ DOMAIN calls = {} /\ DOMAIN work = {}
    OBVIOUS
  <2>2. reply \in [Callers -> Reply] /\ barred \in [Callers -> SUBSET Tools]
    OBVIOUS
  <2>3. pc \in [Callers -> Places] /\ row \in [Callers -> Nat]
    BY DEF Places
  <2>4. req \in [Callers -> Request]
    <3>1. PICK t \in Tools, i \in Inputs : TRUE
      BY ExecutorAssumption
    <3>2. [tool |-> t, input |-> i] \in Request
      BY DEF Request
    <3> QED
      BY <3>2
  <2> QED
    BY <2>1, <2>2, <2>3, <2>4 DEF TypeOK
<1>2. Held /\ Stages /\ DoneBehind
  BY DEF Held, Stages, DoneBehind, Holding
<1>3. ToldIdle /\ SettledHeld
  BY DEF ToldIdle, SettledHeld
<1>4. SuccessIsReal /\ RepliesAreRecorded /\ SettledIsReused
  BY DEF SuccessIsReal, RepliesAreRecorded, SettledIsReused, Acting
<1> QED
  BY <1>1, <1>2, <1>3, <1>4 DEF ExecInv


\* A new call holds no row, and knows what was settled when it began.
LEMMA InvokeKeeps ==
    ASSUME ExecInv, NEW c \in Callers, NEW r \in Request, Invoke(c, r)
    PROVE  ExecInv'
<1>1. TypeOK'
  BY NoReplies DEF Invoke, ExecInv, TypeOK, Places, callVars, Go, Leave
<1>2. /\ pc[c] = "idle"
      /\ pc'[c] = "lookup"
      /\ Alone(c, pc, pc')
      /\ req'[c] = r /\ Alone(c, req, req')
      /\ reply'[c].of # "own" /\ reply'[c].status # "SUCCESS"
      /\ Alone(c, reply, reply')
      /\ barred'[c] = settled /\ Alone(c, barred, barred')
      /\ UNCHANGED <<calls, work, row, late, settled>>
  BY NoReplies DEF Invoke, ExecInv, TypeOK, Alone, Holding, callVars, Go, Leave
<1>3. Held'
  BY <1>2 DEF ExecInv, TypeOK, Held, Holding, Alone
<1>4. Stages'
  BY <1>2 DEF ExecInv, Stages, Alone, EndStatus
<1>5. DoneBehind'
  BY <1>2 DEF ExecInv, DoneBehind
<1>6. ToldIdle'
  BY <1>2 DEF ExecInv, ToldIdle, Alone
<1>7. SettledHeld'
  BY <1>2 DEF ExecInv, SettledHeld, Alone
<1>8. SuccessIsReal'
  BY <1>2 DEF ExecInv, SuccessIsReal, Alone
<1>9. RepliesAreRecorded'
  BY <1>2 DEF ExecInv, RepliesAreRecorded, Alone
<1>10. SettledIsReused'
  BY <1>2 DEF ExecInv, SettledIsReused, Acting, Alone
<1> QED
  BY <1>1, <1>3, <1>4, <1>5, <1>6, <1>7, <1>8, <1>9, <1>10 DEF ExecInv

\* A call that reuses answers with a success; one that goes on found none.
LEMMA LookupKeeps ==
    ASSUME ExecInv, NEW c \in Callers, Lookup(c)
    PROVE  ExecInv'
<1>1. TypeOK'
  <2>1. reply' \in [Callers -> Reply]
    <3>1. \A n \in DOMAIN calls :
             [status |-> "SUCCESS", row |-> n, of |-> "reused"] \in Reply
      BY DEF ExecInv, TypeOK, Reply
    <3> QED
      BY <3>1 DEF Lookup, Reusable, ExecInv, TypeOK
  <2>2. /\ pc' \in [Callers -> Places] /\ row' \in [Callers -> Nat]
        /\ late' \in [Callers -> BOOLEAN]
    <3>1. Leave(c) \/ (Go(c, "create") /\ UNCHANGED <<row, late>>)
      BY DEF Lookup
    <3>2. CASE Leave(c)
      BY <3>2 DEF Leave, Go, ExecInv, TypeOK, Places
    <3>3. CASE Go(c, "create") /\ UNCHANGED <<row, late>>
      BY <3>3 DEF Go, ExecInv, TypeOK, Places
    <3> QED
      BY <3>1, <3>2, <3>3
  <2> QED
    BY <2>1, <2>2 DEF Lookup, callVars, ExecInv, TypeOK
<1>2. /\ pc[c] = "lookup"
      /\ Alone(c, pc, pc')
      /\ row'[c] = 0 /\ Alone(c, row, row')
      /\ Alone(c, late, late') /\ Alone(c, reply, reply')
      /\ \/ /\ pc'[c] = "idle" /\ reply'[c].of # "own"
            /\ reply'[c].row \in DOMAIN calls
            /\ calls[reply'[c].row].status = "SUCCESS"
            /\ calls[reply'[c].row].tool = req[c].tool
         \/ /\ pc'[c] = "create" /\ reply'[c] = reply[c]
            /\ \A n \in DOMAIN calls :
               calls[n].status = "SUCCESS" => calls[n].tool # req[c].tool
      /\ UNCHANGED <<calls, work, req, settled, barred>>
  <2>1. CASE \E n \in Reusable(c) :
                /\ Leave(c)
                /\ reply' = [reply EXCEPT ![c] =
                      [status |-> "SUCCESS", row |-> n, of |-> "reused"]]
    BY <2>1 DEF Lookup, Leave, Go, Alone, callVars, Reusable, IsReusable,
                HashToolInput, ExecInv, TypeOK
  <2>2. CASE /\ Reusable(c) = {} /\ Go(c, "create")
             /\ UNCHANGED <<reply, row, late>>
    BY <2>2 DEF Lookup, Go, Alone, callVars, Reusable, IsReusable,
                HashToolInput, Held, Holding, ExecInv, TypeOK
  <2> QED
    BY <2>1, <2>2 DEF Lookup
<1>3. Held'
  BY <1>2 DEF ExecInv, TypeOK, Held, Holding, Alone
<1>4. Stages'
  BY <1>2 DEF ExecInv, Stages, Alone, EndStatus
<1>5. DoneBehind'
  BY <1>2 DEF ExecInv, DoneBehind
<1>6. ToldIdle'
  BY <1>2 DEF ExecInv, ToldIdle, Alone
<1>7. SettledHeld'
  BY <1>2 DEF ExecInv, Held, Holding, SettledHeld, Alone
<1>8. SuccessIsReal'
  BY <1>2 DEF ExecInv, DoneBehind, SuccessIsReal, Alone
<1>9. RepliesAreRecorded'
  BY <1>2 DEF ExecInv, RepliesAreRecorded, Alone
<1>10. SettledIsReused'
  BY <1>2 DEF ExecInv, SettledHeld, SettledIsReused, Acting, Alone,
              HashToolInput
<1> QED
  BY <1>1, <1>3, <1>4, <1>5, <1>6, <1>7, <1>8, <1>9, <1>10 DEF ExecInv

\* The new row is nobody else's, and its tool has not been called.
LEMMA CreateKeeps ==
    ASSUME ExecInv, NEW c \in Callers, Create(c)
    PROVE  ExecInv'
<1>1. TypeOK'
  <2>1. [tool |-> req[c].tool, input |-> req[c].input, status |-> "PENDING",
         by |-> c] \in ToolCall
    BY DEF ExecInv, TypeOK, Request, ToolCall, Status
  <2>2. calls' \in Seq(ToolCall) /\ Len(calls') = Len(calls) + 1
    BY <2>1 DEF Create, ExecInv, TypeOK
  <2>3. /\ work' \in Seq({"none", "running", "done", "failed", "lost"})
        /\ Len(work') = Len(work) + 1
    BY DEF Create, ExecInv, TypeOK
  <2>4. pc' \in [Callers -> Places] /\ row' \in [Callers -> Nat]
    BY DEF Create, Go, ExecInv, TypeOK, Places
  <2> QED
    BY <2>2, <2>3, <2>4 DEF Create, ExecInv, TypeOK
<1>2. /\ pc[c] = "create"
      /\ pc'[c] = "calling"
      /\ Alone(c, pc, pc')
      /\ row'[c] = Len(calls) + 1 /\ Alone(c, row, row')
      /\ DOMAIN calls' = DOMAIN calls \cup {Len(calls) + 1}
      /\ Len(calls) + 1 \notin DOMAIN calls
      /\ \A n \in DOMAIN calls : calls'[n] = calls[n] /\ work'[n] = work[n]
      /\ calls'[Len(calls) + 1].tool = req[c].tool
      /\ calls'[Len(calls) + 1].by = c
      /\ work'[Len(calls) + 1] = "none"
      /\ calls'[Len(calls) + 1].status = "PENDING"
      /\ UNCHANGED <<req, late, reply, settled, barred>>
  BY DEF Create, ExecInv, TypeOK, Alone, Holding, callVars, Go, Leave
<1>3. Held'
  BY <1>2 DEF ExecInv, TypeOK, Held, Holding, Alone
<1>4. Stages'
  BY <1>2 DEF ExecInv, Held, Stages, Holding, Alone, EndStatus
<1>5. DoneBehind'
  BY <1>2 DEF ExecInv, DoneBehind
<1>6. ToldIdle'
  BY <1>2 DEF ExecInv, ToldIdle, Alone
<1>7. SettledHeld'
  BY <1>2 DEF ExecInv, SettledHeld, Alone
<1>8. SuccessIsReal'
  BY <1>2 DEF ExecInv, SuccessIsReal, Alone
<1>9. RepliesAreRecorded'
  BY <1>2 DEF ExecInv, RepliesAreRecorded, Alone
<1>10. SettledIsReused'
  BY <1>2 DEF ExecInv, SettledIsReused, Acting, Alone
<1> QED
  BY <1>1, <1>3, <1>4, <1>5, <1>6, <1>7, <1>8, <1>9, <1>10 DEF ExecInv

\* An event of the timeline changes nothing here.
LEMMA CallingToolKeeps ==
    ASSUME ExecInv, NEW c \in Callers, CallingTool(c)
    PROVE  ExecInv'
<1>1. TypeOK'
  BY DEF CallingTool, ExecInv, TypeOK, Places, callVars, Go, Leave
<1>2. /\ pc[c] = "calling"
      /\ pc'[c] = "mark"
      /\ Alone(c, pc, pc')
      /\ UNCHANGED <<calls, work, req, row, late, reply, settled, barred>>
  BY DEF CallingTool, ExecInv, TypeOK, Alone, Holding, callVars, Go, Leave
<1>3. Held'
  BY <1>2 DEF ExecInv, TypeOK, Held, Holding, Alone
<1>4. Stages'
  BY <1>2 DEF ExecInv, Stages, Alone, EndStatus
<1>5. DoneBehind'
  BY <1>2 DEF ExecInv, DoneBehind
<1>6. ToldIdle'
  BY <1>2 DEF ExecInv, ToldIdle, Alone
<1>7. SettledHeld'
  BY <1>2 DEF ExecInv, SettledHeld
<1>8. SuccessIsReal'
  BY <1>2 DEF ExecInv, SuccessIsReal, Alone
<1>9. RepliesAreRecorded'
  BY <1>2 DEF ExecInv, RepliesAreRecorded, Alone
<1>10. SettledIsReused'
  BY <1>2 DEF ExecInv, SettledIsReused, Acting, Alone
<1> QED
  BY <1>1, <1>3, <1>4, <1>5, <1>6, <1>7, <1>8, <1>9, <1>10 DEF ExecInv

\* Only the caller's own row changes.
LEMMA MarkRunningKeeps ==
    ASSUME ExecInv, NEW c \in Callers, MarkRunning(c)
    PROVE  ExecInv'
<1>1. TypeOK'
  BY Marked DEF MarkRunning, ExecInv, TypeOK, Places, callVars, Go, Leave,
                Holding, Status
<1>2. /\ pc[c] = "mark"
      /\ pc'[c] = "executing"
      /\ Alone(c, pc, pc')
      /\ DOMAIN calls' = DOMAIN calls
      /\ calls'[row[c]].status = "RUNNING"
      /\ \A n \in DOMAIN calls :
            /\ calls'[n].tool = calls[n].tool /\ calls'[n].by = calls[n].by
            /\ n # row[c] => calls'[n].status = calls[n].status
      /\ UNCHANGED <<work, req, row, late, reply, settled, barred>>
  BY Marked DEF MarkRunning, ExecInv, TypeOK, Alone, Holding, callVars, Go,
                Leave, Status
<1>3. Held'
  BY <1>2 DEF ExecInv, TypeOK, Held, Holding, Alone
<1>4. Stages'
  BY <1>2 DEF ExecInv, Held, Stages, Holding, Alone, EndStatus
<1>5. DoneBehind'
  BY <1>2 DEF ExecInv, DoneBehind
<1>6. ToldIdle'
  BY <1>2 DEF ExecInv, ToldIdle, Alone
<1>7. SettledHeld'
  BY <1>2 DEF ExecInv, SettledHeld
<1>8. SuccessIsReal'
  BY <1>2 DEF ExecInv, SuccessIsReal, Alone
<1>9. RepliesAreRecorded'
  BY <1>2 DEF ExecInv, Held, Holding, ToldIdle, RepliesAreRecorded, Alone
<1>10. SettledIsReused'
  BY <1>2 DEF ExecInv, SettledIsReused, Acting, Alone
<1> QED
  BY <1>1, <1>3, <1>4, <1>5, <1>6, <1>7, <1>8, <1>9, <1>10 DEF ExecInv

\* The tool starts; no row relies on its end yet.
LEMMA ExecutingToolKeeps ==
    ASSUME ExecInv, NEW c \in Callers, ExecutingTool(c)
    PROVE  ExecInv'
<1>1. TypeOK'
  <2>1. row[c] \in 1..Len(work)
    BY DEF ExecutingTool, ExecInv, TypeOK, Held, Holding
  <2>2. /\ work' \in Seq({"none", "running", "done", "failed", "lost"})
        /\ Len(work') = Len(work)
    BY <2>1 DEF ExecutingTool, ExecInv, TypeOK
  <2>3. pc' \in [Callers -> Places]
    BY DEF ExecutingTool, Go, ExecInv, TypeOK, Places
  <2> QED
    BY <2>2, <2>3 DEF ExecutingTool, ExecInv, TypeOK
<1>2. /\ pc[c] = "executing"
      /\ pc'[c] = "race"
      /\ Alone(c, pc, pc')
      /\ \A n \in DOMAIN calls : n # row[c] => work'[n] = work[n]
      /\ UNCHANGED <<calls, req, row, late, reply, settled, barred>>
  BY DEF ExecutingTool, ExecInv, TypeOK, Alone, Holding, callVars, Go, Leave
<1>3. Held'
  BY <1>2 DEF ExecInv, TypeOK, Held, Holding, Alone
<1>4. Stages'
  BY <1>2 DEF ExecInv, Held, Stages, Holding, Alone, EndStatus
<1>5. DoneBehind'
  BY <1>2 DEF ExecInv, Held, Stages, Holding, DoneBehind
<1>6. ToldIdle'
  BY <1>2 DEF ExecInv, ToldIdle, Alone
<1>7. SettledHeld'
  BY <1>2 DEF ExecInv, SettledHeld
<1>8. SuccessIsReal'
  BY <1>2 DEF ExecInv, Held, Stages, Holding, SuccessIsReal, Alone
<1>9. RepliesAreRecorded'
  BY <1>2 DEF ExecInv, RepliesAreRecorded, Alone
<1>10. SettledIsReused'
  BY <1>2 DEF ExecInv, SettledIsReused, Acting, Alone
<1> QED
  BY <1>1, <1>3, <1>4, <1>5, <1>6, <1>7, <1>8, <1>9, <1>10 DEF ExecInv

\* The answer won the race: the tool has ended.
LEMMA ToolDoneKeeps ==
    ASSUME ExecInv, NEW c \in Callers, ToolDone(c)
    PROVE  ExecInv'
<1>1. TypeOK'
  BY DEF ToolDone, ExecInv, TypeOK, Places, callVars, Go, Leave
<1>2. /\ pc[c] = "race"
      /\ pc'[c] = "success"
      /\ Alone(c, pc, pc')
      /\ work[row[c]] = "done"
      /\ UNCHANGED <<calls, work, req, row, late, reply, settled, barred>>
  BY DEF ToolDone, ExecInv, TypeOK, Alone, Holding, callVars, Go, Leave
<1>3. Held'
  BY <1>2 DEF ExecInv, TypeOK, Held, Holding, Alone
<1>4. Stages'
  BY <1>2 DEF ExecInv, Stages, Alone, EndStatus
<1>5. DoneBehind'
  BY <1>2 DEF ExecInv, DoneBehind
<1>6. ToldIdle'
  BY <1>2 DEF ExecInv, ToldIdle, Alone
<1>7. SettledHeld'
  BY <1>2 DEF ExecInv, SettledHeld
<1>8. SuccessIsReal'
  BY <1>2 DEF ExecInv, SuccessIsReal, Alone
<1>9. RepliesAreRecorded'
  BY <1>2 DEF ExecInv, RepliesAreRecorded, Alone
<1>10. SettledIsReused'
  BY <1>2 DEF ExecInv, SettledIsReused, Acting, Alone
<1> QED
  BY <1>1, <1>3, <1>4, <1>5, <1>6, <1>7, <1>8, <1>9, <1>10 DEF ExecInv

\* The row is the caller's still.
LEMMA ToolFailedKeeps ==
    ASSUME ExecInv, NEW c \in Callers, ToolFailed(c)
    PROVE  ExecInv'
<1>1. TypeOK'
  BY DEF ToolFailed, ExecInv, TypeOK, Places, callVars, Go, Leave, Caught
<1>2. /\ pc[c] = "race"
      /\ pc'[c] = "caught"
      /\ Alone(c, pc, pc')
      /\ Alone(c, late, late')
      /\ UNCHANGED <<calls, work, req, row, reply, settled, barred>>
  BY DEF ToolFailed, ExecInv, TypeOK, Alone, Holding, callVars, Go, Leave,
         Caught
<1>3. Held'
  BY <1>2 DEF ExecInv, TypeOK, Held, Holding, Alone
<1>4. Stages'
  BY <1>2 DEF ExecInv, Stages, Alone, EndStatus
<1>5. DoneBehind'
  BY <1>2 DEF ExecInv, DoneBehind
<1>6. ToldIdle'
  BY <1>2 DEF ExecInv, ToldIdle, Alone
<1>7. SettledHeld'
  BY <1>2 DEF ExecInv, SettledHeld
<1>8. SuccessIsReal'
  BY <1>2 DEF ExecInv, SuccessIsReal, Alone
<1>9. RepliesAreRecorded'
  BY <1>2 DEF ExecInv, RepliesAreRecorded, Alone
<1>10. SettledIsReused'
  BY <1>2 DEF ExecInv, SettledIsReused, Acting, Alone
<1> QED
  BY <1>1, <1>3, <1>4, <1>5, <1>6, <1>7, <1>8, <1>9, <1>10 DEF ExecInv

\* The row is the caller's still.
LEMMA TimeoutKeeps ==
    ASSUME ExecInv, NEW c \in Callers, Timeout(c)
    PROVE  ExecInv'
<1>1. TypeOK'
  BY DEF Timeout, ExecInv, TypeOK, Places, callVars, Go, Leave, TimerFires
<1>2. /\ pc[c] = "race"
      /\ pc'[c] = "caught"
      /\ Alone(c, pc, pc')
      /\ Alone(c, late, late')
      /\ UNCHANGED <<calls, work, req, row, reply, settled, barred>>
  BY DEF Timeout, ExecInv, TypeOK, Alone, Holding, callVars, Go, Leave,
         TimerFires
<1>3. Held'
  BY <1>2 DEF ExecInv, TypeOK, Held, Holding, Alone
<1>4. Stages'
  BY <1>2 DEF ExecInv, Stages, Alone, EndStatus
<1>5. DoneBehind'
  BY <1>2 DEF ExecInv, DoneBehind
<1>6. ToldIdle'
  BY <1>2 DEF ExecInv, ToldIdle, Alone
<1>7. SettledHeld'
  BY <1>2 DEF ExecInv, SettledHeld
<1>8. SuccessIsReal'
  BY <1>2 DEF ExecInv, SuccessIsReal, Alone
<1>9. RepliesAreRecorded'
  BY <1>2 DEF ExecInv, RepliesAreRecorded, Alone
<1>10. SettledIsReused'
  BY <1>2 DEF ExecInv, SettledIsReused, Acting, Alone
<1> QED
  BY <1>1, <1>3, <1>4, <1>5, <1>6, <1>7, <1>8, <1>9, <1>10 DEF ExecInv

\* The row of a tool that has ended becomes a success.
LEMMA MarkSuccessKeeps ==
    ASSUME ExecInv, NEW c \in Callers, MarkSuccess(c)
    PROVE  ExecInv'
<1>1. TypeOK'
  BY Marked DEF MarkSuccess, ExecInv, TypeOK, Places, callVars, Go, Leave,
                Holding, Status
<1>2. /\ pc[c] = "success"
      /\ pc'[c] = "result"
      /\ Alone(c, pc, pc')
      /\ DOMAIN calls' = DOMAIN calls
      /\ calls'[row[c]].status = "SUCCESS"
      /\ \A n \in DOMAIN calls :
            /\ calls'[n].tool = calls[n].tool /\ calls'[n].by = calls[n].by
            /\ n # row[c] => calls'[n].status = calls[n].status
      /\ UNCHANGED <<work, req, row, late, reply, settled, barred>>
  BY Marked DEF MarkSuccess, ExecInv, TypeOK, Alone, Holding, callVars, Go,
                Leave, Status
<1>3. Held'
  BY <1>2 DEF ExecInv, TypeOK, Held, Holding, Alone
<1>4. Stages'
  BY <1>2 DEF ExecInv, Held, Stages, Holding, Alone, EndStatus
<1>5. DoneBehind'
  BY <1>2 DEF ExecInv, Held, Stages, Holding, DoneBehind
<1>6. ToldIdle'
  BY <1>2 DEF ExecInv, ToldIdle, Alone
<1>7. SettledHeld'
  BY <1>2 DEF ExecInv, SettledHeld
<1>8. SuccessIsReal'
  BY <1>2 DEF ExecInv, SuccessIsReal, Alone
<1>9. RepliesAreRecorded'
  BY <1>2 DEF ExecInv, Held, Holding, ToldIdle, RepliesAreRecorded, Alone
<1>10. SettledIsReused'
  BY <1>2 DEF ExecInv, SettledIsReused, Acting, Alone
<1> QED
  BY <1>1, <1>3, <1>4, <1>5, <1>6, <1>7, <1>8, <1>9, <1>10 DEF ExecInv

\* The hash is settled by a row that its caller lets go as a success.
LEMMA ReturnSuccessKeeps ==
    ASSUME ExecInv, NEW c \in Callers, ReturnSuccess(c)
    PROVE  ExecInv'
<1>1. TypeOK'
  <2>1. settled' \subseteq Tools
    BY DEF ReturnSuccess, HashToolInput, ExecInv, TypeOK, Request
  <2>2. /\ pc' \in [Callers -> Places] /\ row' \in [Callers -> Nat]
        /\ late' \in [Callers -> BOOLEAN]
    BY DEF ReturnSuccess, Go, Leave, ExecInv, TypeOK, Places
  <2>3. reply' \in [Callers -> Reply]
    BY Told DEF ReturnSuccess, ExecInv
  <2> QED
    BY <2>1, <2>2, <2>3 DEF ReturnSuccess, callVars, ExecInv, TypeOK
<1>2. /\ pc[c] = "result"
      /\ pc'[c] = "idle"
      /\ Alone(c, pc, pc')
      /\ row'[c] = 0
      /\ late'[c] = FALSE
      /\ Alone(c, row, row')
      /\ Alone(c, late, late')
      /\ reply'[c].status = "SUCCESS"
      /\ reply'[c].row = row[c] /\ reply'[c].of = "own"
      /\ Alone(c, reply, reply')
      /\ settled' = settled \cup {req[c].tool}
      /\ UNCHANGED <<calls, work, req, barred>>
  BY Told DEF ReturnSuccess, ExecInv, TypeOK, Alone, Holding, callVars, Go,
              Leave, HashToolInput, Held
<1>3. Held'
  BY <1>2 DEF ExecInv, TypeOK, Held, Holding, Alone
<1>4. Stages'
  BY <1>2 DEF ExecInv, Stages, Alone, EndStatus
<1>5. DoneBehind'
  BY <1>2 DEF ExecInv, DoneBehind
<1>6. ToldIdle'
  BY <1>2 DEF ExecInv, Held, Holding, ToldIdle, Alone
<1>7. SettledHeld'
  <2>1. 0 \notin DOMAIN calls
    BY DEF ExecInv, TypeOK
  <2>2. /\ row[c] \in DOMAIN calls
        /\ calls[row[c]].status = "SUCCESS" /\ calls[row[c]].tool = req[c].tool
    BY <1>2 DEF ExecInv, Held, Stages, Holding
  <2>3. \A d \in Callers : row'[d] # row[c]
    <3>1. \A d \in Callers \ {c} : row[d] # row[c]
      BY <1>2, <2>1, <2>2 DEF ExecInv, Held, Holding
    <3> QED
      BY <1>2, <2>1, <2>2, <3>1 DEF Alone
  <2>4. ASSUME NEW h \in settled
        PROVE  \E n \in DOMAIN calls :
                  /\ calls[n].status = "SUCCESS" /\ calls[n].tool = h
                  /\ \A d \in Callers : row'[d] # n
    BY <1>2, <2>1 DEF ExecInv, SettledHeld, Alone
  <2>5. \A d \in Callers : barred'[d] \subseteq settled'
    BY <1>2 DEF ExecInv, SettledHeld
  <2> QED
    BY <1>2, <2>2, <2>3, <2>4, <2>5 DEF SettledHeld
<1>8. SuccessIsReal'
  BY <1>2 DEF ExecInv, Held, Stages, Holding, SuccessIsReal, Alone
<1>9. RepliesAreRecorded'
  BY <1>2 DEF ExecInv, Held, Stages, Holding, RepliesAreRecorded, Alone,
              EndStatus
<1>10. SettledIsReused'
  BY <1>2 DEF ExecInv, SettledIsReused, Acting, Alone
<1> QED
  BY <1>1, <1>3, <1>4, <1>5, <1>6, <1>7, <1>8, <1>9, <1>10 DEF ExecInv

\* No success is overwritten: the row is the caller's, and not settled.
LEMMA MarkEndedKeeps ==
    ASSUME ExecInv, NEW c \in Callers, MarkEnded(c)
    PROVE  ExecInv'
<1>1. TypeOK'
  BY Marked DEF MarkEnded, ExecInv, TypeOK, Places, callVars, Go, Leave,
                MarkedStatus, EndStatus, Holding, Status
<1>2. /\ pc[c] = "caught"
      /\ pc'[c] = "report"
      /\ Alone(c, pc, pc')
      /\ EndStatus(c) # "SUCCESS"
      /\ DOMAIN calls' = DOMAIN calls
      /\ calls'[row[c]].status = EndStatus(c)
      /\ \A n \in DOMAIN calls :
            /\ calls'[n].tool = calls[n].tool /\ calls'[n].by = calls[n].by
            /\ n # row[c] => calls'[n].status = calls[n].status
      /\ UNCHANGED <<work, req, row, late, reply, settled, barred>>
  BY Marked DEF MarkEnded, ExecInv, TypeOK, Alone, Holding, callVars, Go,
                Leave, MarkedStatus, EndStatus, Status
<1>3. Held'
  BY <1>2 DEF ExecInv, TypeOK, Held, Holding, Alone
<1>4. Stages'
  BY <1>2 DEF ExecInv, Held, Stages, Holding, Alone, EndStatus
<1>5. DoneBehind'
  BY <1>2 DEF ExecInv, DoneBehind
<1>6. ToldIdle'
  BY <1>2 DEF ExecInv, ToldIdle, Alone
<1>7. SettledHeld'
  BY <1>2 DEF ExecInv, SettledHeld
<1>8. SuccessIsReal'
  BY <1>2 DEF ExecInv, SuccessIsReal, Alone
<1>9. RepliesAreRecorded'
  BY <1>2 DEF ExecInv, Held, Holding, ToldIdle, RepliesAreRecorded, Alone
<1>10. SettledIsReused'
  BY <1>2 DEF ExecInv, SettledIsReused, Acting, Alone
<1> QED
  BY <1>1, <1>3, <1>4, <1>5, <1>6, <1>7, <1>8, <1>9, <1>10 DEF ExecInv

\* The caller is told what its row says.
LEMMA ReturnEndedKeeps ==
    ASSUME ExecInv, NEW c \in Callers, ReturnEnded(c)
    PROVE  ExecInv'
<1>1. TypeOK'
  BY Told DEF ReturnEnded, ExecInv, TypeOK, Places, callVars, Go, Leave,
              MarkedStatus, EndStatus
<1>2. /\ pc[c] = "report"
      /\ pc'[c] = "idle"
      /\ Alone(c, pc, pc')
      /\ EndStatus(c) # "SUCCESS"
      /\ row'[c] = 0
      /\ late'[c] = FALSE
      /\ Alone(c, row, row')
      /\ Alone(c, late, late')
      /\ reply'[c].status = EndStatus(c)
      /\ reply'[c].row = row[c] /\ reply'[c].of = "own"
      /\ Alone(c, reply, reply')
      /\ UNCHANGED <<calls, work, req, settled, barred>>
  BY Told DEF ReturnEnded, ExecInv, TypeOK, Alone, Holding, callVars, Go,
              Leave, MarkedStatus, EndStatus
<1>3. Held'
  BY <1>2 DEF ExecInv, TypeOK, Held, Holding, Alone
<1>4. Stages'
  BY <1>2 DEF ExecInv, Stages, Alone, EndStatus
<1>5. DoneBehind'
  BY <1>2 DEF ExecInv, DoneBehind
<1>6. ToldIdle'
  BY <1>2 DEF ExecInv, Held, Holding, ToldIdle, Alone
<1>7. SettledHeld'
  <2>1. 0 \notin DOMAIN calls
    BY DEF ExecInv, TypeOK
  <2> QED
    BY <1>2, <2>1 DEF ExecInv, SettledHeld, Alone
<1>8. SuccessIsReal'
  BY <1>2 DEF ExecInv, SuccessIsReal, Alone
<1>9. RepliesAreRecorded'
  BY <1>2 DEF ExecInv, Held, Stages, Holding, RepliesAreRecorded, Alone,
              EndStatus
<1>10. SettledIsReused'
  BY <1>2 DEF ExecInv, SettledIsReused, Acting, Alone
<1> QED
  BY <1>1, <1>3, <1>4, <1>5, <1>6, <1>7, <1>8, <1>9, <1>10 DEF ExecInv

\* What throws lets its row go; what is caught keeps it.
LEMMA FaultKeeps ==
    ASSUME ExecInv, NEW c \in Callers, Fault(c)
    PROVE  ExecInv'
<1>1. TypeOK'
  <2>1. CASE Leave(c) /\ reply' = [reply EXCEPT ![c] = Threw]
    <3>1. /\ pc' \in [Callers -> Places] /\ row' \in [Callers -> Nat]
          /\ late' \in [Callers -> BOOLEAN]
      BY <2>1 DEF Leave, Go, ExecInv, TypeOK, Places
    <3>2. reply' \in [Callers -> Reply]
      BY <2>1, NoReplies DEF ExecInv, TypeOK
    <3> QED
      BY <3>1, <3>2 DEF Fault, Failure, callVars, ExecInv, TypeOK
  <2>2. CASE Caught(c) /\ UNCHANGED <<reply, row>>
    <3>1. pc' \in [Callers -> Places] /\ late' \in [Callers -> BOOLEAN]
      BY <2>2 DEF Caught, Go, ExecInv, TypeOK, Places
    <3> QED
      BY <2>2, <3>1 DEF Fault, Failure, callVars, ExecInv, TypeOK
  <2> QED
    BY <2>1, <2>2 DEF Fault
<1>2. /\ Alone(c, pc, pc')
      /\ pc[c] # "race"
      /\ \/ pc'[c] = "idle" /\ row'[c] = 0
         \/ pc[c] \in {"success", "result"} /\ pc'[c] = "caught" /\ row'[c] = row[c]
      /\ Alone(c, row, row')
      /\ Alone(c, late, late')
      /\ reply'[c] = reply[c] \/ (reply'[c].of # "own" /\ reply'[c].status # "SUCCESS")
      /\ Alone(c, reply, reply')
      /\ UNCHANGED <<calls, work, req, settled, barred>>
  BY NoReplies DEF Fault, ExecInv, TypeOK, Alone, Holding, callVars, Go,
                   Leave, Caught, Failure, Held
<1>3. Held'
  BY <1>2 DEF ExecInv, TypeOK, Held, Holding, Alone
<1>4. Stages'
  BY <1>2 DEF ExecInv, Stages, Alone, EndStatus
<1>5. DoneBehind'
  BY <1>2 DEF ExecInv, DoneBehind
<1>6. ToldIdle'
  BY <1>2 DEF ExecInv, ToldIdle, Alone
<1>7. SettledHeld'
  <2>1. 0 \notin DOMAIN calls
    BY DEF ExecInv, TypeOK
  <2> QED
    BY <1>2, <2>1 DEF ExecInv, SettledHeld, Alone
<1>8. SuccessIsReal'
  BY <1>2 DEF ExecInv, SuccessIsReal, Alone
<1>9. RepliesAreRecorded'
  BY <1>2 DEF ExecInv, RepliesAreRecorded, Alone
<1>10. SettledIsReused'
  BY <1>2 DEF ExecInv, SettledIsReused, Acting, Alone
<1> QED
  BY <1>1, <1>3, <1>4, <1>5, <1>6, <1>7, <1>8, <1>9, <1>10 DEF ExecInv

\* A row its caller leaves behind keeps what it says.
LEMMA CrashKeeps ==
    ASSUME ExecInv, NEW c \in Callers, Crash(c)
    PROVE  ExecInv'
<1>1. TypeOK'
  <2>1. /\ pc' \in [Callers -> Places] /\ row' \in [Callers -> Nat]
        /\ late' \in [Callers -> BOOLEAN]
    BY DEF Crash, Go, Leave, ExecInv, TypeOK, Places
  <2>2. reply' \in [Callers -> Reply] /\ failures' \in Nat
    BY NoReplies DEF Crash, Failure, ExecInv, TypeOK
  <2>3. /\ work' \in Seq({"none", "running", "done", "failed", "lost"})
        /\ Len(work') = Len(work)
    <3> DEFINE Ends == {"none", "running", "done", "failed", "lost"}
    <3>1. work \in [1..Len(work) -> Ends] /\ Len(work) \in Nat
      BY DEF ExecInv, TypeOK
    <3>2. work' \in [1..Len(work) -> Ends]
      BY <3>1 DEF Crash
    <3> QED
      BY <3>1, <3>2, SeqDef
  <2> QED
    BY <2>1, <2>2, <2>3 DEF Crash, ExecInv, TypeOK
<1>2. /\ Alone(c, pc, pc')
      /\ pc'[c] = "idle"
      /\ row'[c] = 0 /\ Alone(c, row, row')
      /\ Alone(c, late, late')
      /\ reply'[c] = reply[c] \/ (reply'[c].of # "own" /\ reply'[c].status # "SUCCESS")
      /\ Alone(c, reply, reply')
      /\ DOMAIN work' = DOMAIN work
      /\ \A n \in DOMAIN work : work'[n] \in {work[n], "lost"}
      /\ \A n \in DOMAIN work : work[n] # "running" => work'[n] = work[n]
      /\ UNCHANGED <<calls, req, settled, barred>>
  BY NoReplies DEF Crash, ExecInv, TypeOK, Alone, Holding, callVars, Go,
                   Leave, Failure, Orphans, Held
<1>3. Held'
  BY <1>2 DEF ExecInv, TypeOK, Held, Holding, Alone
<1>4. Stages'
  BY <1>2 DEF ExecInv, TypeOK, Held, Stages, Holding, Alone, EndStatus
<1>5. DoneBehind'
  BY <1>2 DEF ExecInv, TypeOK, DoneBehind
<1>6. ToldIdle'
  BY <1>2 DEF ExecInv, ToldIdle, Alone
<1>7. SettledHeld'
  <2>1. 0 \notin DOMAIN calls
    BY DEF ExecInv, TypeOK
  <2> QED
    BY <1>2, <2>1 DEF ExecInv, SettledHeld, Alone
<1>8. SuccessIsReal'
  BY <1>2 DEF ExecInv, TypeOK, SuccessIsReal, Alone
<1>9. RepliesAreRecorded'
  BY <1>2 DEF ExecInv, RepliesAreRecorded, Alone
<1>10. SettledIsReused'
  BY <1>2 DEF ExecInv, SettledIsReused, Acting, Alone
<1> QED
  BY <1>1, <1>3, <1>4, <1>5, <1>6, <1>7, <1>8, <1>9, <1>10 DEF ExecInv

\* A tool that ends changes no row.
LEMMA ToolEndsKeeps ==
    ASSUME ExecInv, NEW n \in DOMAIN work, ToolEnds(n)
    PROVE  ExecInv'
<1>1. /\ work' \in Seq({"none", "running", "done", "failed", "lost"})
      /\ Len(work') = Len(work)
      /\ work[n] = "running" /\ \A k \in DOMAIN work \ {n} : work'[k] = work[k]
  BY DEF ToolEnds, ExecInv, TypeOK
<1>2. UNCHANGED <<calls, pc, req, row, late, reply, settled, barred, failures>>
  BY DEF ToolEnds
<1>3. TypeOK'
  BY <1>1, <1>2 DEF ExecInv, TypeOK
<1>4. Held' /\ ToldIdle' /\ SettledHeld' /\ RepliesAreRecorded' /\ SettledIsReused'
  BY <1>2 DEF ExecInv, Held, ToldIdle, SettledHeld, RepliesAreRecorded,
              SettledIsReused
<1>5. Stages'
  BY <1>1, <1>2 DEF ExecInv, TypeOK, Held, Holding, Stages, EndStatus
<1>6. DoneBehind'
  BY <1>1, <1>2 DEF ExecInv, TypeOK, DoneBehind
<1>7. SuccessIsReal'
  BY <1>1, <1>2 DEF ExecInv, TypeOK, SuccessIsReal
<1> QED
  BY <1>3, <1>4, <1>5, <1>6, <1>7 DEF ExecInv

\* Every step is one of the actions above.
LEMMA ExecNext == ExecInv /\ [Next]_vars => ExecInv'
<1> SUFFICES ASSUME ExecInv, [Next]_vars PROVE ExecInv'
  OBVIOUS
<1>1. ASSUME NEW c \in Callers, Step(c) PROVE ExecInv'
  BY <1>1, LookupKeeps, CreateKeeps, CallingToolKeeps, MarkRunningKeeps,
     ExecutingToolKeeps, ToolDoneKeeps, ToolFailedKeeps, TimeoutKeeps,
     MarkSuccessKeeps, ReturnSuccessKeeps, MarkEndedKeeps, ReturnEndedKeeps
     DEF Step
<1>2. ASSUME NEW c \in Callers, Fault(c) PROVE ExecInv'
  BY <1>2, FaultKeeps
<1>3. ASSUME NEW c \in Callers, Crash(c) PROVE ExecInv'
  BY <1>3, CrashKeeps
<1>4. ASSUME NEW c \in Callers, NEW r \in Request, Invoke(c, r) PROVE ExecInv'
  BY <1>4, InvokeKeeps
<1>5. ASSUME NEW n \in DOMAIN work, ToolEnds(n) PROVE ExecInv'
  BY <1>5, ToolEndsKeeps
<1>6. CASE UNCHANGED vars
  BY <1>6 DEF vars, callVars, ExecInv, TypeOK, Held, Stages, DoneBehind,
              ToldIdle,
              SettledHeld, SuccessIsReal, RepliesAreRecorded, SettledIsReused,
              EndStatus
<1> QED
  BY <1>1, <1>2, <1>3, <1>4, <1>5, <1>6 DEF Next

\* Hence the invariant always holds.
LEMMA ExecInvariant == Spec => []ExecInv
<1>1. Init => ExecInv
  BY ExecInit
<1>2. ExecInv /\ [Next]_vars => ExecInv'
  BY ExecNext
<1> QED
  BY <1>1, <1>2, PTL DEF Spec

---------------------------------------------------------------------------
(* What the invariant gives.                                                *)

\* Rows, calls and replies have their types.
THEOREM ToolTypes == Spec => []TypeOK
<1>1. ExecInv => TypeOK
  BY DEF ExecInv
<1> QED
  BY <1>1, ExecInvariant, PTL

\* invoke answers SUCCESS only for a tool that ran to its end, whichever call
\* ran it and whatever crashed, timed out or failed to be written.
THEOREM ToolSuccess == Spec => []SuccessIsReal
<1>1. ExecInv => SuccessIsReal
  BY DEF ExecInv
<1> QED
  BY <1>1, ExecInvariant, PTL

\* What a caller was told of its own call stays what the ToolCall row says.
THEOREM ToolRecords == Spec => []RepliesAreRecorded
<1>1. ExecInv => RepliesAreRecorded
  BY DEF ExecInv
<1> QED
  BY <1>1, ExecInvariant, PTL

\* After a caller was told of a success, no call that begins later runs a tool
\* for the same hash.
THEOREM ToolReuse == Spec => []SettledIsReused
<1>1. ExecInv => SettledIsReused
  BY DEF ExecInv
<1> QED
  BY <1>1, ExecInvariant, PTL
=============================================================================
