# AgentForge backend: a TLA+ verification project

AgentForge runs AI agents over a chat: a message creates an *execution*, a BullMQ
job runs it through a LangGraph workflow in a worker process, the workflow calls
tools (some only with a person's approval), checkpoints its state after its nodes,
appends events that an SSE endpoint streams, and ends with an assistant message.

The project models the parts of `src/src` in which the order of steps matters:
what several jobs, requests, timers and crashes may do to one execution, to the
tokens of a user, to a document and to a memory. Paths
below are relative to `src/src` unless they start with `docs/`.

## 1. Inventory

| Component | State it keeps | Operations | Interacts with |
|---|---|---|---|
| Agent runner (`modules/agents/agent-runner.service.ts`) | `Execution.status`, the assistant message, `currentState` and `cancelled` of a run | `run`, `handleCancel` | queue (is a job), graph (consumes its stream), checkpoints, cancellation flag, events |
| Research workflow (`modules/workflows`) | `AgentState` channels | seven nodes, conditional edges | model, retrieval, memory, tool executor, approvals, events |
| Queue and worker (`queues/`, `worker.ts`) | BullMQ jobs: attempts, stalls, concurrency 2 | enqueue, resume, retry, stalled check, shutdown, crash | runner, approval sweeper (same process) |
| Approval gate (`nodes/act.node.ts`, `modules/approvals`) | `Approval` rows | look up, create, decide, expire | runner (pauses it), queue (resume jobs) |
| Cancellation (`executions.routes.ts`, `cancellation.service.ts`) | Redis flag with 1 h to live | request, poll, clear | runner, status |
| Checkpoints (`modules/checkpoints`) | `Checkpoint` rows | save after a node, load latest, prune | runner |
| Event log (`events.service.ts`) | `Event` rows, unique `(executionId, sequence)` | append MAX+1 and publish, page | every component above |
| SSE stream (`streaming.routes.ts`) | per connection: high-water mark, subscription | replay, subscribe, forward, close | event log, Redis channel |
| Tool executor (`modules/tools`) | `ToolCall` rows | idempotency lookup, run against a timeout, mark | act node, `/step` route, events |
| Messages (`modules/messages`) | message, execution, idempotency key | create in a transaction, enqueue | queue, quota |
| Tenants (`modules/tenants`, `common/cache`) | settings row, cached copy | read through the cache, update, disable, quota checks | messages, documents |
| Auth (`modules/auth`) | refresh-token rows in families | register, login, refresh (rotate), logout | - |
| Memory (`modules/memory`) | memory rows with a linked embedding | save (upsert or merge), update, delete, extract | runner (after completion), tools |
| Documents (`modules/documents`) | document status, embeddings | upload, re-index, delete, ingest in the background | quota, retrieval |
| Rate limiter (`common/middleware/rate-limit.ts`) | Redis sorted set | count in a sliding window, fail open | every route |

What is hard in it: every `await` is a point where another job, request or timer
runs; statuses are written by id with no check of what they replace; BullMQ
retries a job that was paused or cancelled as one that failed; two jobs of one
execution may run at once (a resume beside a retry); the worker may die between
any two steps; the graph engine runs ahead of the loop that consumes it.

What makes each component correct:

* runner: what it stores is what the respond node made; an execution that ended
  stays ended; an execution that claims to run has a job; what was cancelled stays so;
* graph: tool calls stay within `maxLoops` whatever is resumed; tool results are
  observed before the model reasons again;
* gate: no gated tool without a grant, and a grant is enough;
* checkpoints: progress never goes back;
* queue: the work ends;
* event log and stream: a client sees each event once, in order, without gaps;
* tool executor: a success is real, recorded, reused once it was told, and belongs to its input;
* messages: one execution per idempotency key, each with a job;
* tenants: a limit that was lowered is eventually applied, no update is lost;
* auth: at most one live token in a family, none after a reuse is detected;
* memory: one memory per key, each linked to its embedding;
* documents: `INDEXED` with each chunk once.

`PROJECT.json` lists every hazard at its line with the properties that cover it.

## 2. Modules

| Module | Models |
|---|---|
| `ResearchGraph` | the workflow: `AgentState`, the edges (`AfterPlan`, `AfterReason`, `NextNode`), what each node may return (`Planned`, `Reasoned`, `Acted`, ...) and which nodes are checkpointed |
| `AgentExecution` | one execution: jobs, runner, graph engine, cancel route, approvals, sweeper, failures; extends `ResearchGraph` |
| `MCAgentExecution` | the TLC instances |
| `AgentExecutionProofs` | type correctness, the approval gate, answers, tool budget, finality, stranded runs, progress |
| `EventFeed` | what a client of the event stream is promised at the least: stored events, each at most once, in order |
| `EventStream` | the event log of one execution, its Redis channel, the SSE endpoint and a client that reconnects; implements `EventFeed` |
| `MCEventStream` | the TLC instances |
| `EventStreamProofs` | commit order, complete replay, the refinement |
| `ToolExecutor` | the tool calls of one execution: lookup, row, race against the timer, tools that end late, rejections, crashes |
| `MCToolExecutor` | the TLC instances |
| `ToolExecutorProofs` | real successes, recorded replies, reuse |
| `Admission` | how a message becomes an execution: settings behind a cache, quota, idempotency key, transaction, enqueue; changes of the settings meanwhile |
| `MCAdmission` | the TLC instances |
| `AdmissionProofs` | one execution per key, none forgotten, the quota, the cache follows the row, changes compose |
| `Sessions` | users and refresh tokens: registration, login, rotation, reuse detection, logout |
| `MCSessions` | the TLC instances |
| `SessionsProofs` | one user per address, one live token per family, burned and spent tokens stay dead |
| `DocumentIngestion` | row, file and chunks of documents: upload, reindex, delete, ingestion in the background |
| `MemoryStore` | memory rows and the embeddings they link to: save, update, delete |
| `Chunking` | the pure algorithm that cuts a text, as recursive functions |
| `KnowledgeStores` | the composition of the last three |
| `MCKnowledgeStores` | the TLC instances |
| `DocumentProofs`, `MemoryProofs` | the properties of the two stores |
| `ChunkingProofs` | what is kept of a text of any length, and how long a chunk can get |

`AgentExecution` and `EventStream` meet in the calls of `appendEvent`: the former
keeps whether a call returns or throws, the latter what the calls of several
processes leave in the log. Nothing in a run reads the log back, so the two are
checked apart. In the same way `AgentExecution` keeps of `invoke` that it returns a
result or throws (the act node treats every status alike), and `ToolExecutor` what
happens within it and what calls of several processes do to each other's rows.
`Admission` ends where `AgentExecution` begins: with a row in `CREATED` and its job;
of what runs and the cancel route do afterwards it keeps the statuses the quota counts, as
external steps. `Sessions` reads the tenant's row at login (past the cache), and keeps of it that
it may refuse. `KnowledgeStores` puts the stores the agent retrieves from side by side:
they share the `Embedding` table, each with rows of its own. What `chunkText` makes of a text decides
what an ingestion does: a text that is cut into no chunk is `Uncut` (nothing is embedded), and it is
`Blank`, as is one whose only chunk is empty (it is embedded, and the insert skips it).

### How `AgentExecution` corresponds to the code

A run of `AgentRunnerService.run` lives in a *slot*. `pc[r]` is the await it is
at, `cur[r]` its `currentState`, `cancelled[r]` what its one-second poll last
set. The graph engine of the run is a process of its own: `node[r]`, its state
`est[r]`, and `buf[r]`, the updates emitted and not yet consumed.

| Actions | Code |
|---|---|
| `Dequeue`, `RecoverStalled`, `JobReturned`, `JobThrew` | `execution.worker.ts`, `queue.ts` and what BullMQ does with a job (external) |
| `Load`, `CheckCancel`, `SetRunning`, `StartGraph` | `run`, up to `graph.stream` |
| `RunNode`, `ActLookup`, `ActCreate`, `ActWait`, `ActInvoke`, `ActThrows` | the nodes; the act node is split at its awaits |
| `PollCancel`, `Consume`, `StreamEnds`, `StreamThrows` | the `for await` loop |
| `CreateMessage`, `Complete`, `Announce`, `Fail`, `HandleCancel`, `ClearCancel` | the rest of `run`, its catch, `handleCancel` |
| `CancelRequest`, `CancelFlag`, `CancelWrite`, `FlagExpires` | the cancel route and the flag |
| `DecideRead`, `DecideWrite`, `DecideResume` | `ApprovalService.decide` |
| `SweepRead`, `SweepMark`, `SweepResume` | `expireStale` |
| `RunnerFault`, `NodeFault`, `HandlerFault`, `WorkerCrash` | a rejected call, a failed request, the death of the worker |

An execution starts `CREATED` with its job waiting (`Init`). No statement of
these components touches the rows of another execution, so one is modelled; the
two slots a worker has may both be busy with it. An engine whose consumer threw
goes on by itself until it ends or is stopped (`orphan`): LangGraph aborts it at
a moment the code does not control.

Abstractions: contents of messages, plans, hits, tool inputs and outputs are
dropped; arrays of results and observations are their lengths; an event append
that nothing here reads is joined to the step before it and may fail
(`NodeFault`, `RunnerFault`). Creation times of approvals order them: ties within
a millisecond, and two resume jobs enqueued in the same millisecond (which BullMQ
would merge), are not modelled. There is one worker process and one sweep at a
time. The `/step` route hands a tool to the executor without the gate; it is a
testing endpoint and `GateRespected` speaks of the act node.

### How `EventStream` corresponds to the code

| Actions | Code |
|---|---|
| `AppendRead`, `AppendInsert` | the two statements of `appendEvent`'s transaction; its isolation is READ COMMITTED, so appenders may read one maximum and the unique key `(executionId, sequence)` refuses all but the first |
| `Publish`, `PublishFails` | `redis.publish`, which is not awaited and whose rejection is dropped; a message reaches whoever is subscribed at that moment |
| `Connect`, `Fetch`, `Replay`, `PageDone` | the stream handler up to the end of its replay loop; `Fetch` is `getEvents` with `paginate`, one row more than a page being read |
| `Subscribe`, `Forward` | the subscription taking effect, and the message handler |
| `StreamFails` | a replay that throws; an error of the subscriber of a live stream |
| `Receive`, `Closed`, `Disconnect` | the client and its connection: frames arrive in order, those under way are lost when it breaks |
| `ProcessDies` | the death of a writer, with the stream if it serves it |

`conn` is where the handler is, `high` its `highWaterMark`, `wire` the frames it has
written, `last` and `seen` what the client has. The page's cursor is an event id in
the code and the number of that event here; `CommitOrder` makes the two the same.
The events of a process are appended one at a time (two concurrent calls in
one process are two members of `Writers`). Of an event's type only `TERMINAL_EVENTS`
membership is kept; since any append may be terminal, an execution with two
terminal events is included. An error of the subscriber before
the heartbeat is created makes `cleanup` read an uninitialised constant, and
the exception ends the process (`server.ts`): that is `ProcessDies(Api)`. Streams
share nothing but the log and the channel, so one client is modelled. The Redis connection an
early disconnect leaks is not: no later stream sees it.

### How `ToolExecutor` corresponds to the code

A *caller* is a process, or one of several calls within one, that executes
`ToolExecutorService.invoke`: two jobs of one execution, a retry beside a stalled
job, the `/step` route. `pc[c]` is the await it is at, `row[c]` the `ToolCall` it created.

| Actions | Code |
|---|---|
| `Invoke`, `Lookup`, `Create` | up to the creation of the row; `findFirst` has no order, so any reusable row may be the one found |
| `CallingTool`, `MarkRunning`, `ExecutingTool` | the two events and `markRunning`; after the second event the tool is called |
| `ToolDone`, `ToolFailed`, `Timeout` | what settles `Promise.race` first |
| `MarkSuccess`, `ReturnSuccess` | `markSuccess`, then the `TOOL_RESULT` event and the return |
| `MarkEnded`, `ReturnEnded` | the catch: `markCancelled` or `markError`, the event, the return |
| `ToolEnds` | the promise of `tool.execute`, awaited or not |
| `Fault` | a statement or append that rejects: `invoke` throws, or its catch takes over when the tool had succeeded |
| `Crash` | the caller's process dies; what its tools were doing is lost |

`HashToolInput` is what `hashToolInput` computes: the array given to `JSON.stringify`
filters the keys of nested objects too, no tool has an input field called `input` or
`toolName`, so of the input nothing remains. A row's `input` is kept beside to say
what that means. A timeout is told from other errors by the text "timed out",
which a tool's own error may contain: `late` is a choice in `Caught`. Outputs, durations
and error payloads are dropped; an output is the row it is stored in. `settled` and
`barred` are history: which hashes had a told success when a call began.
`docs/phases/phase-07-tool-calling.md` (line 70) calls a call that timed out `ERROR`; the code, and the
model, make it `CANCELLED`.

### How `Admission` corresponds to the code

A *client* is one `POST` of a message, an *admin* one change of the tenant's
settings. There is one tenant. The one statement here that reaches another one's rows is the
lookup of the idempotency key (`messages.service.ts`, line 26), which asks for the key
alone; the rows of one tenant are what the properties speak of.

| Actions | Code |
|---|---|
| `CacheGet`, `Load`, `CacheSet` | `getTenantSettings` over `CacheService.get` and `set`; a failure of Redis is a miss, or ignored |
| `CheckQuota` | `checkExecutionQuota`: disabled, unlimited (0), or the count of running and waiting executions |
| `FindKey`, `Create`, `Enqueue` | `MessagesService.createMessage`: lookup of the key, the transaction with its unique index, the job (id = execution), whose failure is logged |
| `ChangeRead`, `ChangeWrite`, `Invalidate` | `updateMyTenant`, `disableTenant`, `enableTenant`: read, merge and write back, drop the cache entry |
| `Expire` | the time to live of the entry (Redis, external) |
| `WorkerStarts`, `Pauses`, `Ends` | what runs and the cancel route write to a status, by id (`AgentExecution`; external here): a run that starts or resumes, one that waits for approval, one that completes or fails and a cancellation |
| `StatementFails`, `Crash` | a rejected statement; the death of an API process with any of its requests |

A run reads the status once, when its job begins. An execution that has ended since is `CLOSING` as long as such a
run may turn it `RUNNING` or `WAITING` once more, and `ENDED` when none is left; that it has a job (`HasJob`) is
what a run needs. `Change` has the limit, the disabling and enabling, and the `PATCH` of
the name alone, which reads and rewrites the settings too.

`aged`, `intended` and `excuse` are history: whether settings were read before the latest
change, what the changes amount to one by one, and which of the windows that the
properties name has been entered. `excuse.over` is by how many the executions that run or wait may exceed the limit in
force: what the check that last let a request pass could not see (`Unseen`: requests admitted and not yet
enqueued, executions no run has started, and those that are closing), or all that was there beyond the limit when it was changed, or when
the check judged by an older one. `excuse.lost` collects the executions whose enqueue
failed or whose process died before it. A comment at `messages.service.ts` (line 91)
trusts them to a "stuck-execution sweeper"; there is none in the repository, so
`NoneForgotten` has to except them. The document quota is the same check on another count.

### How `Sessions` corresponds to the code

A *client* is one request of `AuthService`; it may present any token ever issued, which
covers a client that repeats itself, and a stolen token.

| Actions | Code |
|---|---|
| `Begin`, `RegisterFind`, `RegisterCreate` | `register`: the check, the hash, and the insert the unique index decides |
| `LoginTenant`, `LoginFind`, `Issue` | `login`, and `_issueTokenPair`, which opens a family |
| `Present`, `RefreshFind`, `Burn`, `Expire` | `refresh` up to the rotation: a revoked token revokes its family, an expired one is revoked |
| `Rotate`, `FindUser`, `Succeed` | the rotation: revoke the token, load the user, insert the successor and answer |
| `LogoutFind`, `LogoutRevoke` | `logout` |
| `Abort`, `TimePasses` | a rejected statement or the end of the process; the expiry of a token |

`revoke` catches its own failure, so `Revoke` may leave the token alive without its caller
knowing: such families are `failed`. Those with two refreshes of one token past the check at
once are `overlapped`. `OneLivePerFamily` excepts both, `SpentTokensAreRefused` the failed ones only: a spent token stays
refused however many refreshes overlap. `BurnedFamiliesAreDead` excepts, token by token (`late`), the successors
that refreshes already under way create after `revokeFamily`. `spent`, `burned`, `barred`, `caught` and `late` are history. Hashes of tokens
are the tokens; passwords are right, a wrong one ends like an unknown user.

### How `DocumentIngestion`, `Chunking` and `MemoryStore` correspond to the code

| Actions | Code |
|---|---|
| `Upload`, `WriteFile`, `CreateRow` | `uploadDocument`; the ingestion is started with the row and not awaited |
| `Ask`, `FindDocument`, `ClearChunks`, `Restart` | `reindexDocument`: delete the embeddings, then reset the status and start an ingestion |
| `FindDocument`, `RemoveRow`, `Unlink` | `deleteDocument`: the foreign key takes the chunks along, a failed unlink is logged |
| `Mark`, `FindRow`, `Extract`, `Embed`, `InsertChunks`, `Index` | `processIngestion` |
| `Throws`, `MarkFailed` | what its `try` catches, and its catch, which swallows its own failure |
| `DocCrash` | the death of a process, with any of its requests and ingestions |

A chunk set is inserted in one transaction, so `copies` counts how often it is there.
`tangled`, `torn`, `lost` and `litter` name the documents for which a window the code
leaves open was entered: two rebuilt one at a time, a reindex ended between its two
statements, nobody was left to write the status, the file was left. `docs/phases/phase-06-rag.md`
promises (line 60) that reindexing replaces embeddings atomically; it does
not, and `IndexedIsSearchable` excepts that window.

`ChunkText` is `chunkText`. `SplitText[level]` is `splitText` with the separators from a level on: it
takes the first one the text contains, cuts by it (`Pieces`, from a scan for its occurrences), packs pieces while
they fit (`Packed`, one piece at a time by `Added`), cuts longer ones by the separators that are left, and
lays an overlap over every level. The scan and the packing are functions of the number of characters and
pieces done, so that they can be proved about. A character carries its place, so that properties can say what became of it.

| Actions | Code |
|---|---|
| `Save`, `FindMemory` | `save`: by key, or by the nearest linked embedding |
| `Rewrite`, `UpdateEmbedding` | an update of a memory with its embedding |
| `CreateMemory`, `InsertEmbedding`, `LinkEmbedding` | a new memory, its embedding, the link: three statements |
| `Update`, `Delete`, `DeleteEmbedding`, `DeleteMemory` | `update` and `delete`, which begin with `getById` |
| `MemoryFails` | a statement or `embedQuery` rejects, or the process dies: the rest is not done |

A content is a topic, within which contents are near duplicates, and the request that wrote it.
`sound` holds the memories whose last writer was alone and succeeded, `doubled` the keys
two requests were creating at a time (no unique index forbids it).

## 3. What is checked

| Run | Instance | Shows |
|---|---|---|
| `races` | two slots, two jobs, one approver, one cancel, one fault | `TypeOK`, `AnswersAreResponses`, `GateRespected`, `SettledIsFinal` under all interleavings of two runs, a cancel, a decision (noted or not) or expiry, and a failed call |
| `recovery` | fairness; two slots, two jobs, a gated tool, two attempts, a crash, no approvers | `ToolBudget`, `NoStrandedRun`, `ProgressKept`, `WorkEnds` |
| `feed` | API and worker append three events; pages of one row, two connections, one failure of any kind; fairness | `TypeOK`, `CommitOrder`, `ReplayHasNoGaps`, `GivenInOrder` (the refinement of `EventFeed`), `EndedStreamsClose` |
| `tools` | two callers, one tool, three calls, two failures; fairness | `TypeOK`, `SuccessIsReal`, `RepliesAreRecorded`, `SettledIsReused`, `InvocationsEnd` |
| `admission` | two clients with and without one key, two admins, limits 0 (none) and 1; four mixes of executions, changes and faults; runs and cancellations of any kind; fairness | `TypeOK`, `OneExecutionPerKey`, `NoneForgotten`, `CacheFollows`, `ChangesCompose`, `QuotaKept`, `SettingsTakeHold` |
| `sessions` | two clients, one address, four tokens, one fault | `TypeOK`, `OneUserPerEmail`, `OneLivePerFamily`, `BurnedFamiliesAreDead`, `SpentTokensAreRefused` |
| `stores` | three documents (a text, one of newlines only, an empty one), two requests; two callers, one key, two topics; every text of up to 8 characters; fairness | `DocumentTypes`, `ChunksOnce`, `IndexedIsSearchable`, `DeletedIsGone`, `IngestionSettles`; `MemoryTypes`, `KeyedOnce`, `SavedIsFound`; `WordsAreKept`, `ChunksAreBounded` |
| `inputs` | `tools` with two inputs, no failure and no fairness | violated: `OutputsOfTheirInput` |
| `gaps` | `feed` with one writer, one connection, no failure and no fairness | violated: `NoGaps` |
| `cancelled` | one slot, one cancel | violated: `CancelledIsFinal` |
| `observed` | one slot, one crash | violated: `ResultsObserved` |
| `honoured` | one slot, one approver, no failure | violated: `ApprovalIsHonoured` |

Every run may stop: when all jobs are finished and nobody decides anything there
is nothing left to do, so deadlock is not checked.

**Bounds.** `MaxLoops` is 1 instead of 5: the guard is a comparison, and 1 lets the
loop be entered, repeated over a resume, and refused. `Attempts` 1 or 2 gives the
last and a non-last attempt, 3 is used where the state space allows. Two
slots are the code's concurrency. Two jobs are the first and a resume, which is
the least that lets two runs overlap. `MaxAhead` 1 lets the engine be one update
ahead, enough to separate its end from the consumer's. `MaxApprovals` bounds the
rows a retry may add. `recovery` has no approvers, as people owe nothing, and
enough approvals for the bound not to stop a run; the sweeper makes the second job, which
may run beside the retry of the first or beside an orphaned engine. Cancels are left to `races`, which keeps
the graph small enough for a liveness check. A sweep begins only while `MaxJobs` leaves a job for its
resume, or the bound would strand it. `MaxCrashes`, `MaxFaults`, `MaxCancels`
bound the environment. Slots and approvers are symmetric in the safety runs. Two concurrent
decisions and an empty answer are in no instance; the proofs of `GateRespected`
and `AnswersAreResponses` cover them.

In `feed`, pages of one row make every replay longer than a page take several fetches (three
events with 100 to a page would never fill one) and let the log grow between
any two of them; two writers are enough for a lost race of the unique key and for publishes out of
order; two connections are a stream and its resumption. The log stays small
because every property speaks of neighbours in it, and the proofs cover the rest.

In `tools`, one tool is enough because calls meet only through equal hashes; three calls
are two that race and one that comes after both, two failures let a call be lost and
its retry be cut as well.

In `admission`, one key and two clients make a race for it; a limit of one is full with one
execution; two changes are the least that can take each other back, and `Mixes` gives each kind of event
its company without multiplying all of them: two changes beside a request, a change beside a request
and a failure, two requests beside a failure, two beside a change. Nothing bounds how often the runs and cancellations of
an execution write over each other. `SettingsTakeHold` asks for requests that are judged by the row's settings from some time
on: the changes end here because `Budgets` bounds them. `MutantNoTTL` shows that the time to live is
what `SettingsTakeHold` rests on.

In `sessions`, four tokens are a family with two rotations and one more family, or the successors
of two refreshes that overlap.

In `stores`, the budgets combine an upload, a reindex and a failure, an upload and two reindexes of one document, and two
uploads; three requests to the memories are a creation, a concurrent one and a
later one. One store moves at a time, which loses nothing: no action of one reads or
writes a variable of another. Chunks of 2 characters with an overlap of 1, over all texts of words, spaces and newlines
of up to four chunks, reach each separator and every level of the recursion.

**Fairness.** A worker process that is up takes waiting jobs, runs its stalled
check on a timer, and every promise a run or a node awaits settles: weak fairness
per job of being taken or recovered (`Dequeue` by some slot, or `RecoverStalled`), and per slot of
`Runner`, `Engine` or the end of an orphaned engine (`OrphanStops`) going on. The
`/cancel` handler, approvers, the expiry of the flag, and crashes have none.
`WorkEnds` therefore allows an execution to wait for a person for ever; it does
not allow one to be left `RUNNING`, nor a job to be retried without end.

`EventStream` assumes that the handler's awaits settle and that written frames arrive
(`Handler`, `Receive`, `Closed`). No process owes an append or a publish, no client a
connection. `EndedStreamsClose` therefore speaks of streams that still have
a terminal event to replay; one that is live when the last event is lost stays open,
which is part of the gap below.

`ToolExecutor` assumes that a caller's awaits settle and that its timer fires (`Step`);
a tool owes nothing, and neither does a caller a retry.

`Admission` assumes that a request and a change, once begun, go on (`Proceed`, `ChangeWrite`,
`Invalidate`), and that Redis drops an entry whose time is over (`Expire`). Nothing is assumed of who asks, of the
workers, or of what fails. `KnowledgeStores` assumes that the event loop goes on with every request (`Serve`) and every
ingestion that is not lost with its process (`Ingest`). `Sessions` has safety properties only.

**Disagreements with the docs**, each found by a violated run and listed in
`findings`: a cancelled execution may end `FAILED` or `COMPLETED`; a resumed run reasons without
the result its last tool call left; an approval granted with a note is not seen by
the run it resumes; an event stored between the last replay page and the subscription is
lost to the client, also over reconnections; a call of a tool that succeeded before in the
execution is given that output, whatever its input. Three more are stated as exceptions of
properties that hold, and have no run of their own: the reindex that is not atomic, the sweeper that does not exist
(section 2), and `docs/phases/phase-03-authentication.md` (line 60), "Reusing a rotated refresh token invalidates the entire
family.": a refresh past its check creates its successor after `revokeFamily`, and that one lives on.

## 4. What is proved

TLAPS proves, for every value of the constants that meets `GraphAssumption` and
`ExecutionAssumption`:

* `TypeCorrect`: `Spec => []TypeOK`. Types alone are not inductive: `ActCreate`
  builds a row from `est[r].pending`, which must be a tool by then, and
  `DecideWrite` updates `dec[p].approval`, which must be a row. `TypeInv` adds
  `PendingNamed` and `DecisionsHeld`.
* `GateCorrect`: `Spec => []GateRespected`. `GateInv` adds `ApprovedGranted`
  (an approval in status `APPROVED` names a granted tool) and `InvokeGranted` (an engine
  about to call a gated tool holds a grant for it). Grants only grow, so what a
  sweep or a second decision does to the row after the lookup does not matter.
* `AnswersCorrect`: `Spec => []AnswersAreResponses`. `AnswerInv` adds `Followed` (with
  an empty buffer the runner's state is the engine's), `EndAnswered` (an
  engine at its end has a response, in its state and in the last update) and
  `Quiet` (a slot that runs nothing has an idle engine).
* `BudgetCorrect`: `Spec => []ToolBudget`. `BudgetInv` carries
  `results <= loop` (strictly where the act node may run) through engine, buffer,
  runner and checkpoint.
* `SettledStays`: `Spec => SettledIsFinal`, from `TypeInv` and `Quiet`: once settled,
  a job can only be taken, read a terminal status and return.
* `NoneStranded`: `Spec => []NoStrandedRun`. That some job waits or is active is not
  inductive: the job may be that of a run which is about to hand it back, or one that a crash left and
  that has no stalls to spare. `HeldInv` adds `Owned` (each run has an active job of its own), `StallsCounted`
  (a job has no more stalls than there were crashes, strictly fewer while nobody runs it) and `Held`: the job is
  one whose run has not written its outcome. `QueueMoves` lists the six things a step may do to the queue.
* `ProgressIsKept`: `Spec => ProgressKept`, for every `Concurrency`. The property speaks of the time from the start of a run
  that begins alone to the start of one that begins beside another (`spent.overlap`). That exception is needed: the worker
  takes two jobs at a time, and of two runs that go on from
  one checkpoint the slower saves over what the faster has saved (without it, TLC finds a trace of 45 states, with a
  decision and a sweep that both read an approval as pending and enqueue a resume each). `RisingInv` says that from a run that began
  alone on there is one run (`OneRun`), and that the counts rise from the checkpoint
  over the runner's state and the updates in the buffer to the engine's state (`Rising`). `BeginsAlone` is the lemma on
  how that starts anew.

And for every value that meets `StreamAssumption`, in `EventStreamProofs`:

* `CommitOrderCorrect`: `Spec => [](TypeOK /\ CommitOrder)`. A writer about to insert
  holds a number at most one beyond the log (`NextNumbers`); the unique key leaves only
  that one. `MaxIsLength` says that the maximum the code aggregates is then the length of the log.
* `FeedCorrect`: `Spec => GivenInOrder`, the refinement. `StreamInv` adds that all that is under way to
  the client is in the log (`Logged`), that the frames on the wire ascend from what the
  client received up to the high-water mark (`WireAscends`), and that a page is
  beyond that mark (`ReplayAhead`). An insert is `EventFeed`'s `Store`, the receipt of a
  frame its `Tell`, every other step a stutter.
* `ReplayCorrect`: `Spec => []ReplayHasNoGaps`. `Contiguous` says that a page has a row for every
  number from the high-water mark to the cursor; `PageIsPrefix` is the lemma on pages it rests on:
  a page that takes a row takes every unread row below it.

And for every value that meets `ExecutorAssumption`, in `ToolExecutorProofs`: `ToolSuccess`,
`ToolRecords`, `ToolReuse`. `ExecInv` adds that a call under way holds a row of its own (`Held`),
what its place says of row and tool (`Stages`), that a row in `SUCCESS` has a tool that ended
(`DoneBehind`), that whoever was told of its own call has let its row go (`ToldIdle`), and, for
reuse, that a settled hash has a success held by no call under way (`SettledHeld`): the catch
may still turn the success of a call under way into an error, but no other. `Marked` is the lemma
on what marking a row changes.

`StreamTypes` and `ToolTypes` are type correctness of `EventStream` and `ToolExecutor`; the
modules below have theirs too.

For every value that meets `AdmissionAssumption`, in `AdmissionProofs`: `OnePerKey`, `NoneIsForgotten`,
`CacheFollowsRow`, `ChangesAreComposed`. `AdmissionInv` adds `Keyed` (an execution with a key is the one its key's row
names: the unique index makes the insert of a second one impossible, however many requests passed the
lookup), `OwnIds` (a job's id is its execution), and `FreshReads` (settings read and not yet used are those
of the row unless they are marked as aged).

`QuotaIsKept` is `Spec => []QuotaKept`, also in `AdmissionProofs`: executions that run or wait are within the limit in force and
`excuse.over`. What the check has let pass is counted by nobody
until its row exists, and then only once a run has started it. `QuotaInv` therefore counts more than the code
does: `Room` bounds in the same way the executions that count or may come to (`Active`) together with the requests on their way
to one (`Underway`), so that what a run, a pause or a cancellation writes moves an execution within `Active` or out of it. `Judged` says
that a request is judged by settings it has read. `RoomKept` is the lemma
that fewer executions and fewer requests need no more room, `ClaimedIsActive` that nothing is counted twice, `Countable` that all these sets are finite.

For every value that meets `SessionsAssumption`, in `SessionsProofs`: `OneUser`, `OneLive`, `BurnedStayDead`,
`SpentStayRefused`. `SessionInv` adds `Held` and `Owned` (a request holds a token that exists, a token
a family and a user), `Solo` (unless refreshes of the family overlapped or a revocation in it failed, one
refresh at a time is between check and successor, and no token but the one it is about to revoke is alive), `Rotated` and
`SpentDead` (a rotated, a spent token is revoked, unless a revocation in the family failed), `CaughtOrLate` (whoever was under way when
the family was burned is marked) and `Addressed` (one row per address).

For every value that meets `DocumentsAssumption`, in `DocumentProofs`: `OnceIndexed`, `SearchableWhenIndexed`,
`GoneWhenDeleted`. `DocInv` is a conjunction over documents: `Begun`, `Complete`, `Gone`, and, unless the document is tangled,
`Lone` (one rebuild at a time) and `Staged` (what the place of that rebuild says of the chunks). `Elsewhere` is
the lemma that a step leaves the other documents alone, `Together` puts them back together, and `RequestMoves`, `TaskMoves`,
`Starts` say once what moves of a request or an ingestion preserve.

For every value that meets `MemoryAssumption`, in `MemoryProofs`: `OneMemoryPerKey`, `SavedAreFound`. `MemInv` adds `Linked`
(a link is to an embedding of that memory), `Private` (two callers never hold one new
embedding or memory), `Knows` (a caller alone with its memory knows its link), `KeyOk` (who creates a
keyed memory has found none, or the key is doubled) and `Saved`. `Undisturbed` and `OthersKeep` carry them over the steps of other callers.

Each proof has one step per action; locality lemmas (`EngineMoves`,
`ApprovalMoves`, `DecisionMoves`, `InvokedMoves`, `GrantedGrows`, `SlotMoves`, and those
above) say once which actions touch what. Every inductive invariant was checked with TLC
before it was proved.

For every value that meets `ChunkingAssumption`, in `ChunkingProofs`: `TextsAreCut`, for every text over the
characters, of any length, and from it `WordsKept` and `ChunksBounded`, for the text of `KnowledgeStores`. The
argument has two parts.

* Induction. The library's induction theorems take an operator as a parameter and cannot be used here. `Least` gets a
  least element of a set of numbers from the well-foundedness of strict inclusion among finite sets (the intervals
  below the numbers), `Induction` follows for a set, and `Iteration` says that a function defined by recursion
  over `0..n` exists and goes on as it says. The scan, the packing and the four levels (`SplitTextRows`) rest on it.
* What is kept. `Holds(c, chars, i, j)` is followed through one call: `PiecesSplit` (the scan cuts between
  occurrences of the separator and nowhere else, so no word is torn), `Packing` and `PackedKeeps` (whatever a piece or its
  own chunks held is held by a chunk of the level), `OverlappedFacts` (an overlap puts characters before a chunk, at
  most `ChunkOverlap` of them), `CutCuts` for the whole call. `Cuts(level, cut)` is what a level promises to the one above it: chunks no longer
  than `Limit(level)`, one overlap less for each level further down, and, if no earlier separator is in the text
  (`Clean`), words kept. `PiecesAreClean` is why that condition is met by the pieces which are passed on.

Only model-checked: the liveness properties `WorkEnds`, `EndedStreamsClose`, `InvocationsEnd`,
`SettingsTakeHold`, `IngestionSettles` (liveness under fairness is outside the prover's reach). The properties of the runs that expect a
violation are refuted by their counterexamples.

## 5. What is left

1. An abstract gate (asked, granted, run) implemented by `AgentExecution`, by TLC and by proof.
2. The document quota, which is checked before the upload as the execution quota is, and the creation of tenants.
3. Pagination as an algorithm (pages partition the list); its use by the stream is modelled.
4. Serialisation and parents of checkpoints. Pruning keeps the last row, so it does not change
   which checkpoint is loaded and is a stutter here.

Left out for good: retrieval and embedding calls, chat, user and agent CRUD, tool
definitions, HTTP wiring, configuration, health checks, logging: they keep no
state that steps of several actors relate. The rate limiter sends one
pipeline that adds its entry to a sorted set before it counts: whatever comes between the two can only
make the count higher, and a request refused that would have been let through.
