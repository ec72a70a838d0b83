-------------------------- MODULE DocumentIngestion --------------------------
(***************************************************************************)
(* DocumentsService: upload, reindex and delete, and the ingestion that the *)
(* first two start without waiting for it.  A document is a file on disk, a *)
(* Document row and the Embedding rows of its chunks, which nothing changes  *)
(* together.  A chunk set is inserted in one transaction, so what is kept of *)
(* it is how many times it is there.                                        *)
(***************************************************************************)
EXTENDS Naturals, Sequences, FiniteSets

CONSTANTS Documents,    \* ids of documents that may be uploaded
          Uncut,        \* those whose text is cut into no chunk at all
          Blank,        \* those, and the ones whose only chunk is empty
          Requests,     \* concurrent API requests
          DocBudgets    \* bounds: uploads, reindexes, failures and crashes

ASSUME DocumentsAssumption ==
    /\ Documents # {} /\ Uncut \subseteq Blank /\ Blank \subseteq Documents
    /\ DocBudgets \subseteq [uploads : Nat, reindexes : Nat, faults : Nat]

VARIABLES
    row,      \* status of the Document row, or that there is none
    file,     \* whether the file is in the storage
    copies,   \* how many times the document's chunk set is in the Embedding table
    tasks,    \* processIngestion calls in the order of their start
    request,  \* per request: the await it is at and its document
    tangled,  \* documents rebuilt by two at once
    torn,     \* documents whose reindex ended between its two statements
    lost,     \* documents whose status nobody is left to write
    litter,   \* documents whose file was left behind
    docLeft   \* of the budget

docVars == <<row, file, copies, tasks, request, tangled, torn, lost, litter, docLeft>>

Status   == {"UPLOADED", "PROCESSING", "INDEXED", "FAILED"}
NoRequest == [pc |-> "idle", doc |-> CHOOSE d \in Documents : TRUE]

DocInit ==
    /\ row = [d \in Documents |-> "absent"] /\ file = [d \in Documents |-> FALSE]
    /\ copies = [d \in Documents |-> 0]
    /\ tasks = <<>> /\ request = [q \in Requests |-> NoRequest]
    /\ tangled = {} /\ torn = {} /\ lost = {} /\ litter = {}
    /\ docLeft \in DocBudgets

Exists(d)   == row[d] \in Status
AtReq(q, p) == request[q].pc = p
Await(q, p) == request' = [request EXCEPT ![q].pc = p]
Reply(q)    == request' = [request EXCEPT ![q] = NoRequest]
DocFault    == /\ docLeft.faults > 0
               /\ docLeft' = [docLeft EXCEPT !.faults = @ - 1]

\* Whether the chunks are being rebuilt: by an ingestion, or by a reindex past
\* its delete.
Rebuilding(d) ==
    \/ \E i \in DOMAIN tasks : tasks[i].doc = d /\ tasks[i].pc # "done"
    \/ \E q \in Requests : AtReq(q, "restart") /\ request[q].doc = d

StartTask(d) == tasks' = Append(tasks, [doc |-> d, pc |-> "mark"])

---------------------------------------------------------------------------
(* uploadDocument *)

Upload(q, d) ==
    /\ AtReq(q, "idle") /\ docLeft.uploads > 0
    /\ row[d] = "absent" /\ ~file[d] /\ \A p \in Requests : request[p].doc = d => AtReq(p, "idle")
    /\ request' = [request EXCEPT ![q] = [pc |-> "write", doc |-> d]]
    /\ docLeft' = [docLeft EXCEPT !.uploads = @ - 1]
    /\ UNCHANGED <<row, file, copies, tasks, tangled, torn, lost, litter>>

WriteFile(q) ==
    /\ AtReq(q, "write")
    /\ \/ /\ file' = [file EXCEPT ![request[q].doc] = TRUE]
          /\ Await(q, "create") /\ UNCHANGED docLeft
       \/ DocFault /\ Reply(q) /\ UNCHANGED file
    /\ UNCHANGED <<row, copies, tasks, tangled, torn, lost, litter>>

\* The ingestion starts with the row, in the same turn of the event loop.
CreateRow(q) ==
    /\ AtReq(q, "create") /\ Reply(q)
    /\ LET d == request[q].doc IN
       \/ /\ row' = [row EXCEPT ![d] = "UPLOADED"] /\ StartTask(d)
          /\ UNCHANGED <<litter, docLeft>>
       \/ /\ DocFault /\ litter' = litter \cup {d}
          /\ UNCHANGED <<row, tasks>>
    /\ UNCHANGED <<file, copies, tangled, torn, lost>>

---------------------------------------------------------------------------
(* reindexDocument and deleteDocument *)

\* A request for a document that has been there.
Ask(q, p, d) ==
    /\ AtReq(q, "idle") /\ row[d] # "absent"
    /\ p = "reindex" => docLeft.reindexes > 0
    /\ request' = [request EXCEPT ![q] = [pc |-> p, doc |-> d]]
    /\ docLeft' = IF p = "reindex" THEN [docLeft EXCEPT !.reindexes = @ - 1] ELSE docLeft
    /\ UNCHANGED <<row, file, copies, tasks, tangled, torn, lost, litter>>

FindDocument(q, p, next) ==
    /\ AtReq(q, p)
    /\ IF Exists(request[q].doc) THEN Await(q, next) ELSE Reply(q)
    /\ UNCHANGED <<row, file, copies, tasks, tangled, torn, lost, litter, docLeft>>

MutantKept(n) == n
Cleared(n)    == 0

\* deleteMany, not in one transaction with the update that follows it.
ClearChunks(q) ==
    /\ AtReq(q, "clear")
    /\ LET d == request[q].doc IN
       \/ /\ copies' = [copies EXCEPT ![d] = Cleared(@)]
          /\ tangled' = IF Rebuilding(d) THEN tangled \cup {d} ELSE tangled
          /\ Await(q, "restart") /\ UNCHANGED docLeft
       \/ DocFault /\ Reply(q) /\ UNCHANGED <<copies, tangled>>
    /\ UNCHANGED <<row, file, tasks, torn, lost, litter>>

\* The update rejects when the row has been deleted.
Restart(q) ==
    /\ AtReq(q, "restart") /\ Reply(q)
    /\ LET d == request[q].doc IN
       \/ /\ Exists(d) /\ row' = [row EXCEPT ![d] = "UPLOADED"] /\ StartTask(d)
          /\ torn' = torn \ {d} /\ lost' = lost \ {d} /\ UNCHANGED docLeft
       \/ ~Exists(d) /\ UNCHANGED <<row, tasks, torn, lost, docLeft>>
       \/ DocFault /\ torn' = torn \cup {d} /\ UNCHANGED <<row, tasks, lost>>
    /\ UNCHANGED <<file, copies, tangled, litter>>

MutantNoCascade(n) == n
Cascaded(n)        == 0

\* The chunks go with the row: the foreign key cascades.
RemoveRow(q) ==
    /\ AtReq(q, "remove")
    /\ LET d == request[q].doc IN
       \/ /\ Exists(d)
          /\ row' = [row EXCEPT ![d] = "deleted"]
          /\ copies' = [copies EXCEPT ![d] = Cascaded(@)]
          /\ Await(q, "unlink") /\ UNCHANGED docLeft
       \/ ~Exists(d) /\ Reply(q) /\ UNCHANGED <<row, copies, docLeft>>
       \/ DocFault /\ Reply(q) /\ UNCHANGED <<row, copies>>
    /\ UNCHANGED <<file, tasks, tangled, torn, lost, litter>>

\* A failure is logged, and the answer is 204 all the same.
Unlink(q) ==
    /\ AtReq(q, "unlink") /\ Reply(q)
    /\ LET d == request[q].doc IN
       \/ file' = [file EXCEPT ![d] = FALSE] /\ UNCHANGED <<litter, docLeft>>
       \/ DocFault /\ litter' = litter \cup {d} /\ UNCHANGED file
    /\ UNCHANGED <<row, copies, tasks, tangled, torn, lost>>

---------------------------------------------------------------------------
(* processIngestion *)

AtTask(i, p) == tasks[i].pc = p
Step(i, p)   == tasks' = [tasks EXCEPT ![i].pc = p]

\* Its first update is outside of the try: a rejection is only logged.
Mark(i) ==
    /\ AtTask(i, "mark")
    /\ LET d == tasks[i].doc IN
       \/ /\ Exists(d) /\ row' = [row EXCEPT ![d] = "PROCESSING"]
          /\ Step(i, "find") /\ UNCHANGED <<lost, docLeft>>
       \/ ~Exists(d) /\ Step(i, "done") /\ UNCHANGED <<row, lost, docLeft>>
       \/ DocFault /\ Step(i, "done") /\ lost' = lost \cup {d} /\ UNCHANGED row
    /\ UNCHANGED <<file, copies, request, tangled, torn, litter>>

FindRow(i) ==
    /\ AtTask(i, "find")
    /\ Step(i, IF Exists(tasks[i].doc) THEN "extract" ELSE "fail")
    /\ UNCHANGED <<row, file, copies, request, tangled, torn, lost, litter, docLeft>>

MutantEmbedLast == "index"
FirstStep       == "embed"

\* readFile, extractText and chunkText.
Extract(i) ==
    /\ AtTask(i, "extract")
    /\ LET d == tasks[i].doc IN
       Step(i, IF ~file[d] THEN "fail" ELSE IF d \in Uncut THEN "index" ELSE FirstStep)
    /\ UNCHANGED <<row, file, copies, request, tangled, torn, lost, litter, docLeft>>

Embed(i) ==
    /\ AtTask(i, "embed") /\ Step(i, "insert")
    /\ UNCHANGED <<row, file, copies, request, tangled, torn, lost, litter, docLeft>>

\* An empty chunk is passed over, so that a blank document's transaction inserts
\* nothing.  The foreign key lets it insert chunks of existing documents only.
InsertChunks(i) ==
    /\ AtTask(i, "insert")
    /\ LET d == tasks[i].doc IN
       \/ d \in Blank /\ Step(i, "index") /\ UNCHANGED copies
       \/ /\ d \notin Blank /\ Exists(d)
          /\ copies' = [copies EXCEPT ![d] = @ + 1] /\ Step(i, "index")
       \/ d \notin Blank /\ ~Exists(d) /\ Step(i, "fail") /\ UNCHANGED copies
    /\ UNCHANGED <<row, file, request, tangled, torn, lost, litter, docLeft>>

Index(i) ==
    /\ AtTask(i, "index")
    /\ LET d == tasks[i].doc IN
       IF Exists(d) THEN row' = [row EXCEPT ![d] = "INDEXED"] /\ Step(i, "done")
       ELSE Step(i, "fail") /\ UNCHANGED row
    /\ UNCHANGED <<file, copies, request, tangled, torn, lost, litter, docLeft>>

\* Whatever is tried from the lookup on rejects.
Throws(i) ==
    /\ tasks[i].pc \in {"find", "extract", "embed", "insert", "index"}
    /\ DocFault /\ Step(i, "fail")
    /\ UNCHANGED <<row, file, copies, request, tangled, torn, lost, litter>>

MutantStillProcessing == "PROCESSING"
MutantErrorStatus     == "ERROR"
FailedStatus          == "FAILED"

\* The catch block, which swallows its own failure.
MarkFailed(i) ==
    /\ AtTask(i, "fail") /\ Step(i, "done")
    /\ LET d == tasks[i].doc IN
       \/ Exists(d) /\ row' = [row EXCEPT ![d] = FailedStatus] /\ UNCHANGED <<lost, docLeft>>
       \/ ~Exists(d) /\ UNCHANGED <<row, lost, docLeft>>
       \/ DocFault /\ lost' = lost \cup {d} /\ UNCHANGED row
    /\ UNCHANGED <<file, copies, request, tangled, torn, litter>>

\* A process dies with the requests and the ingestions it was running.
DocCrash ==
    /\ DocFault
    /\ \E Q \in SUBSET {q \in Requests : ~AtReq(q, "idle")},
          I \in SUBSET {i \in DOMAIN tasks : ~AtTask(i, "done")} :
          /\ Q # {} \/ I # {}
          /\ request' = [q \in Requests |-> IF q \in Q THEN NoRequest ELSE request[q]]
          /\ tasks' = [i \in DOMAIN tasks |-> IF i \in I THEN [tasks[i] EXCEPT !.pc = "done"]
                                              ELSE tasks[i]]
          /\ lost' = lost \cup {tasks[i].doc : i \in I}
          /\ torn' = torn \cup {request[q].doc : q \in {p \in Q : AtReq(p, "restart")}}
          /\ litter' = litter \cup {request[q].doc :
                                       q \in {p \in Q : request[p].pc \in {"create", "unlink"}}}
    /\ UNCHANGED <<row, file, copies, tangled>>

---------------------------------------------------------------------------
Serve(q) == \/ WriteFile(q) \/ CreateRow(q)
            \/ FindDocument(q, "reindex", "clear") \/ ClearChunks(q) \/ Restart(q)
            \/ FindDocument(q, "delete", "remove") \/ RemoveRow(q) \/ Unlink(q)

Ingest(i) == \/ Mark(i) \/ FindRow(i) \/ Extract(i) \/ Embed(i)
             \/ InsertChunks(i) \/ Index(i) \/ MarkFailed(i)

DocNext ==
    \/ \E q \in Requests : \/ \E d \in Documents : Upload(q, d)
                           \/ \E d \in Documents, p \in {"reindex", "delete"} : Ask(q, p, d)
                           \/ Serve(q)
    \/ \E i \in DOMAIN tasks : Ingest(i) \/ Throws(i)
    \/ DocCrash

---------------------------------------------------------------------------
(* Properties *)

DocumentTypes ==
    /\ row \in [Documents -> Status \cup {"absent", "deleted"}]
    /\ file \in [Documents -> BOOLEAN] /\ copies \in [Documents -> Nat]
    /\ tasks \in Seq([doc : Documents,
          pc : {"mark", "find", "extract", "embed", "insert", "index", "fail", "done"}])
    /\ request \in [Requests -> [doc : Documents,
          pc : {"idle", "write", "create", "reindex", "clear", "restart",
                "delete", "remove", "unlink"}]]
    /\ {tangled, torn, lost, litter} \subseteq SUBSET Documents
    /\ docLeft \in [uploads : Nat, reindexes : Nat, faults : Nat]

\* However often a document is reindexed, fails and is reindexed again, its
\* chunks are in the table at most once, unless two rebuild it at a time.
ChunksOnce ==
    \A d \in Documents : d \in tangled \/ copies[d] <= 1

\* A document that says INDEXED can be searched: all its chunks are there once, or
\* none when its text is cut into nothing but empty ones.  Excepted are the window of a reindex between its two statements, what is left
\* when it dies there, and documents rebuilt by two at a time.
IndexedIsSearchable ==
    \A d \in Documents :
        row[d] = "INDEXED" =>
            \/ d \in tangled \cup torn
            \/ \E q \in Requests : AtReq(q, "restart") /\ request[q].doc = d
            \/ copies[d] = IF d \in Blank THEN 0 ELSE 1

\* A deleted document leaves no chunk, whatever ingestion was under way, and no
\* file, unless the unlink failed or its process died.
DeletedIsGone ==
    \A d \in Documents :
        row[d] = "deleted" =>
            /\ copies[d] = 0
            /\ \/ ~file[d] \/ d \in litter
               \/ \E q \in Requests : AtReq(q, "unlink") /\ request[q].doc = d

\* An uploaded or reindexed document does not stay in UPLOADED or PROCESSING,
\* unless its ingestion died or could not write how it ended.
IngestionSettles ==
    \A d \in Documents :
        row[d] \in {"UPLOADED", "PROCESSING"} ~>
            row[d] \notin {"UPLOADED", "PROCESSING"} \/ d \in lost
=============================================================================
