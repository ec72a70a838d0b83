--------------------------- MODULE DocumentProofs ---------------------------
(***************************************************************************)
(* Proofs about DocumentIngestion, within KnowledgeStores: chunks at most    *)
(* once, INDEXED documents that are complete, deleted ones that are gone,    *)
(* for any number of documents, requests, ingestions and failures.           *)
(***************************************************************************)
EXTENDS KnowledgeStores, SequenceTheorems, TLAPS

TaskPlaces    == {"mark", "find", "extract", "embed", "insert", "index", "fail", "done"}
RequestPlaces == {"idle", "write", "create", "reindex", "clear", "restart",
                  "delete", "remove", "unlink"}
Tasks         == [doc : Documents, pc : TaskPlaces]
Serving       == [doc : Documents, pc : RequestPlaces]
DocBudget     == [uploads : Nat, reindexes : Nat, faults : Nat]

\* Before its chunks are inserted.
Preparing == {"mark", "find", "extract", "embed", "insert"}

Full(d)          == IF d \in Blank THEN 0 ELSE 1
Running(i, d)    == tasks[i].doc = d /\ tasks[i].pc # "done"
Works(q, d)      == request[q].doc = d /\ request[q].pc # "idle"
Restarting(q, d) == request[q].doc = d /\ request[q].pc = "restart"

\* One at a time rebuilds the chunks.
Lone(d) ==
    /\ \A i, j \in DOMAIN tasks : Running(i, d) /\ Running(j, d) => i = j
    /\ \A q, p \in Requests : Restarting(q, d) /\ Restarting(p, d) => q = p
    /\ \A i \in DOMAIN tasks, q \in Requests : ~(Running(i, d) /\ Restarting(q, d))

\* How many chunk sets there are at each step of it.
Staged(d) ==
    /\ \A i \in DOMAIN tasks : Running(i, d) =>
          /\ row[d] # "INDEXED"
          /\ tasks[i].pc \in Preparing => copies[d] = 0
          /\ tasks[i].pc = "index" /\ row[d] # "deleted" => copies[d] = Full(d)
    /\ \A q \in Requests : Restarting(q, d) => copies[d] = 0
    /\ copies[d] <= 1

\* A document that has not been created is known to its upload alone.
Begun(d) ==
    /\ row[d] = "absent" =>
          /\ \A i \in DOMAIN tasks : tasks[i].doc # d
          /\ \A q, p \in Requests : Works(q, d) /\ Works(p, d) => q = p
          /\ copies[d] = 0
    /\ \A q \in Requests : Works(q, d) =>
          (request[q].pc \in {"write", "create"} <=> row[d] = "absent")

Complete(d) ==
    row[d] = "INDEXED" =>
        \/ d \in tangled \/ d \in torn
        \/ \E q \in Requests : Restarting(q, d)
        \/ copies[d] = Full(d)

Gone(d) ==
    row[d] = "deleted" =>
        /\ copies[d] = 0
        /\ \/ ~file[d] \/ d \in litter
           \/ \E q \in Requests : request[q].doc = d /\ request[q].pc = "unlink"

DocOk(d) == /\ Begun(d) /\ Complete(d) /\ Gone(d)
            /\ d \notin tangled => Lone(d) /\ Staged(d)

DocInv == DocumentTypes /\ \A d \in Documents : DocOk(d)

---------------------------------------------------------------------------
(* Types, piece by piece.                                                   *)

LEMMA DocTyped ==
    ASSUME DocumentTypes
    PROVE  /\ row \in [Documents -> Status \cup {"absent", "deleted"}]
           /\ file \in [Documents -> BOOLEAN] /\ copies \in [Documents -> Nat]
           /\ tasks \in Seq(Tasks) /\ Len(tasks) \in Nat /\ DOMAIN tasks = 1..Len(tasks)
           /\ \A i \in DOMAIN tasks : tasks[i] \in Tasks
           /\ request \in [Requests -> Serving]
           /\ tangled \subseteq Documents /\ torn \subseteq Documents
           /\ lost \subseteq Documents /\ litter \subseteq Documents
           /\ docLeft \in DocBudget
<1>1. tasks \in Seq(Tasks)
  BY DEF DocumentTypes, Tasks, TaskPlaces
<1>2. Len(tasks) \in Nat /\ DOMAIN tasks = 1..Len(tasks)
      /\ \A i \in DOMAIN tasks : tasks[i] \in Tasks
  BY <1>1
<1>3. request \in [Requests -> Serving]
  BY DEF DocumentTypes, Serving, RequestPlaces
<1> QED
  BY <1>1, <1>2, <1>3 DEF DocumentTypes, DocBudget

LEMMA Spends == ASSUME DocumentTypes, DocFault PROVE docLeft' \in DocBudget
<1>1. docLeft.faults \in Nat /\ docLeft.faults > 0 /\ docLeft \in DocBudget
  BY DocTyped DEF DocFault, DocBudget
<1>2. docLeft.faults - 1 \in Nat
  BY <1>1
<1> QED
  BY <1>1, <1>2 DEF DocFault, DocBudget

LEMMA NoRequestTyped == NoRequest \in Serving /\ NoRequest.pc = "idle"
<1>1. (CHOOSE d \in Documents : TRUE) \in Documents
  BY DocumentsAssumption
<1> QED
  BY <1>1 DEF NoRequest, Serving, RequestPlaces

---------------------------------------------------------------------------
(* What a step may do, in parts: to the request q, to the task i, to the     *)
(* rest, always about one document e.                                       *)

RequestTo(q, x) ==
    /\ request' \in [Requests -> Serving] /\ request'[q] = x
    /\ \A p \in Requests \ {q} : request'[p] = request[p]

TaskTo(i, p) ==
    /\ tasks' \in Seq(Tasks) /\ DOMAIN tasks' = DOMAIN tasks
    /\ tasks'[i].doc = tasks[i].doc /\ tasks'[i].pc = p
    /\ \A j \in DOMAIN tasks \ {i} : tasks'[j] = tasks[j]

LEMMA AwaitTo ==
    ASSUME DocumentTypes, NEW q \in Requests, NEW p \in RequestPlaces, Await(q, p)
    PROVE  RequestTo(q, [request[q] EXCEPT !.pc = p])
<1>1. [request[q] EXCEPT !.pc = p] \in Serving
  BY DocTyped DEF Serving
<1> QED
  BY <1>1, DocTyped DEF Await, RequestTo

LEMMA AwaitAt ==
    ASSUME DocumentTypes, NEW q \in Requests, NEW p \in RequestPlaces,
           NEW e \in Documents, request[q].doc = e, Await(q, p)
    PROVE  /\ request' \in [Requests -> Serving]
           /\ request'[q].pc = p /\ request'[q].doc = e
           /\ \A r \in Requests \ {q} : request'[r] = request[r]
<1> DEFINE x == [request[q] EXCEPT !.pc = p]
<1>1. RequestTo(q, x)
  BY AwaitTo
<1>2. x.pc = p /\ x.doc = e
  BY DocTyped DEF Serving
<1> HIDE DEF x
<1> QED
  BY <1>1, <1>2 DEF RequestTo

LEMMA ReplyTo ==
    ASSUME DocumentTypes, NEW q \in Requests, Reply(q)
    PROVE  RequestTo(q, NoRequest)
BY NoRequestTyped, DocTyped DEF Reply, RequestTo

LEMMA StepTo ==
    ASSUME DocumentTypes, NEW i \in DOMAIN tasks, NEW p \in TaskPlaces, Step(i, p)
    PROVE  TaskTo(i, p)
<1> DEFINE t == [tasks[i] EXCEPT !.pc = p]
<1>1. t \in Tasks /\ t.pc = p /\ t.doc = tasks[i].doc
  BY DocTyped DEF Tasks
<1>2. tasks' = [tasks EXCEPT ![i] = t]
  BY DEF Step
<1> HIDE DEF t
<1> QED
  BY <1>1, <1>2, DocTyped DEF TaskTo

LEMMA StartTo ==
    ASSUME DocumentTypes, NEW d \in Documents, StartTask(d)
    PROVE  /\ tasks' \in Seq(Tasks) /\ DOMAIN tasks' = DOMAIN tasks \cup {Len(tasks) + 1}
           /\ Len(tasks) + 1 \notin DOMAIN tasks
           /\ tasks'[Len(tasks) + 1].doc = d /\ tasks'[Len(tasks) + 1].pc = "mark"
           /\ \A j \in DOMAIN tasks : tasks'[j] = tasks[j]
<1> DEFINE t == [doc |-> d, pc |-> "mark"]
<1>1. t \in Tasks /\ t.pc = "mark" /\ t.doc = d
  BY DEF Tasks, TaskPlaces
<1>2. tasks' = Append(tasks, t)
  BY DEF StartTask
<1> HIDE DEF t
<1> QED
  BY <1>1, <1>2, DocTyped

\* Documents other than e see nothing of a step about e.
About(e) ==
    /\ \A d \in Documents \ {e} :
          /\ row'[d] = row[d] /\ file'[d] = file[d] /\ copies'[d] = copies[d]
          /\ d \in tangled' <=> d \in tangled
          /\ d \in torn' <=> d \in torn
          /\ d \in litter' <=> d \in litter
    /\ \A i \in DOMAIN tasks' :
          tasks'[i].doc # e => i \in DOMAIN tasks /\ tasks'[i] = tasks[i]
    /\ \A i \in DOMAIN tasks :
          tasks[i].doc # e => i \in DOMAIN tasks' /\ tasks'[i] = tasks[i]
    /\ \A q \in Requests :
          \/ request'[q] = request[q]
          \/ /\ request'[q].pc = "idle" \/ request'[q].doc = e
             /\ request[q].pc = "idle" \/ request[q].doc = e

LEMMA Elsewhere ==
    ASSUME NEW e \in Documents, About(e), NEW d \in Documents \ {e}, DocOk(d)
    PROVE  DocOk(d)'
<1>1. /\ row'[d] = row[d] /\ file'[d] = file[d] /\ copies'[d] = copies[d]
      /\ d \in tangled' <=> d \in tangled
      /\ d \in torn' <=> d \in torn
      /\ d \in litter' <=> d \in litter
  BY DEF About
<1>2. \A q \in Requests : /\ Works(q, d)' <=> Works(q, d)
                          /\ Restarting(q, d)' <=> Restarting(q, d)
                          /\ Works(q, d) => request'[q] = request[q]
  BY DEF About, Works, Restarting
<1>3. \A i \in DOMAIN tasks' : tasks'[i].doc = d => i \in DOMAIN tasks /\ tasks'[i] = tasks[i]
  BY DEF About
<1>4. Begun(d)'
  BY <1>1, <1>2, <1>3 DEF DocOk, Begun
<1>5. Complete(d)'
  BY <1>1, <1>2 DEF DocOk, Complete, Full
<1>6. Gone(d)'
  BY <1>1, <1>2 DEF DocOk, Gone, Works
<1>7. d \notin tangled' => Lone(d)' /\ Staged(d)'
  <2>1. SUFFICES ASSUME d \notin tangled' PROVE Lone(d)' /\ Staged(d)'
    OBVIOUS
  <2>2. Lone(d) /\ Staged(d)
    BY <1>1, <2>1 DEF DocOk
  <2>3. \A i \in DOMAIN tasks' : Running(i, d)' =>
            i \in DOMAIN tasks /\ Running(i, d) /\ tasks'[i] = tasks[i]
    BY <1>3 DEF Running
  <2>4. Lone(d)'
    BY <1>2, <2>2, <2>3 DEF Lone
  <2>5. Staged(d)'
    BY <1>1, <1>2, <2>2, <2>3 DEF Staged, Full
  <2> QED
    BY <2>4, <2>5
<1> QED
  BY <1>4, <1>5, <1>6, <1>7 DEF DocOk

LEMMA Together ==
    ASSUME DocInv, DocumentTypes', NEW e \in Documents, About(e), DocOk(e)'
    PROVE  DocInv'
<1>1. ASSUME NEW d \in Documents PROVE DocOk(d)'
  <2>1. CASE d = e
    BY <2>1
  <2>2. CASE d # e
    BY <2>2, Elsewhere DEF DocInv
  <2> QED
    BY <2>1, <2>2
<1> QED
  BY <1>1 DEF DocInv

---------------------------------------------------------------------------
(* Steps of a request that touch the storage at most, and steps of an        *)
(* ingestion that touch the status at most.                                 *)

Storage(e) ==
    /\ file' \in [Documents -> BOOLEAN] /\ litter' \subseteq Documents
    /\ \A d \in Documents \ {e} :
          file'[d] = file[d] /\ (d \in litter' <=> d \in litter)
    /\ row[e] = "deleted" =>
          (file'[e] => file[e]) /\ (e \in litter => e \in litter')

\* A request may go to x, about the document e.
Goes(q, e, x) ==
    /\ request[q].pc = "idle" \/ request[q].doc = e
    /\ request[q].pc # "restart"
    /\ request[q].pc = "unlink" => ~file'[e] \/ e \in litter'
    /\ x.pc = "idle" \/ x.doc = e
    /\ x.pc # "restart"
    /\ x.pc # "idle" => (x.pc \in {"write", "create"} <=> row[e] = "absent")
    /\ x.pc # "idle" /\ row[e] = "absent" => \A p \in Requests \ {q} : ~Works(p, e)

LEMMA RequestMoves ==
    ASSUME DocInv, NEW q \in Requests, NEW e \in Documents, NEW x \in Serving,
           RequestTo(q, x), Goes(q, e, x), docLeft' \in DocBudget,
           Storage(e), UNCHANGED <<row, copies, tasks, tangled, torn, lost>>
    PROVE  DocInv'
<1>1. DocumentTypes /\ DocOk(e)
  BY DEF DocInv
<1>2. /\ row' = row /\ copies' = copies /\ tangled' = tangled
      /\ torn' = torn /\ tasks' = tasks /\ lost' = lost
  OBVIOUS
<1>3. DocumentTypes'
  BY <1>1, <1>2 DEF DocumentTypes, Storage, RequestTo, Serving, RequestPlaces, DocBudget
<1>4. \A p \in Requests \ {q} : request'[p] = request[p]
  BY DEF RequestTo
<1>5. request'[q] = x
  BY DEF RequestTo
<1>6. About(e)
  BY <1>2, <1>4, <1>5 DEF About, Storage, Goes
<1>7. \A p \in Requests : /\ Restarting(p, e)' => Restarting(p, e)
                          /\ Restarting(p, e) => Restarting(p, e)'
  BY <1>4, <1>5 DEF Restarting, Goes
<1>8. Begun(e)'
  <2>1. Begun(e)
    BY <1>1 DEF DocOk
  <2>2. ASSUME NEW p \in Requests, Works(p, e)'
        PROVE  request'[p].pc \in {"write", "create"} <=> row[e] = "absent"
    <3>1. CASE p = q
      BY <3>1, <2>2, <1>5 DEF Goes, Works
    <3>2. CASE p # q
      BY <3>2, <2>1, <2>2, <1>4 DEF Begun, Works
    <3> QED
      BY <3>1, <3>2
  <2>3. ASSUME row[e] = "absent", NEW p \in Requests, NEW r \in Requests,
               Works(p, e)', Works(r, e)'
        PROVE  p = r
    <3>1. CASE p = q \/ r = q
      BY <3>1, <2>3, <1>4, <1>5 DEF Goes, Works
    <3>2. CASE p # q /\ r # q
      BY <3>2, <2>3, <2>1, <1>4 DEF Begun, Works
    <3> QED
      BY <3>1, <3>2
  <2> QED
    BY <1>2, <2>1, <2>2, <2>3 DEF Begun
<1>9. Complete(e)'
  BY <1>1, <1>2, <1>7 DEF DocOk, Complete, Full
<1>10. Gone(e)'
  BY <1>1, <1>2, <1>4 DEF DocOk, Gone, Storage, Goes
<1>11. e \notin tangled => Lone(e)' /\ Staged(e)'
  <2>1. SUFFICES ASSUME Lone(e), Staged(e) PROVE Lone(e)' /\ Staged(e)'
    BY <1>1 DEF DocOk
  <2>2. Lone(e)'
    BY <1>2, <1>7, <2>1 DEF Lone, Running
  <2>3. Staged(e)'
    BY <1>2, <1>7, <2>1 DEF Staged, Running, Full
  <2> QED
    BY <2>2, <2>3
<1>12. DocOk(e)'
  BY <1>2, <1>8, <1>9, <1>10, <1>11 DEF DocOk
<1> QED
  BY <1>3, <1>6, <1>12, Together

StatusOf(e) ==
    /\ row' \in [Documents -> Status \cup {"absent", "deleted"}]
    /\ \A d \in Documents \ {e} : row'[d] = row[d]
    /\ row'[e] = row[e] \/ (Exists(e) /\ row'[e] \in {"PROCESSING", "FAILED"})

\* An ingestion may go to p.
Proceeds(i, p) ==
    /\ tasks[i].pc # "done"
    /\ p \in Preparing => tasks[i].pc \in Preparing
    /\ p = "index" => tasks[i].pc \in Preparing /\ tasks[i].doc \in Blank

LEMMA TaskMoves ==
    ASSUME DocInv, NEW i \in DOMAIN tasks, NEW p \in TaskPlaces,
           NEW e \in Documents, tasks[i].doc = e,
           TaskTo(i, p), Proceeds(i, p), docLeft' \in DocBudget, lost' \subseteq Documents,
           StatusOf(e), UNCHANGED <<file, copies, request, tangled, torn, litter>>
    PROVE  DocInv'
<1>1. DocumentTypes
  BY DEF DocInv
<1>2. DocOk(e)
  BY DEF DocInv
<1>3. /\ file' = file /\ copies' = copies /\ tangled' = tangled
      /\ torn' = torn /\ litter' = litter /\ request' = request
  OBVIOUS
<1>14. /\ row'[e] = row[e] \/ row'[e] \in {"PROCESSING", "FAILED"}
       /\ row'[e] = "absent" <=> row[e] = "absent"
       /\ row'[e] = "deleted" => row[e] = "deleted"
       /\ row'[e] = "deleted" \/ row[e] # "deleted"
  BY DEF StatusOf, Exists, Status
<1>15. /\ row' \in [Documents -> Status \cup {"absent", "deleted"}]
       /\ tasks' \in Seq(Tasks)
  BY DEF StatusOf, TaskTo
<1>4. DocumentTypes'
  BY <1>1, <1>3, <1>15 DEF DocumentTypes, Tasks, TaskPlaces, DocBudget
<1>5. DOMAIN tasks' = DOMAIN tasks /\ tasks'[i].doc = e /\ tasks'[i].pc = p
      /\ \A j \in DOMAIN tasks \ {i} : tasks'[j] = tasks[j]
  BY DEF TaskTo
<1>6. \A j \in DOMAIN tasks : tasks'[j].doc = tasks[j].doc
                              /\ (tasks'[j].doc = e /\ tasks'[j].pc # "done" => Running(j, e))
  BY <1>5 DEF Running, Proceeds
<1>7. Running(i, e)
  BY DEF Running, Proceeds
<1>8. About(e)
  BY <1>3, <1>5 DEF About, StatusOf
<1>9. Begun(e)'
  BY <1>2, <1>3, <1>14, <1>5, <1>6 DEF DocOk, Begun, Works
<1>10. Complete(e)'
  BY <1>2, <1>3, <1>14 DEF DocOk, Complete, Full, Restarting
<1>11. Gone(e)'
  BY <1>2, <1>3, <1>14 DEF DocOk, Gone
<1>12. e \notin tangled => Lone(e)' /\ Staged(e)'
  <2>1. SUFFICES ASSUME e \notin tangled, Lone(e), Staged(e) PROVE Lone(e)' /\ Staged(e)'
    BY <1>2 DEF DocOk
  <2>2. Lone(e)'
    BY <1>3, <1>5, <1>6, <2>1 DEF Lone, Running, Restarting
  <2>3. \A j \in DOMAIN tasks : Running(j, e)' => j = i
    BY <1>6, <1>7, <2>1 DEF Lone, Running
  <2>4. row[e] # "INDEXED" /\ (tasks[i].pc \in Preparing => copies[e] = 0)
    BY <1>7, <2>1 DEF Staged
  <2>5. /\ p \in Preparing => copies[e] = 0
        /\ p = "index" => copies[e] = Full(e)
    BY <2>1, <2>4 DEF Proceeds, Full
  <2>6. Staged(e)'
    BY <1>3, <1>14, <1>5, <2>1, <2>3, <2>4, <2>5 DEF Staged, Running, Restarting, Full
  <2> QED
    BY <2>2, <2>6
<1>13. DocOk(e)'
  BY <1>3, <1>9, <1>10, <1>11, <1>12 DEF DocOk
<1> QED
  BY <1>4, <1>8, <1>13, Together

---------------------------------------------------------------------------
(* Each operation keeps DocInv: the requests.                               *)

LEMMA StorageKept ==
    ASSUME DocumentTypes, UNCHANGED <<file, litter>>, NEW e \in Documents
    PROVE  Storage(e)
BY DocTyped DEF Storage

LEMMA UploadKeeps ==
    ASSUME DocInv, NEW q \in Requests, NEW e \in Documents, Upload(q, e)
    PROVE  DocInv'
<1> DEFINE x == [pc |-> "write", doc |-> e]
<1>1. x \in Serving /\ x.pc = "write" /\ x.doc = e
  BY DEF Serving, RequestPlaces
<1>2. DocumentTypes
  BY DEF DocInv
<1>3. request' = [request EXCEPT ![q] = x]
  BY DEF Upload
<1> HIDE DEF x
<1>4. RequestTo(q, x)
  BY <1>1, <1>2, <1>3, DocTyped DEF RequestTo
<1>5. Goes(q, e, x)
  BY <1>1 DEF Upload, Goes, AtReq, Works
<1>6. docLeft' \in DocBudget
  <2>1. docLeft \in DocBudget /\ docLeft.uploads > 0
        /\ docLeft' = [docLeft EXCEPT !.uploads = @ - 1]
    BY <1>2, DocTyped DEF Upload
  <2>2. docLeft.uploads - 1 \in Nat
    BY <2>1 DEF DocBudget
  <2> QED
    BY <2>1, <2>2 DEF DocBudget
<1>7. UNCHANGED <<row, file, copies, tasks, tangled, torn, lost, litter>>
  BY DEF Upload
<1>8. Storage(e)
  BY <1>2, <1>7, StorageKept
<1> QED
  BY <1>1, <1>4, <1>5, <1>6, <1>7, <1>8, RequestMoves

LEMMA AskKeeps ==
    ASSUME DocInv, NEW q \in Requests, NEW p \in {"reindex", "delete"},
           NEW e \in Documents, Ask(q, p, e)
    PROVE  DocInv'
<1> DEFINE x == [pc |-> p, doc |-> e]
<1>1. x \in Serving /\ x.pc = p /\ x.doc = e
  BY DEF Serving, RequestPlaces
<1>2. DocumentTypes
  BY DEF DocInv
<1>3. request' = [request EXCEPT ![q] = x]
  BY DEF Ask
<1> HIDE DEF x
<1>4. RequestTo(q, x)
  BY <1>1, <1>2, <1>3, DocTyped DEF RequestTo
<1>5. Goes(q, e, x)
  BY <1>1 DEF Ask, Goes, AtReq
<1>6. docLeft' \in DocBudget
  <2>1. docLeft \in DocBudget
    BY <1>2, DocTyped
  <2>2. CASE p = "delete"
    BY <2>1, <2>2 DEF Ask
  <2>3. CASE p = "reindex"
    <3>1. docLeft.reindexes > 0 /\ docLeft' = [docLeft EXCEPT !.reindexes = @ - 1]
      BY <2>3 DEF Ask
    <3>2. docLeft.reindexes - 1 \in Nat
      BY <2>1, <3>1 DEF DocBudget
    <3> QED
      BY <2>1, <3>1, <3>2 DEF DocBudget
  <2> QED
    BY <2>2, <2>3
<1>7. UNCHANGED <<row, file, copies, tasks, tangled, torn, lost, litter>>
  BY DEF Ask
<1>8. Storage(e)
  BY <1>2, <1>7, StorageKept
<1> QED
  BY <1>1, <1>4, <1>5, <1>6, <1>7, <1>8, RequestMoves

\* A request that is answered, whatever its operation had left in the storage.
LEMMA Answered ==
    ASSUME DocInv, NEW q \in Requests, NEW e \in Documents, request[q].doc = e, Reply(q),
           request[q].pc \notin {"restart"},
           request[q].pc = "unlink" => ~file'[e] \/ e \in litter',
           docLeft' \in DocBudget,
           Storage(e), UNCHANGED <<row, copies, tasks, tangled, torn, lost>>
    PROVE  DocInv'
<1>1. RequestTo(q, NoRequest)
  BY ReplyTo DEF DocInv
<1>2. Goes(q, e, NoRequest)
  BY NoRequestTyped DEF Goes
<1> QED
  BY <1>1, <1>2, NoRequestTyped, RequestMoves

\* A request that goes on to its next await.
LEMMA GoesOn ==
    ASSUME DocInv, NEW q \in Requests, NEW e \in Documents, request[q].doc = e,
           NEW p \in RequestPlaces \ {"idle", "restart"}, Await(q, p),
           request[q].pc \notin {"idle", "restart", "unlink"},
           p \in {"write", "create"} <=> row[e] = "absent",
           docLeft' \in DocBudget,
           Storage(e), UNCHANGED <<row, copies, tasks, tangled, torn, lost>>
    PROVE  DocInv'
<1> DEFINE x == [request[q] EXCEPT !.pc = p]
<1>1. RequestTo(q, x)
  BY AwaitTo DEF DocInv
<1>2. x \in Serving /\ x.pc = p /\ x.doc = e
  BY DocTyped DEF DocInv, Serving
<1> HIDE DEF x
<1>3. row[e] = "absent" => \A r \in Requests \ {q} : ~Works(r, e)
  BY DEF DocInv, DocOk, Begun, Works
<1>4. Goes(q, e, x)
  BY <1>2, <1>3 DEF Goes
<1>5. PICK y \in Serving : y = x
  BY <1>2
<1> QED
  BY <1>1, <1>4, <1>5, RequestMoves

LEMMA FindKeeps ==
    ASSUME DocInv, NEW q \in Requests, NEW p \in {"reindex", "delete"},
           NEW next \in {"clear", "remove"}, FindDocument(q, p, next)
    PROVE  DocInv'
<1>1. DocumentTypes /\ request[q].pc = p
  BY DEF DocInv, FindDocument, AtReq
<1>2. PICK e \in Documents : request[q].doc = e
  BY <1>1, DocTyped DEF Serving
<1>3. UNCHANGED <<row, file, copies, tasks, tangled, torn, lost, litter, docLeft>>
  BY DEF FindDocument
<1>4. Storage(e) /\ docLeft' \in DocBudget
  BY <1>1, <1>3, StorageKept, DocTyped
<1>5. CASE Exists(e)
  <2>1. Await(q, next) /\ row[e] # "absent"
    BY <1>2, <1>5 DEF FindDocument, Exists, Status
  <2>2. next \in RequestPlaces \ {"idle", "restart"} /\ next \notin {"write", "create"}
    BY DEF RequestPlaces
  <2> QED
    BY <1>1, <1>2, <1>3, <1>4, <2>1, <2>2, GoesOn
<1>6. CASE ~Exists(e)
  <2>1. Reply(q)
    BY <1>2, <1>6 DEF FindDocument
  <2> QED
    BY <1>1, <1>2, <1>3, <1>4, <2>1, Answered
<1> QED
  BY <1>5, <1>6

LEMMA WriteKeeps ==
    ASSUME DocInv, NEW q \in Requests, WriteFile(q) PROVE DocInv'
<1>1. DocumentTypes /\ request[q].pc = "write"
  BY DEF DocInv, WriteFile, AtReq
<1>2. PICK e \in Documents : request[q].doc = e
  BY <1>1, DocTyped DEF Serving
<1>3. UNCHANGED <<row, copies, tasks, tangled, torn, lost, litter>>
  BY DEF WriteFile
<1>4. row[e] = "absent"
  BY <1>1, <1>2 DEF DocInv, DocOk, Begun, Works
<1>5. CASE file' = [file EXCEPT ![e] = TRUE] /\ Await(q, "create") /\ UNCHANGED docLeft
  <2>1. Storage(e)
    BY <1>1, <1>3, <1>4, <1>5, DocTyped DEF Storage
  <2>2. docLeft' \in DocBudget /\ "create" \in RequestPlaces \ {"idle", "restart"}
    BY <1>1, <1>5, DocTyped DEF RequestPlaces
  <2> QED
    BY <1>1, <1>2, <1>3, <1>4, <1>5, <2>1, <2>2, GoesOn
<1>6. CASE DocFault /\ Reply(q) /\ UNCHANGED file
  <2>1. Storage(e) /\ docLeft' \in DocBudget
    BY <1>1, <1>3, <1>6, StorageKept, Spends
  <2> QED
    BY <1>1, <1>2, <1>3, <1>6, <2>1, Answered
<1> QED
  BY <1>2, <1>5, <1>6 DEF WriteFile

LEMMA UnlinkKeeps ==
    ASSUME DocInv, NEW q \in Requests, Unlink(q) PROVE DocInv'
<1>1. DocumentTypes /\ request[q].pc = "unlink" /\ Reply(q)
  BY DEF DocInv, Unlink, AtReq
<1>2. PICK e \in Documents : request[q].doc = e
  BY <1>1, DocTyped DEF Serving
<1>3. UNCHANGED <<row, copies, tasks, tangled, torn, lost>>
  BY DEF Unlink
<1>4. CASE file' = [file EXCEPT ![e] = FALSE] /\ UNCHANGED <<litter, docLeft>>
  <2>1. Storage(e) /\ docLeft' \in DocBudget /\ ~file'[e]
    BY <1>1, <1>4, DocTyped DEF Storage
  <2> QED
    BY <1>1, <1>2, <1>3, <2>1, Answered
<1>5. CASE DocFault /\ litter' = litter \cup {e} /\ UNCHANGED file
  <2>1. Storage(e) /\ docLeft' \in DocBudget /\ e \in litter'
    BY <1>1, <1>5, DocTyped, Spends DEF Storage
  <2> QED
    BY <1>1, <1>2, <1>3, <2>1, Answered
<1> QED
  BY <1>2, <1>4, <1>5 DEF Unlink

\* An ingestion starts: for the upload that has created the row, or for the
\* reindex that has cleared the chunks.
LEMMA Starts ==
    ASSUME DocInv, NEW q \in Requests, NEW e \in Documents, request[q].doc = e, Reply(q),
           \/ request[q].pc = "create"
           \/ request[q].pc = "restart" /\ row[e] # "absent",
           StartTask(e), row' = [row EXCEPT ![e] = "UPLOADED"],
           torn' \subseteq Documents, \A d \in Documents \ {e} : d \in torn' <=> d \in torn,
           lost' \subseteq Documents, docLeft' \in DocBudget,
           UNCHANGED <<file, copies, tangled, litter>>
    PROVE  DocInv'
<1>1. DocumentTypes /\ DocOk(e)
  BY DEF DocInv
<1>2. file' = file /\ copies' = copies /\ tangled' = tangled /\ litter' = litter
  OBVIOUS
<1>3. /\ row' \in [Documents -> Status \cup {"absent", "deleted"}]
      /\ row'[e] = "UPLOADED" /\ \A d \in Documents \ {e} : row'[d] = row[d]
  BY <1>1, DocTyped DEF Status
<1>4. /\ request' \in [Requests -> Serving] /\ request'[q].pc = "idle"
      /\ \A p \in Requests \ {q} : request'[p] = request[p]
  BY <1>1, ReplyTo, NoRequestTyped DEF RequestTo
<1>5. PICK n : /\ tasks' \in Seq(Tasks) /\ DOMAIN tasks' = DOMAIN tasks \cup {n}
               /\ n \notin DOMAIN tasks /\ tasks'[n].doc = e /\ tasks'[n].pc = "mark"
               /\ \A j \in DOMAIN tasks : tasks'[j] = tasks[j]
  BY <1>1, StartTo
<1>6. DocumentTypes'
  BY <1>1, <1>2, <1>3, <1>4, <1>5
  DEF DocumentTypes, Tasks, TaskPlaces, Serving, RequestPlaces, DocBudget
<1>7. About(e)
  BY <1>2, <1>3, <1>4, <1>5 DEF About
<1>8. /\ row[e] = "absent" <=> request[q].pc = "create"
      /\ \A p \in Requests \ {q} : Works(p, e) =>
             row[e] # "absent" /\ request[p].pc \notin {"write", "create"}
  BY <1>1 DEF DocOk, Begun, Works
<1>9. e \notin tangled =>
         /\ copies[e] = 0
         /\ \A i \in DOMAIN tasks : ~Running(i, e)
         /\ \A p \in Requests \ {q} : ~Restarting(p, e)
  <2>1. CASE request[q].pc = "create"
    BY <1>1, <1>8, <2>1 DEF DocOk, Begun, Running, Restarting, Works
  <2>2. CASE request[q].pc = "restart"
    BY <1>1, <2>2 DEF DocOk, Lone, Staged, Restarting
  <2> QED
    BY <2>1, <2>2
<1>10. Begun(e)'
  BY <1>3, <1>4, <1>8 DEF Begun, Works
<1>11. Complete(e)' /\ Gone(e)'
  BY <1>3 DEF Complete, Gone
<1>12. ASSUME e \notin tangled PROVE Lone(e)' /\ Staged(e)'
  <2>1. \A p \in Requests : ~Restarting(p, e)'
    BY <1>4, <1>9, <1>12 DEF Restarting
  <2>2. \A i \in DOMAIN tasks' : Running(i, e)' => i = n
    BY <1>5, <1>9, <1>12 DEF Running
  <2>3. Lone(e)'
    BY <2>1, <2>2 DEF Lone
  <2>4. Staged(e)'
    BY <1>2, <1>3, <1>5, <1>9, <1>12, <2>1, <2>2 DEF Staged, Full, Preparing
  <2> QED
    BY <2>3, <2>4
<1>13. DocOk(e)'
  BY <1>2, <1>10, <1>11, <1>12 DEF DocOk
<1> QED
  BY <1>6, <1>7, <1>13, Together

LEMMA CreateKeeps ==
    ASSUME DocInv, NEW q \in Requests, CreateRow(q) PROVE DocInv'
<1>1. DocumentTypes /\ request[q].pc = "create" /\ Reply(q)
  BY DEF DocInv, CreateRow, AtReq
<1>2. PICK e \in Documents : request[q].doc = e
  BY <1>1, DocTyped DEF Serving
<1>3. UNCHANGED <<file, copies, tangled, torn, lost>>
  BY DEF CreateRow
<1>4. row[e] = "absent"
  BY <1>1, <1>2 DEF DocInv, DocOk, Begun, Works
<1>5. CASE row' = [row EXCEPT ![e] = "UPLOADED"] /\ StartTask(e) /\ UNCHANGED <<litter, docLeft>>
  <2>1. docLeft' \in DocBudget /\ torn' \subseteq Documents /\ lost' \subseteq Documents
        /\ torn' = torn
    BY <1>1, <1>3, <1>5, DocTyped
  <2> QED
    BY <1>1, <1>2, <1>3, <1>5, <2>1, Starts
<1>6. CASE DocFault /\ litter' = litter \cup {e} /\ UNCHANGED <<row, tasks>>
  <2>1. Storage(e) /\ docLeft' \in DocBudget
    BY <1>1, <1>3, <1>6, DocTyped, Spends DEF Storage
  <2> QED
    BY <1>1, <1>2, <1>3, <1>6, <2>1, Answered
<1> QED
  BY <1>2, <1>5, <1>6 DEF CreateRow

LEMMA ClearKeeps ==
    ASSUME DocInv, NEW q \in Requests, ClearChunks(q) PROVE DocInv'
<1>1. DocumentTypes /\ request[q].pc = "clear"
  BY DEF DocInv, ClearChunks, AtReq
<1>2. PICK e \in Documents : request[q].doc = e
  BY <1>1, DocTyped DEF Serving
<1>3. /\ row' = row /\ file' = file /\ tasks' = tasks
      /\ torn' = torn /\ lost' = lost /\ litter' = litter
  BY DEF ClearChunks
<1>4. CASE DocFault /\ Reply(q) /\ UNCHANGED <<copies, tangled>>
  <2>1. Storage(e) /\ docLeft' \in DocBudget
    BY <1>1, <1>3, <1>4, StorageKept, Spends
  <2> QED
    BY <1>1, <1>2, <1>3, <1>4, <2>1, Answered
<1>5. CASE /\ copies' = [copies EXCEPT ![e] = Cleared(@)]
           /\ tangled' = IF Rebuilding(e) THEN tangled \cup {e} ELSE tangled
           /\ Await(q, "restart") /\ UNCHANGED docLeft
  <2>1. DocOk(e)
    BY DEF DocInv
  <2>2. /\ copies' \in [Documents -> Nat] /\ copies'[e] = 0
        /\ \A d \in Documents \ {e} : copies'[d] = copies[d]
    BY <1>1, <1>5, DocTyped DEF Cleared
  <2>3. /\ tangled' \subseteq Documents
        /\ \A d \in Documents \ {e} : d \in tangled' <=> d \in tangled
        /\ e \notin tangled' => e \notin tangled /\ ~Rebuilding(e)
    BY <1>1, <1>5, DocTyped
  <2>4. "restart" \in RequestPlaces
    BY DEF RequestPlaces
  <2>5. /\ request' \in [Requests -> Serving]
        /\ request'[q].pc = "restart" /\ request'[q].doc = e
        /\ \A p \in Requests \ {q} : request'[p] = request[p]
    BY <1>1, <1>2, <1>5, <2>4, AwaitAt
  <2>6. DocumentTypes'
    BY <1>1, <1>3, <1>5, <2>2, <2>3, <2>5 DEF DocumentTypes, Serving, RequestPlaces
  <2>7. About(e)
    BY <1>2, <1>3, <2>2, <2>3, <2>5 DEF About
  <2>8. row[e] # "absent"
    BY <1>1, <1>2, <2>1 DEF DocOk, Begun, Works
  <2>9. Begun(e)'
    BY <1>3, <2>1, <2>5, <2>8 DEF DocOk, Begun, Works
  <2>10. Complete(e)'
    BY <2>5 DEF Complete, Restarting
  <2>11. Gone(e)'
    BY <1>1, <1>3, <2>1, <2>2, <2>5 DEF DocOk, Gone
  <2>12. ASSUME e \notin tangled' PROVE Lone(e)' /\ Staged(e)'
    <3>1. /\ \A i \in DOMAIN tasks' : ~Running(i, e)'
          /\ \A p \in Requests \ {q} : ~Restarting(p, e)'
      BY <1>3, <2>3, <2>5, <2>12 DEF Rebuilding, Running, Restarting, AtReq
    <3> QED
      BY <2>2, <3>1 DEF Lone, Staged
  <2>13. DocOk(e)'
    BY <2>9, <2>10, <2>11, <2>12 DEF DocOk
  <2> QED
    BY <2>6, <2>7, <2>13, Together
<1> QED
  BY <1>2, <1>4, <1>5 DEF ClearChunks

LEMMA RestartKeeps ==
    ASSUME DocInv, NEW q \in Requests, Restart(q) PROVE DocInv'
<1>1. DocumentTypes /\ request[q].pc = "restart" /\ Reply(q)
  BY DEF DocInv, Restart, AtReq
<1>2. PICK e \in Documents : request[q].doc = e
  BY <1>1, DocTyped DEF Serving
<1>3. /\ file' = file /\ copies' = copies /\ tangled' = tangled /\ litter' = litter
  BY DEF Restart
<1>4. DocOk(e)
  BY DEF DocInv
<1>5. row[e] # "absent"
  BY <1>1, <1>2, <1>4 DEF DocOk, Begun, Works
<1>6. CASE /\ Exists(e) /\ row' = [row EXCEPT ![e] = "UPLOADED"] /\ StartTask(e)
           /\ torn' = torn \ {e} /\ lost' = lost \ {e} /\ UNCHANGED docLeft
  <2>1. /\ torn' \subseteq Documents /\ lost' \subseteq Documents /\ docLeft' \in DocBudget
        /\ \A d \in Documents \ {e} : d \in torn' <=> d \in torn
    BY <1>1, <1>6, DocTyped
  <2> QED
    BY <1>1, <1>2, <1>3, <1>5, <1>6, <2>1, Starts
<1>7. ASSUME UNCHANGED <<row, tasks, lost>>, docLeft' \in DocBudget,
             \/ torn' = torn /\ ~Exists(e)
             \/ torn' = torn \cup {e}
      PROVE  DocInv'
  <2>1. row' = row /\ tasks' = tasks /\ lost' = lost
    BY <1>7
  <2>2. /\ torn' \subseteq Documents /\ \A d \in Documents \ {e} : d \in torn' <=> d \in torn
        /\ e \in torn' \/ row[e] # "INDEXED"
    BY <1>1, <1>7, DocTyped DEF Exists, Status
  <2>3. /\ request' \in [Requests -> Serving] /\ request'[q].pc = "idle"
        /\ \A p \in Requests \ {q} : request'[p] = request[p]
    BY <1>1, ReplyTo, NoRequestTyped DEF RequestTo
  <2>4. DocumentTypes'
    BY <1>1, <1>3, <1>7, <2>1, <2>2, <2>3
    DEF DocumentTypes, Serving, RequestPlaces, DocBudget
  <2>5. About(e)
    BY <1>2, <1>3, <2>1, <2>2, <2>3 DEF About
  <2>6. Begun(e)'
    BY <1>3, <1>4, <1>5, <2>1, <2>3 DEF DocOk, Begun, Works
  <2>7. Complete(e)'
    BY <2>1, <2>2 DEF Complete
  <2>8. Gone(e)'
    BY <1>1, <1>3, <1>4, <2>1, <2>3 DEF DocOk, Gone
  <2>9. ASSUME e \notin tangled PROVE Lone(e)' /\ Staged(e)'
    <3>1. Lone(e) /\ Staged(e)
      BY <1>4, <2>9 DEF DocOk
    <3>2. \A p \in Requests : Restarting(p, e)' => Restarting(p, e)
      BY <2>3 DEF Restarting
    <3>3. Lone(e)'
      BY <2>1, <3>1, <3>2 DEF Lone, Running
    <3>4. Staged(e)'
      BY <1>3, <2>1, <3>1, <3>2 DEF Staged, Running, Full
    <3> QED
      BY <3>3, <3>4
  <2>10. DocOk(e)'
    BY <1>3, <2>6, <2>7, <2>8, <2>9 DEF DocOk
  <2> QED
    BY <2>4, <2>5, <2>10, Together
<1>8. CASE ~Exists(e) /\ UNCHANGED <<row, tasks, torn, lost, docLeft>>
  BY <1>1, <1>7, <1>8, DocTyped
<1>9. CASE DocFault /\ torn' = torn \cup {e} /\ UNCHANGED <<row, tasks, lost>>
  BY <1>1, <1>7, <1>9, Spends
<1> QED
  BY <1>2, <1>6, <1>8, <1>9 DEF Restart

LEMMA RemoveKeeps ==
    ASSUME DocInv, NEW q \in Requests, RemoveRow(q) PROVE DocInv'
<1>1. DocumentTypes /\ request[q].pc = "remove"
  BY DEF DocInv, RemoveRow, AtReq
<1>2. PICK e \in Documents : request[q].doc = e
  BY <1>1, DocTyped DEF Serving
<1>3. /\ file' = file /\ tasks' = tasks /\ tangled' = tangled
      /\ torn' = torn /\ lost' = lost /\ litter' = litter
  BY DEF RemoveRow
<1>4. ASSUME Reply(q), UNCHANGED <<row, copies>>, docLeft' \in DocBudget PROVE DocInv'
  <2>1. Storage(e)
    BY <1>1, <1>3, StorageKept
  <2> QED
    BY <1>1, <1>2, <1>3, <1>4, <2>1, Answered
<1>5. CASE /\ Exists(e) /\ row' = [row EXCEPT ![e] = "deleted"]
           /\ copies' = [copies EXCEPT ![e] = Cascaded(@)]
           /\ Await(q, "unlink") /\ UNCHANGED docLeft
  <2>1. DocOk(e)
    BY DEF DocInv
  <2>2. /\ copies' \in [Documents -> Nat] /\ copies'[e] = 0
        /\ \A d \in Documents \ {e} : copies'[d] = copies[d]
    BY <1>1, <1>5, DocTyped DEF Cascaded
  <2>3. /\ row' \in [Documents -> Status \cup {"absent", "deleted"}]
        /\ row'[e] = "deleted" /\ \A d \in Documents \ {e} : row'[d] = row[d]
    BY <1>1, <1>5, DocTyped
  <2>4. "unlink" \in RequestPlaces
    BY DEF RequestPlaces
  <2>5. /\ request' \in [Requests -> Serving]
        /\ request'[q].pc = "unlink" /\ request'[q].doc = e
        /\ \A p \in Requests \ {q} : request'[p] = request[p]
    BY <1>1, <1>2, <1>5, <2>4, AwaitAt
  <2>6. DocumentTypes'
    BY <1>1, <1>3, <1>5, <2>2, <2>3, <2>5 DEF DocumentTypes, Serving, RequestPlaces
  <2>7. About(e)
    BY <1>2, <1>3, <2>2, <2>3, <2>5 DEF About
  <2>8. row[e] # "absent"
    BY <1>5 DEF Exists, Status
  <2>9. Begun(e)'
    BY <2>1, <2>3, <2>5, <2>8 DEF DocOk, Begun, Works
  <2>10. Complete(e)' /\ Gone(e)'
    BY <2>2, <2>3, <2>5 DEF Complete, Gone
  <2>11. ASSUME e \notin tangled PROVE Lone(e)' /\ Staged(e)'
    <3>1. Lone(e) /\ Staged(e)
      BY <2>1, <2>11 DEF DocOk
    <3>2. \A p \in Requests : Restarting(p, e)' => Restarting(p, e)
      BY <2>5 DEF Restarting
    <3>3. Lone(e)'
      BY <1>3, <3>1, <3>2 DEF Lone, Running
    <3>4. Staged(e)'
      BY <1>3, <2>2, <2>3, <3>1 DEF Staged, Running
    <3> QED
      BY <3>3, <3>4
  <2>12. DocOk(e)'
    BY <1>3, <2>9, <2>10, <2>11 DEF DocOk
  <2> QED
    BY <2>6, <2>7, <2>12, Together
<1>6. CASE ~Exists(e) /\ Reply(q) /\ UNCHANGED <<row, copies, docLeft>>
  BY <1>1, <1>4, <1>6, DocTyped
<1>7. CASE DocFault /\ Reply(q) /\ UNCHANGED <<row, copies>>
  BY <1>1, <1>4, <1>7, Spends
<1> QED
  BY <1>2, <1>5, <1>6, <1>7 DEF RemoveRow

---------------------------------------------------------------------------
(* The ingestions.                                                          *)

LEMMA StatusKept ==
    ASSUME DocumentTypes, NEW e \in Documents, UNCHANGED row
    PROVE  StatusOf(e)
BY DocTyped DEF StatusOf

LEMMA StatusSet ==
    ASSUME DocumentTypes, NEW e \in Documents, Exists(e),
           NEW s \in {"PROCESSING", "FAILED"}, row' = [row EXCEPT ![e] = s]
    PROVE  StatusOf(e)
BY DocTyped DEF StatusOf, Status

LEMMA MarkKeeps ==
    ASSUME DocInv, NEW i \in DOMAIN tasks, Mark(i) PROVE DocInv'
<1>1. DocumentTypes /\ tasks[i].pc = "mark"
  BY DEF DocInv, Mark, AtTask
<1>2. PICK e \in Documents : tasks[i].doc = e
  BY <1>1, DocTyped DEF Tasks
<1>3. UNCHANGED <<file, copies, request, tangled, torn, litter>>
  BY DEF Mark
<1>4. ASSUME NEW p \in {"find", "done"}, Step(i, p), StatusOf(e), lost' \subseteq Documents,
             docLeft' \in DocBudget
      PROVE  DocInv'
  <2>1. p \in TaskPlaces
    BY DEF TaskPlaces
  <2>2. TaskTo(i, p) /\ Proceeds(i, p)
    BY <1>1, <1>4, <2>1, StepTo DEF Proceeds, Preparing
  <2> QED
    BY <1>2, <1>3, <1>4, <2>1, <2>2, TaskMoves
<1>5. CASE /\ Exists(e) /\ row' = [row EXCEPT ![e] = "PROCESSING"]
           /\ Step(i, "find") /\ UNCHANGED <<lost, docLeft>>
  BY <1>1, <1>4, <1>5, StatusSet, DocTyped
<1>6. CASE ~Exists(e) /\ Step(i, "done") /\ UNCHANGED <<row, lost, docLeft>>
  BY <1>1, <1>4, <1>6, StatusKept, DocTyped
<1>7. CASE DocFault /\ Step(i, "done") /\ lost' = lost \cup {e} /\ UNCHANGED row
  BY <1>1, <1>4, <1>7, StatusKept, Spends, DocTyped
<1> QED
  BY <1>2, <1>5, <1>6, <1>7 DEF Mark

LEMMA MarkFailedKeeps ==
    ASSUME DocInv, NEW i \in DOMAIN tasks, MarkFailed(i) PROVE DocInv'
<1>1. DocumentTypes /\ tasks[i].pc = "fail" /\ Step(i, "done")
  BY DEF DocInv, MarkFailed, AtTask
<1>2. PICK e \in Documents : tasks[i].doc = e
  BY <1>1, DocTyped DEF Tasks
<1>3. UNCHANGED <<file, copies, request, tangled, torn, litter>>
  BY DEF MarkFailed
<1>4. "done" \in TaskPlaces
  BY DEF TaskPlaces
<1>5. TaskTo(i, "done") /\ Proceeds(i, "done")
  BY <1>1, <1>4, StepTo DEF Proceeds, Preparing
<1>6. StatusOf(e) /\ lost' \subseteq Documents /\ docLeft' \in DocBudget
  <2>1. CASE Exists(e) /\ row' = [row EXCEPT ![e] = FailedStatus] /\ UNCHANGED <<lost, docLeft>>
    BY <1>1, <2>1, StatusSet, DocTyped DEF FailedStatus
  <2>2. CASE ~Exists(e) /\ UNCHANGED <<row, lost, docLeft>>
    BY <1>1, <2>2, StatusKept, DocTyped
  <2>3. CASE DocFault /\ lost' = lost \cup {e} /\ UNCHANGED row
    BY <1>1, <2>3, StatusKept, Spends, DocTyped
  <2> QED
    BY <1>2, <2>1, <2>2, <2>3 DEF MarkFailed
<1> QED
  BY <1>2, <1>3, <1>4, <1>5, <1>6, TaskMoves

\* What changes nothing but the place of the ingestion.
LEMMA PlaceKeeps ==
    ASSUME DocInv, NEW i \in DOMAIN tasks, NEW p \in TaskPlaces, Step(i, p), Proceeds(i, p),
           docLeft' \in DocBudget,
           UNCHANGED <<row, file, copies, request, tangled, torn, lost, litter>>
    PROVE  DocInv'
<1>1. DocumentTypes
  BY DEF DocInv
<1>2. PICK e \in Documents : tasks[i].doc = e
  BY <1>1, DocTyped DEF Tasks
<1>3. StatusOf(e) /\ lost' \subseteq Documents
  BY <1>1, StatusKept, DocTyped
<1> QED
  BY <1>1, <1>2, <1>3, StepTo, TaskMoves

LEMMA ReadingKeeps ==
    ASSUME DocInv, NEW i \in DOMAIN tasks,
           FindRow(i) \/ Extract(i) \/ Embed(i) \/ Throws(i)
    PROVE  DocInv'
<1>1. DocumentTypes /\ docLeft \in DocBudget
  BY DocTyped DEF DocInv
<1>2. UNCHANGED <<row, file, copies, request, tangled, torn, lost, litter>>
  BY DEF FindRow, Extract, Embed, Throws
<1>3. docLeft' \in DocBudget
  BY <1>1, Spends DEF FindRow, Extract, Embed, Throws
<1>4. PICK p \in TaskPlaces : Step(i, p) /\ Proceeds(i, p)
  <2>1. CASE FindRow(i)
    BY <2>1 DEF FindRow, AtTask, Proceeds, Preparing, TaskPlaces
  <2>2. CASE Extract(i)
    BY <2>2, DocumentsAssumption DEF Extract, AtTask, FirstStep, Proceeds, Preparing, TaskPlaces
  <2>3. CASE Embed(i)
    BY <2>3 DEF Embed, AtTask, Proceeds, Preparing, TaskPlaces
  <2>4. CASE Throws(i)
    BY <2>4 DEF Throws, Proceeds, Preparing, TaskPlaces
  <2> QED
    BY <2>1, <2>2, <2>3, <2>4
<1> QED
  BY <1>2, <1>3, <1>4, PlaceKeeps

LEMMA InsertKeeps ==
    ASSUME DocInv, NEW i \in DOMAIN tasks, InsertChunks(i) PROVE DocInv'
<1>1. DocumentTypes /\ tasks[i].pc = "insert" /\ docLeft' \in DocBudget
  BY DocTyped DEF DocInv, InsertChunks, AtTask
<1>2. PICK e \in Documents : tasks[i].doc = e
  BY <1>1, DocTyped DEF Tasks
<1>3. /\ row' = row /\ file' = file /\ request' = request /\ tangled' = tangled
      /\ torn' = torn /\ lost' = lost /\ litter' = litter
  BY DEF InsertChunks
<1>6. CASE e \in Blank
  <2>1. "index" \in TaskPlaces /\ Step(i, "index") /\ copies' = copies
    BY <1>2, <1>6 DEF InsertChunks, TaskPlaces
  <2>2. Proceeds(i, "index")
    BY <1>1, <1>2, <1>6 DEF Proceeds, Preparing
  <2>3. docLeft' = docLeft
    BY DEF InsertChunks
  <2> QED
    BY <1>1, <1>3, <2>1, <2>2, <2>3, PlaceKeeps
<1>4. CASE e \notin Blank /\ ~Exists(e)
  <2>1. "fail" \in TaskPlaces /\ Step(i, "fail") /\ copies' = copies
    BY <1>2, <1>4 DEF InsertChunks, TaskPlaces
  <2>2. Proceeds(i, "fail")
    BY <1>1 DEF Proceeds, Preparing
  <2> QED
    BY <1>1, <1>3, <2>1, <2>2, PlaceKeeps
<1>5. CASE e \notin Blank /\ Exists(e)
  <2>1. "index" \in TaskPlaces /\ Step(i, "index") /\ copies' = [copies EXCEPT ![e] = @ + 1]
    BY <1>2, <1>5 DEF InsertChunks, TaskPlaces
  <2>2. DocOk(e)
    BY DEF DocInv
  <2>3. /\ tasks' \in Seq(Tasks) /\ DOMAIN tasks' = DOMAIN tasks
        /\ tasks'[i].doc = e /\ tasks'[i].pc = "index"
        /\ \A j \in DOMAIN tasks \ {i} : tasks'[j] = tasks[j]
    BY <1>1, <1>2, <2>1, StepTo DEF TaskTo
  <2>4. /\ copies' \in [Documents -> Nat] /\ copies'[e] = copies[e] + 1
        /\ \A d \in Documents \ {e} : copies'[d] = copies[d]
    BY <1>1, <2>1, DocTyped
  <2>5. DocumentTypes'
    BY <1>1, <1>3, <2>3, <2>4 DEF DocumentTypes, Tasks, TaskPlaces, DocBudget
  <2>6. About(e)
    BY <1>2, <1>3, <2>3, <2>4 DEF About
  <2>7. row[e] # "deleted" /\ row[e] # "absent"
    BY <1>5 DEF Exists, Status
  <2>8. Running(i, e)
    BY <1>1, <1>2 DEF Running
  <2>9. \A j \in DOMAIN tasks : Running(j, e)' => Running(j, e)
    BY <2>3, <2>8 DEF Running
  <2>10. ASSUME e \notin tangled
         PROVE  /\ row[e] # "INDEXED" /\ copies'[e] = Full(e) /\ Full(e) = 1
                /\ Lone(e)' /\ Staged(e)'
    <3>1. Lone(e) /\ Staged(e)
      BY <2>2, <2>10 DEF DocOk
    <3>2. row[e] # "INDEXED" /\ copies[e] = 0 /\ e \notin Blank
      BY <1>1, <1>5, <2>8, <3>1 DEF Staged, Preparing
    <3>3. copies'[e] = Full(e) /\ Full(e) = 1
      BY <2>4, <3>2 DEF Full
    <3>4. \A j \in DOMAIN tasks : Running(j, e)' => j = i
      BY <2>8, <2>9, <3>1 DEF Lone
    <3>5. \A q \in Requests : ~Restarting(q, e)'
      BY <1>3, <2>8, <3>1 DEF Lone, Restarting
    <3>6. Lone(e)'
      BY <2>3, <3>4, <3>5 DEF Lone
    <3>7. Staged(e)'
      BY <1>3, <2>3, <3>2, <3>3, <3>4, <3>5 DEF Staged, Full, Preparing
    <3> QED
      BY <3>2, <3>3, <3>6, <3>7
  <2>11. Begun(e)'
    BY <1>3, <2>2, <2>7 DEF DocOk, Begun, Works
  <2>12. Complete(e)' /\ Gone(e)'
    BY <1>3, <2>7, <2>10 DEF Complete, Gone
  <2>13. DocOk(e)'
    BY <1>3, <2>10, <2>11, <2>12 DEF DocOk
  <2> QED
    BY <2>5, <2>6, <2>13, Together
<1> QED
  BY <1>4, <1>5, <1>6

LEMMA IndexKeeps ==
    ASSUME DocInv, NEW i \in DOMAIN tasks, Index(i) PROVE DocInv'
<1>1. DocumentTypes /\ tasks[i].pc = "index" /\ docLeft' \in DocBudget
  BY DocTyped DEF DocInv, Index, AtTask
<1>2. PICK e \in Documents : tasks[i].doc = e
  BY <1>1, DocTyped DEF Tasks
<1>3. /\ file' = file /\ copies' = copies /\ request' = request /\ tangled' = tangled
      /\ torn' = torn /\ lost' = lost /\ litter' = litter
  BY DEF Index
<1>4. CASE ~Exists(e)
  <2>1. "fail" \in TaskPlaces /\ Step(i, "fail") /\ row' = row
    BY <1>2, <1>4 DEF Index, TaskPlaces
  <2>2. Proceeds(i, "fail")
    BY <1>1 DEF Proceeds, Preparing
  <2> QED
    BY <1>1, <1>3, <2>1, <2>2, PlaceKeeps
<1>5. CASE Exists(e)
  <2>1. "done" \in TaskPlaces /\ Step(i, "done") /\ row' = [row EXCEPT ![e] = "INDEXED"]
    BY <1>2, <1>5 DEF Index, TaskPlaces
  <2>2. DocOk(e)
    BY DEF DocInv
  <2>3. /\ tasks' \in Seq(Tasks) /\ DOMAIN tasks' = DOMAIN tasks
        /\ tasks'[i].doc = e /\ tasks'[i].pc = "done"
        /\ \A j \in DOMAIN tasks \ {i} : tasks'[j] = tasks[j]
    BY <1>1, <1>2, <2>1, StepTo DEF TaskTo
  <2>4. /\ row' \in [Documents -> Status \cup {"absent", "deleted"}]
        /\ row'[e] = "INDEXED" /\ \A d \in Documents \ {e} : row'[d] = row[d]
    BY <1>1, <2>1, DocTyped DEF Status
  <2>5. DocumentTypes'
    BY <1>1, <1>3, <2>3, <2>4 DEF DocumentTypes, Tasks, TaskPlaces, DocBudget
  <2>6. About(e)
    BY <1>2, <1>3, <2>3, <2>4 DEF About
  <2>7. row[e] # "deleted" /\ row[e] # "absent"
    BY <1>5 DEF Exists, Status
  <2>8. Running(i, e)
    BY <1>1, <1>2 DEF Running
  <2>9. ASSUME e \notin tangled
        PROVE  copies[e] = Full(e) /\ Lone(e)' /\ Staged(e)'
    <3>1. Lone(e) /\ Staged(e)
      BY <2>2, <2>9 DEF DocOk
    <3>2. copies[e] = Full(e) /\ copies[e] <= 1
      BY <1>1, <2>7, <2>8, <3>1 DEF Staged
    <3>3. \A j \in DOMAIN tasks : ~Running(j, e)'
      BY <2>3, <2>8, <3>1 DEF Lone, Running
    <3>4. \A q \in Requests : ~Restarting(q, e)'
      BY <1>3, <2>8, <3>1 DEF Lone, Restarting
    <3>5. Lone(e)'
      BY <2>3, <3>3, <3>4 DEF Lone
    <3>6. Staged(e)'
      BY <1>3, <2>3, <3>2, <3>3, <3>4 DEF Staged
    <3> QED
      BY <3>2, <3>5, <3>6
  <2>10. Begun(e)'
    BY <1>3, <2>2, <2>4, <2>7 DEF DocOk, Begun, Works
  <2>11. Complete(e)' /\ Gone(e)'
    BY <1>3, <2>4, <2>9 DEF Complete, Gone, Full
  <2>12. DocOk(e)'
    BY <1>3, <2>9, <2>10, <2>11 DEF DocOk
  <2> QED
    BY <2>5, <2>6, <2>12, Together
<1> QED
  BY <1>4, <1>5

---------------------------------------------------------------------------
(* A crash ends requests and ingestions of any number of documents.         *)

Dies(Q, I) ==
    /\ request' = [q \in Requests |-> IF q \in Q THEN NoRequest ELSE request[q]]
    /\ tasks' = [i \in DOMAIN tasks |-> IF i \in I THEN [tasks[i] EXCEPT !.pc = "done"]
                                        ELSE tasks[i]]
    /\ lost' = lost \cup {tasks[i].doc : i \in I}
    /\ torn' = torn \cup {request[q].doc : q \in {p \in Q : AtReq(p, "restart")}}
    /\ litter' = litter \cup {request[q].doc :
                                 q \in {p \in Q : request[p].pc \in {"create", "unlink"}}}

LEMMA CrashKeeps ==
    ASSUME DocInv, DocCrash PROVE DocInv'
<1>1. DocumentTypes /\ docLeft' \in DocBudget
  BY Spends DEF DocInv, DocCrash
<1>2. row' = row /\ file' = file /\ copies' = copies /\ tangled' = tangled
  BY DEF DocCrash
<1>3. PICK Q \in SUBSET Requests, I \in SUBSET DOMAIN tasks : Dies(Q, I)
  BY DEF DocCrash, Dies
<1>4. /\ request' \in [Requests -> Serving]
      /\ \A q \in Requests : request'[q].pc = "idle" \/ request'[q] = request[q]
      /\ \A q \in Requests \ Q : request'[q] = request[q]
  BY <1>1, <1>3, NoRequestTyped, DocTyped DEF Dies
<1>5. DOMAIN tasks' = DOMAIN tasks /\ tasks' \in Seq(Tasks)
      /\ \A i \in DOMAIN tasks : /\ tasks'[i].doc = tasks[i].doc
                                 /\ tasks'[i].pc = "done" \/ tasks'[i] = tasks[i]
  <2>1. tasks' = [i \in 1..Len(tasks) |-> tasks'[i]] /\ DOMAIN tasks' = DOMAIN tasks
    BY <1>1, <1>3, DocTyped DEF Dies
  <2>2. ASSUME NEW i \in DOMAIN tasks
        PROVE  /\ tasks'[i] \in Tasks /\ tasks'[i].doc = tasks[i].doc
               /\ tasks'[i].pc = "done" \/ tasks'[i] = tasks[i]
    <3>1. tasks'[i] = IF i \in I THEN [tasks[i] EXCEPT !.pc = "done"] ELSE tasks[i]
      BY <1>3, <2>2 DEF Dies
    <3>2. tasks[i] \in Tasks
      BY <1>1, <2>2, DocTyped
    <3> QED
      BY <3>1, <3>2 DEF Tasks, TaskPlaces
  <2>3. Len(tasks) \in Nat /\ DOMAIN tasks = 1..Len(tasks)
    BY <1>1, DocTyped
  <2>4. tasks' \in [1..Len(tasks) -> Tasks]
    BY <2>1, <2>2, <2>3
  <2> QED
    BY <2>1, <2>2, <2>3, <2>4
<1>6. \A q \in Q : /\ AtReq(q, "restart") => request[q].doc \in torn'
                   /\ AtReq(q, "unlink") => request[q].doc \in litter'
  BY <1>3 DEF Dies, AtReq
<1>7. /\ torn \subseteq torn' /\ torn' \subseteq Documents
      /\ litter \subseteq litter' /\ litter' \subseteq Documents
      /\ lost' \subseteq Documents
  <2>1. \A q \in Requests : request[q].doc \in Documents
    BY <1>1, DocTyped DEF Serving
  <2>2. \A i \in DOMAIN tasks : tasks[i].doc \in Documents
    BY <1>1, DocTyped DEF Tasks
  <2> QED
    BY <1>1, <1>3, <2>1, <2>2, DocTyped DEF Dies
<1>8. DocumentTypes'
  BY <1>1, <1>2, <1>4, <1>5, <1>7
  DEF DocumentTypes, Tasks, TaskPlaces, Serving, RequestPlaces, DocBudget
<1>9. ASSUME NEW d \in Documents PROVE DocOk(d)'
  <2>1. DocOk(d)
    BY DEF DocInv
  <2>2. \A q \in Requests : /\ Works(q, d)' => Works(q, d) /\ request'[q] = request[q]
                            /\ Restarting(q, d)' => Restarting(q, d)
    BY <1>4 DEF Works, Restarting
  <2>3. \A i \in DOMAIN tasks : Running(i, d)' => Running(i, d) /\ tasks'[i] = tasks[i]
    BY <1>5 DEF Running
  <2>4. Begun(d)'
    BY <1>2, <1>5, <2>1, <2>2 DEF DocOk, Begun
  <2>5. \A q \in Requests : Restarting(q, d) => Restarting(q, d)' \/ d \in torn'
    BY <1>4, <1>6 DEF Restarting, AtReq
  <2>6. Complete(d)'
    BY <1>2, <1>7, <2>1, <2>5 DEF DocOk, Complete, Full
  <2>7. \A q \in Requests : request[q].doc = d /\ request[q].pc = "unlink" =>
            request'[q] = request[q] \/ d \in litter'
    BY <1>4, <1>6 DEF AtReq
  <2>8. Gone(d)'
    BY <1>2, <1>7, <2>1, <2>7 DEF DocOk, Gone
  <2>9. ASSUME d \notin tangled PROVE Lone(d)' /\ Staged(d)'
    <3>1. Lone(d) /\ Staged(d)
      BY <2>1, <2>9 DEF DocOk
    <3>2. Lone(d)'
      BY <1>5, <2>2, <2>3, <3>1 DEF Lone
    <3>3. Staged(d)'
      BY <1>2, <1>5, <2>2, <2>3, <3>1 DEF Staged, Full
    <3> QED
      BY <3>2, <3>3
  <2> QED
    BY <1>2, <2>4, <2>6, <2>8, <2>9 DEF DocOk
<1> QED
  BY <1>8, <1>9 DEF DocInv

---------------------------------------------------------------------------
LEMMA DocsBegin == Init => DocInv
<1> SUFFICES ASSUME DocInit PROVE DocInv
  BY DEF Init
<1>1. NoRequest \in Serving /\ NoRequest.pc = "idle" /\ docLeft \in DocBudget
  BY NoRequestTyped, DocumentsAssumption DEF DocInit, DocBudget
<1>2. /\ row = [d \in Documents |-> "absent"] /\ copies = [d \in Documents |-> 0]
      /\ tasks = <<>> /\ request = [q \in Requests |-> NoRequest] /\ tangled = {}
  BY DEF DocInit
<1>3. DocumentTypes
  BY <1>1 DEF DocInit, DocumentTypes, Serving, RequestPlaces, DocBudget
<1>4. \A q \in Requests : request[q].pc = "idle"
  BY <1>1, <1>2
<1>5. DOMAIN tasks = {}
  BY <1>2
<1>6. ASSUME NEW d \in Documents PROVE DocOk(d)
  <2>1. row[d] = "absent" /\ copies[d] = 0
    BY <1>2
  <2>2. Begun(d) /\ Complete(d) /\ Gone(d)
    BY <1>4, <1>5, <2>1 DEF Begun, Complete, Gone, Works
  <2>3. Lone(d) /\ Staged(d)
    BY <1>4, <1>5, <2>1 DEF Lone, Staged, Restarting
  <2> QED
    BY <2>2, <2>3 DEF DocOk
<1> QED
  BY <1>3, <1>6 DEF DocInv

LEMMA DocsIdle == ASSUME DocInv, UNCHANGED docVars PROVE DocInv'
<1>1. /\ row' = row /\ file' = file /\ copies' = copies /\ tasks' = tasks
      /\ request' = request /\ tangled' = tangled /\ torn' = torn /\ lost' = lost
      /\ litter' = litter /\ docLeft' = docLeft
  BY DEF docVars
<1>2. DocumentTypes'
  BY <1>1 DEF DocInv, DocumentTypes
<1>3. ASSUME NEW d \in Documents PROVE DocOk(d)'
  <2>1. Begun(d)' /\ Complete(d)' /\ Gone(d)'
    BY <1>1 DEF DocInv, DocOk, Begun, Complete, Gone, Works, Restarting, Full
  <2>2. d \notin tangled' => Lone(d)' /\ Staged(d)'
    BY <1>1 DEF DocInv, DocOk, Lone, Staged, Running, Restarting, Full
  <2> QED
    BY <2>1, <2>2 DEF DocOk
<1> QED
  BY <1>2, <1>3 DEF DocInv

LEMMA DocsGoOn == DocInv /\ [Next]_vars => DocInv'
<1> SUFFICES ASSUME DocInv, [Next]_vars PROVE DocInv'
  OBVIOUS
<1>1. CASE UNCHANGED docVars
  BY <1>1, DocsIdle
<1>2. CASE DocNext
  <2>1. ASSUME NEW q \in Requests, NEW d \in Documents, Upload(q, d) PROVE DocInv'
    BY <2>1, UploadKeeps
  <2>2. ASSUME NEW q \in Requests, NEW d \in Documents, NEW p \in {"reindex", "delete"},
               Ask(q, p, d)
        PROVE  DocInv'
    BY <2>2, AskKeeps
  <2>3. ASSUME NEW q \in Requests, Serve(q) PROVE DocInv'
    BY <2>3, FindKeeps, WriteKeeps, CreateKeeps, ClearKeeps, RestartKeeps, RemoveKeeps,
       UnlinkKeeps
    DEF Serve
  <2>4. ASSUME NEW i \in DOMAIN tasks, Ingest(i) \/ Throws(i) PROVE DocInv'
    BY <2>4, MarkKeeps, ReadingKeeps, InsertKeeps, IndexKeeps, MarkFailedKeeps DEF Ingest
  <2> QED
    BY <1>2, <2>1, <2>2, <2>3, <2>4, CrashKeeps DEF DocNext
<1> QED
  BY <1>1, <1>2 DEF Next, vars

\* The inductive invariant, document by document: what its upload, reindexes,
\* deletion and ingestions know of each other.
THEOREM DocumentInvariant == Spec => []DocInv
BY DocsBegin, DocsGoOn, PTL DEF Spec

\* Every variable of the ingestion keeps its type.
THEOREM IngestionTypes == Spec => []DocumentTypes
<1>1. DocInv => DocumentTypes
  BY DEF DocInv
<1> QED
  BY <1>1, DocumentInvariant, PTL

\* Chunks are in the table at most once, however often a document is reindexed,
\* fails and is reindexed again, unless two rebuild it at a time.
THEOREM OnceIndexed == Spec => []ChunksOnce
<1>1. DocInv => ChunksOnce
  BY DEF DocInv, DocOk, Staged, ChunksOnce
<1> QED
  BY <1>1, DocumentInvariant, PTL

\* An INDEXED document has its chunks, outside of what the two statements of a
\* reindex and two concurrent rebuilds leave open.
THEOREM SearchableWhenIndexed == Spec => []IndexedIsSearchable
<1>1. DocInv => IndexedIsSearchable
  BY DEF DocInv, DocOk, Complete, Full, Restarting, AtReq, IndexedIsSearchable
<1> QED
  BY <1>1, DocumentInvariant, PTL

\* A deleted document leaves no chunk and, unless the unlink failed or its
\* process died, no file.
THEOREM GoneWhenDeleted == Spec => []DeletedIsGone
<1>1. DocInv => DeletedIsGone
  BY DEF DocInv, DocOk, Gone, AtReq, DeletedIsGone
<1> QED
  BY <1>1, DocumentInvariant, PTL
=============================================================================
