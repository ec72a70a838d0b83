----------------------------- MODULE MemoryStore -----------------------------
(***************************************************************************)
(* MemoryService: save, update and delete of one user's memories of one     *)
(* kind.  A memory is a Memory row and the Embedding row it links to, which *)
(* are written by separate statements; only linked embeddings are searched. *)
(* A content is a topic (contents of one topic are near duplicates) and the *)
(* request that wrote it.  Callers are concurrent: routes, the save_memory  *)
(* tool and the summarizer.  embedQuery changes nothing; that it may fail   *)
(* before a statement is part of MemoryFails.                               *)
(***************************************************************************)
EXTENDS Naturals, Sequences, FiniteSets

CONSTANTS Callers, Keys,
          NoKey,       \* the memory is saved without a key
          Topics,
          MemBudgets   \* bounds: requests, failures

ASSUME MemoryAssumption ==
    /\ NoKey \notin Keys /\ Topics # {}
    /\ MemBudgets \subseteq [requests : Nat, faults : Nat]

VARIABLES
    memories,    \* Memory rows in the order of their creation
    embeddings,  \* their Embedding rows
    caller,      \* per caller: the await it is at and its locals
    sound,       \* memories last written by a request that succeeded, alone
    doubled,     \* keys two requests were creating at a time
    memLeft      \* of the budget

memVars == <<memories, embeddings, caller, sound, doubled, memLeft>>

Content   == [topic : Topics, by : Nat]
Memory    == [key : Keys \cup {NoKey}, content : Content, link : Nat, live : BOOLEAN]
Embedding == [memory : Nat, content : Content, live : BOOLEAN]

\* link: the embeddingId read with the memory; embedding: the row inserted;
\* alone: nobody else has written the memory since it was read.
AtRest == [pc |-> "idle", key |-> NoKey, content |-> [topic |-> CHOOSE t \in Topics : TRUE, by |-> 0],
           memory |-> 0, link |-> 0, embedding |-> 0, alone |-> TRUE]

MemInit ==
    /\ memories = <<>> /\ embeddings = <<>>
    /\ caller = [c \in Callers |-> AtRest]
    /\ sound = {} /\ doubled = {}
    /\ memLeft \in MemBudgets

AtCall(c, p) == caller[c].pc = p
Live         == {m \in DOMAIN memories : memories[m].live}
Found        == {m \in Live : /\ memories[m].link # 0
                              /\ embeddings[memories[m].link].live}
MemFault     == memLeft.faults > 0 /\ memLeft' = [memLeft EXCEPT !.faults = @ - 1]
Asked        == memLeft.requests > 0 /\ memLeft' = [memLeft EXCEPT !.requests = @ - 1]

\* Caller c is after this statement at s, and has written memory m.
Wrote(c, s, m) ==
    caller' = [d \in Callers |->
        IF d = c THEN s
        ELSE [caller[d] EXCEPT !.alone = @ /\ caller[d].memory # m]]

\* It has done its last write, and answers.
Done(c, m) == /\ Wrote(c, AtRest, m)
              /\ sound' = IF caller[c].alone THEN sound \cup {m} ELSE sound \ {m}

---------------------------------------------------------------------------
(* save *)

Save(c, k, t) ==
    /\ AtCall(c, "idle") /\ Asked
    /\ caller' = [caller EXCEPT ![c] =
          [AtRest EXCEPT !.pc = "find", !.key = k,
                         !.content = [topic |-> t, by |-> memLeft.requests]]]
    /\ UNCHANGED <<memories, embeddings, sound, doubled>>

\* findFirst on the key, or the nearest of the memories a search would find.
Candidates(c) ==
    IF caller[c].key # NoKey
    THEN {m \in Live : memories[m].key = caller[c].key}
    ELSE {m \in Found : embeddings[memories[m].link].content.topic = caller[c].content.topic}

Creating(k) == {d \in Callers : AtCall(d, "create") /\ caller[d].key = k}

MutantInsertAlways(c) == {}
Existing(c)           == Candidates(c)

FindMemory(c) ==
    /\ AtCall(c, "find")
    /\ \/ \E m \in Existing(c) :
             /\ caller' = [caller EXCEPT ![c].pc = "rewrite", ![c].memory = m,
                                         ![c].link = memories[m].link]
             /\ UNCHANGED doubled
       \/ /\ Existing(c) = {}
          /\ caller' = [caller EXCEPT ![c].pc = "create"]
          /\ doubled' = IF Creating(caller[c].key) # {} THEN doubled \cup {caller[c].key}
                        ELSE doubled
    /\ UNCHANGED <<memories, embeddings, sound, memLeft>>

\* The update rejects when the memory is gone.
Rewrite(c) ==
    /\ AtCall(c, "rewrite")
    /\ LET m == caller[c].memory IN
       \/ /\ m \in Live
          /\ memories' = [memories EXCEPT ![m].content = caller[c].content]
          /\ Wrote(c, [caller[c] EXCEPT !.pc = "upsert"], m)
          /\ sound' = sound \ {m}
       \/ /\ m \notin Live /\ caller' = [caller EXCEPT ![c] = AtRest]
          /\ UNCHANGED <<memories, sound>>
    /\ UNCHANGED <<embeddings, doubled, memLeft>>

MutantUpdateOnly(c) == TRUE
HasEmbedding(c)     == caller[c].link # 0

\* An UPDATE of an embedding that is gone changes nothing and reports nothing.
UpdateEmbedding(c) ==
    /\ AtCall(c, "upsert") /\ HasEmbedding(c)
    /\ embeddings' = [e \in DOMAIN embeddings |->
          IF e = caller[c].link /\ embeddings[e].live
          THEN [embeddings[e] EXCEPT !.content = caller[c].content] ELSE embeddings[e]]
    /\ Done(c, caller[c].memory)
    /\ UNCHANGED <<memories, doubled, memLeft>>

CreateMemory(c) ==
    /\ AtCall(c, "create")
    /\ memories' = Append(memories, [key |-> caller[c].key, content |-> caller[c].content,
                                     link |-> 0, live |-> TRUE])
    /\ caller' = [caller EXCEPT ![c].pc = "embed", ![c].memory = Len(memories) + 1]
    /\ UNCHANGED <<embeddings, sound, doubled, memLeft>>

InsertEmbedding(c) ==
    /\ AtCall(c, "embed") \/ (AtCall(c, "upsert") /\ ~HasEmbedding(c))
    /\ embeddings' = Append(embeddings, [memory |-> caller[c].memory,
                                         content |-> caller[c].content, live |-> TRUE])
    /\ caller' = [caller EXCEPT ![c].pc = "link", ![c].embedding = Len(embeddings) + 1]
    /\ UNCHANGED <<memories, sound, doubled, memLeft>>

MutantLinkMemory(s) == s.memory
LinkOf(s)           == s.embedding

LinkEmbedding(c) ==
    /\ AtCall(c, "link")
    /\ LET m == caller[c].memory IN
       \/ /\ m \in Live
          /\ memories' = [memories EXCEPT ![m].link = LinkOf(caller[c])]
          /\ Done(c, m)
       \/ /\ m \notin Live /\ caller' = [caller EXCEPT ![c] = AtRest]
          /\ UNCHANGED <<memories, sound>>
    /\ UNCHANGED <<embeddings, doubled, memLeft>>

---------------------------------------------------------------------------
(* update and delete *)

GetById(c, m, p, t) ==
    /\ AtCall(c, "idle") /\ Asked /\ m \in Live
    /\ caller' = [caller EXCEPT ![c] =
          [AtRest EXCEPT !.pc = p, !.memory = m, !.link = memories[m].link,
                         !.content = [topic |-> t, by |-> memLeft.requests]]]
    /\ UNCHANGED <<memories, embeddings, sound, doubled>>

Update(c, m, t) == GetById(c, m, "rewrite", t)
Delete(c, m)    == GetById(c, m, IF memories[m].link # 0 THEN "unembed" ELSE "drop",
                           memories[m].content.topic)

MutantLinkKept(m) == m
Unlinked(m)       == [m EXCEPT !.link = 0]

\* The foreign key of the memory is set to null.  A failure is swallowed.
DeleteEmbedding(c) ==
    /\ AtCall(c, "unembed")
    /\ LET e == caller[c].link
           s == [caller[c] EXCEPT !.pc = "drop"]
       IN \/ /\ embeddings' = [embeddings EXCEPT ![e].live = FALSE]
             /\ memories' = [n \in DOMAIN memories |->
                   IF memories[n].link = e THEN Unlinked(memories[n]) ELSE memories[n]]
             /\ Wrote(c, s, caller[c].memory)
             /\ sound' = sound \ {caller[c].memory}
             /\ UNCHANGED memLeft
          \/ /\ MemFault /\ caller' = [caller EXCEPT ![c] = s]
             /\ UNCHANGED <<memories, embeddings, sound>>
    /\ UNCHANGED doubled

DeleteMemory(c) ==
    /\ AtCall(c, "drop")
    /\ LET m == caller[c].memory IN
       /\ memories' = [memories EXCEPT ![m].live = FALSE]
       /\ Wrote(c, AtRest, m)
       /\ sound' = sound \ {m}
    /\ UNCHANGED <<embeddings, doubled, memLeft>>

\* A statement or embedQuery rejects, or the process dies: the rest is not done.
MemoryFails(c) ==
    /\ ~AtCall(c, "idle") /\ MemFault
    /\ caller' = [caller EXCEPT ![c] = AtRest]
    /\ UNCHANGED <<memories, embeddings, sound, doubled>>

---------------------------------------------------------------------------
MemNext ==
    \E c \in Callers :
        \/ \E k \in Keys \cup {NoKey}, t \in Topics : Save(c, k, t)
        \/ FindMemory(c) \/ Rewrite(c) \/ UpdateEmbedding(c)
        \/ CreateMemory(c) \/ InsertEmbedding(c) \/ LinkEmbedding(c)
        \/ \E m \in Live, t \in Topics : Update(c, m, t)
        \/ \E m \in Live : Delete(c, m)
        \/ DeleteEmbedding(c) \/ DeleteMemory(c)
        \/ MemoryFails(c)

---------------------------------------------------------------------------
(* Properties *)

MemoryTypes ==
    /\ memories \in Seq(Memory) /\ embeddings \in Seq(Embedding)
    /\ \A m \in DOMAIN memories : memories[m].link \in 0..Len(embeddings)
    /\ caller \in [Callers ->
          [pc : {"idle", "find", "rewrite", "upsert", "create", "embed", "link",
                 "unembed", "drop"},
           key : Keys \cup {NoKey}, content : Content, memory : 0..Len(memories),
           link : 0..Len(embeddings), embedding : 0..Len(embeddings), alone : BOOLEAN]]
    /\ sound \subseteq DOMAIN memories /\ doubled \subseteq Keys \cup {NoKey}
    /\ memLeft \in [requests : Nat, faults : Nat]

\* Saving with the same key again and again keeps one memory of that key,
\* unless two requests were creating it at a time: nothing in the schema does.
KeyedOnce ==
    \A m, n \in Live :
        memories[m].key = memories[n].key /\ memories[m].key # NoKey =>
            m = n \/ memories[m].key \in doubled

\* After a save or an update that succeeded and was alone with its memory, a
\* search finds the memory, by the content it has: also when an earlier save,
\* update or delete of it had stopped half-way.
SavedIsFound ==
    \A m \in sound :
        m \in Found /\ embeddings[memories[m].link].content = memories[m].content
=============================================================================
