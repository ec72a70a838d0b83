---------------------------- MODULE MemoryProofs ----------------------------
(***************************************************************************)
(* Proofs about MemoryStore, within KnowledgeStores: one memory per key, and *)
(* saved memories that a search finds, for any number of callers, memories,  *)
(* keys and failures.                                                       *)
(***************************************************************************)
EXTENDS KnowledgeStores, SequenceTheorems, TLAPS

CallPlaces == {"idle", "find", "rewrite", "upsert", "create", "embed", "link",
               "unembed", "drop"}
CallerAt(n, k) ==
    [pc : CallPlaces, key : Keys \cup {NoKey}, content : Content, memory : 0..n,
     link : 0..k, embedding : 0..k, alone : BOOLEAN]
MemBudgetType == [requests : Nat, faults : Nat]

\* From the place where a request has its memory on.
Writing == {"rewrite", "upsert", "embed", "link", "unembed", "drop"}

\* An embedding that is linked is live, and of the memory that links it.
Linked ==
    \A m \in DOMAIN memories : memories[m].link # 0 =>
        /\ embeddings[memories[m].link].live
        /\ embeddings[memories[m].link].memory = m

\* The embedding a request is about to link is live, right, and its own.
Private(c) ==
    caller[c].pc = "link" =>
        /\ caller[c].embedding \in DOMAIN embeddings
        /\ embeddings[caller[c].embedding] =
              [memory |-> caller[c].memory, content |-> caller[c].content, live |-> TRUE]
        /\ \A m \in DOMAIN memories : memories[m].link # caller[c].embedding
        /\ \A d \in Callers : /\ caller[d].link # caller[c].embedding
                              /\ caller[d].pc = "link" /\ d # c =>
                                    caller[d].embedding # caller[c].embedding

\* What a request knows of its memory; what it still knows when nobody else has
\* written the memory since it was read.
Knows(c) ==
    /\ IF caller[c].pc \in Writing THEN caller[c].memory \in DOMAIN memories
       ELSE caller[c].memory = 0 /\ caller[c].link = 0
    /\ caller[c].link # 0 => embeddings[caller[c].link].memory = caller[c].memory
    /\ caller[c].alone /\ caller[c].pc \in {"rewrite", "upsert"} =>
          memories[caller[c].memory].link = caller[c].link
    /\ caller[c].alone /\ caller[c].pc \in {"upsert", "embed", "link"} =>
          /\ memories[caller[c].memory].live
          /\ memories[caller[c].memory].content = caller[c].content

Creator(c, k) == caller[c].pc = "create" /\ caller[c].key = k
Keyed(m, k)   == memories[m].live /\ memories[m].key = k

KeyOk(k) ==
    k # NoKey /\ k \notin doubled =>
        /\ \A c, d \in Callers : Creator(c, k) /\ Creator(d, k) => c = d
        /\ \A c \in Callers, m \in DOMAIN memories : ~(Creator(c, k) /\ Keyed(m, k))
        /\ \A m, n \in DOMAIN memories : Keyed(m, k) /\ Keyed(n, k) => m = n

Saved(m) ==
    /\ m \in DOMAIN memories /\ memories[m].live /\ memories[m].link # 0
    /\ embeddings[memories[m].link].content = memories[m].content

MemInv ==
    /\ MemoryTypes /\ Linked
    /\ \A c \in Callers : Private(c) /\ Knows(c)
    /\ \A k \in Keys : KeyOk(k)
    /\ \A m \in sound : Saved(m)

---------------------------------------------------------------------------
(* Types, piece by piece.                                                   *)

LEMMA MemTyped ==
    ASSUME MemoryTypes, NEW n, NEW k, n = Len(memories), k = Len(embeddings)
    PROVE  /\ n \in Nat /\ k \in Nat
           /\ DOMAIN memories = 1..n /\ DOMAIN embeddings = 1..k
           /\ memories \in [1..n -> Memory] /\ embeddings \in [1..k -> Embedding]
           /\ \A m \in 1..n : memories[m].link \in 0..k
           /\ caller \in [Callers -> CallerAt(n, k)]
           /\ sound \subseteq 1..n /\ doubled \subseteq Keys \cup {NoKey}
           /\ memLeft \in MemBudgetType
<1>1. memories \in Seq(Memory) /\ embeddings \in Seq(Embedding)
  BY DEF MemoryTypes
<1>2. /\ n \in Nat /\ k \in Nat
      /\ DOMAIN memories = 1..n /\ DOMAIN embeddings = 1..k
      /\ memories \in [1..n -> Memory] /\ embeddings \in [1..k -> Embedding]
  BY <1>1
<1>3. caller \in [Callers -> CallerAt(n, k)]
  BY DEF MemoryTypes, CallerAt, CallPlaces
<1> QED
  BY <1>2, <1>3 DEF MemoryTypes, MemBudgetType

LEMMA TypesAfter ==
    ASSUME NEW n \in Nat, NEW k \in Nat,
           memories' \in [1..n -> Memory], embeddings' \in [1..k -> Embedding],
           \A m \in 1..n : memories'[m].link \in 0..k,
           caller' \in [Callers -> CallerAt(n, k)],
           sound' \subseteq 1..n, doubled' \subseteq Keys \cup {NoKey},
           memLeft' \in MemBudgetType
    PROVE  MemoryTypes'
<1>1. memories' \in Seq(Memory) /\ Len(memories') = n /\ DOMAIN memories' = 1..n
  OBVIOUS
<1>2. embeddings' \in Seq(Embedding) /\ Len(embeddings') = k
  OBVIOUS
<1>3. caller' \in [Callers -> CallerAt(Len(memories'), Len(embeddings'))]
  BY <1>1, <1>2
<1> QED
  BY <1>1, <1>2, <1>3 DEF MemoryTypes, CallerAt, CallPlaces, MemBudgetType

LEMMA MemSpends == ASSUME MemoryTypes, MemFault PROVE memLeft' \in MemBudgetType
<1>1. memLeft \in MemBudgetType /\ memLeft.faults > 0
      /\ memLeft' = [memLeft EXCEPT !.faults = @ - 1]
  BY DEF MemFault, MemoryTypes, MemBudgetType
<1>2. memLeft.faults - 1 \in Nat
  BY <1>1 DEF MemBudgetType
<1> QED
  BY <1>1, <1>2 DEF MemBudgetType

LEMMA MemAsks == ASSUME MemoryTypes, Asked PROVE memLeft' \in MemBudgetType
<1>1. memLeft \in MemBudgetType /\ memLeft.requests > 0
      /\ memLeft' = [memLeft EXCEPT !.requests = @ - 1]
  BY DEF Asked, MemoryTypes, MemBudgetType
<1>2. memLeft.requests - 1 \in Nat
  BY <1>1 DEF MemBudgetType
<1> QED
  BY <1>1, <1>2 DEF MemBudgetType

---------------------------------------------------------------------------
(* The other requests, during a step of c.                                  *)

Same(d) ==
    /\ caller'[d].pc = caller[d].pc /\ caller'[d].key = caller[d].key
    /\ caller'[d].content = caller[d].content /\ caller'[d].memory = caller[d].memory
    /\ caller'[d].link = caller[d].link /\ caller'[d].embedding = caller[d].embedding
    /\ caller'[d].alone => caller[d].alone

\* What is d's own is not touched: the embedding it is about to link, and its
\* memory unless it is told that it is no longer alone.
Undisturbed(c, d) ==
    /\ Same(d)
    /\ caller[d].pc = "link" =>
          /\ embeddings'[caller[d].embedding] = embeddings[caller[d].embedding]
          /\ \A m \in DOMAIN memories' : memories'[m].link # caller[d].embedding
          /\ caller'[c].link # caller[d].embedding
          /\ caller'[c].pc = "link" => caller'[c].embedding # caller[d].embedding
    /\ caller'[d].alone /\ caller[d].memory \in DOMAIN memories =>
          /\ memories'[caller[d].memory].link = memories[caller[d].memory].link
          /\ memories'[caller[d].memory].live = memories[caller[d].memory].live
          /\ memories'[caller[d].memory].content = memories[caller[d].memory].content

\* Rows are not removed, and an embedding stays the one of its memory.
Grows ==
    /\ DOMAIN memories \subseteq DOMAIN memories'
    /\ DOMAIN embeddings \subseteq DOMAIN embeddings'
    /\ \A e \in DOMAIN embeddings : embeddings'[e].memory = embeddings[e].memory

LEMMA OthersKeep ==
    ASSUME MemInv, Grows, NEW c \in Callers,
           \A d \in Callers \ {c} : Undisturbed(c, d)
    PROVE  \A d \in Callers \ {c} : Private(d)' /\ Knows(d)'
<1> SUFFICES ASSUME NEW d \in Callers \ {c} PROVE Private(d)' /\ Knows(d)'
  OBVIOUS
<1>1. Private(d) /\ Knows(d) /\ Undisturbed(c, d) /\ Same(d)
  BY DEF MemInv, Undisturbed
<1>2. Private(d)'
  <2>1. \A b \in Callers \ {c} : caller'[b].pc = caller[b].pc /\ caller'[b].link = caller[b].link
                                 /\ caller'[b].embedding = caller[b].embedding
    BY DEF Undisturbed, Same
  <2>2. SUFFICES ASSUME caller[d].pc = "link" PROVE Private(d)'
    BY <1>1 DEF Private, Same
  <2>3. PICK x : x = caller[d].embedding
    OBVIOUS
  <2>4. /\ x \in DOMAIN embeddings' /\ caller'[d].embedding = x
        /\ embeddings'[x] = [memory |-> caller'[d].memory, content |-> caller'[d].content,
                             live |-> TRUE]
    BY <1>1, <2>2, <2>3 DEF Private, Grows, Undisturbed, Same
  <2>5. \A m \in DOMAIN memories' : memories'[m].link # x
    BY <1>1, <2>2, <2>3 DEF Undisturbed
  <2>6. ASSUME NEW b \in Callers
        PROVE  caller'[b].link # x /\ (caller'[b].pc = "link" /\ b # d => caller'[b].embedding # x)
    <3>1. CASE b = c
      BY <1>1, <2>2, <2>3, <3>1 DEF Undisturbed
    <3>2. CASE b # c
      BY <1>1, <2>1, <2>2, <2>3, <3>2 DEF Private
    <3> QED
      BY <3>1, <3>2
  <2> QED
    BY <2>4, <2>5, <2>6 DEF Private
<1>3. Knows(d)'
  <2>1. caller[d].link # 0 => caller[d].link \in DOMAIN embeddings
    <3>1. PICK n, k : n = Len(memories) /\ k = Len(embeddings)
      OBVIOUS
    <3>2. caller[d].link \in 0..k /\ DOMAIN embeddings = 1..k /\ k \in Nat
      BY <3>1, MemTyped DEF MemInv, CallerAt
    <3> QED
      BY <3>2
  <2> QED
    BY <1>1, <2>1 DEF Knows, Undisturbed, Same, Grows, Writing
<1> QED
  BY <1>2, <1>3

---------------------------------------------------------------------------
(* Keys.                                                                    *)

LEMMA KeysKeep ==
    ASSUME MemInv, doubled \subseteq doubled',
           \A c \in Callers : caller'[c].pc = "create" =>
               caller[c].pc = "create" /\ caller'[c].key = caller[c].key,
           \A m \in DOMAIN memories' : memories'[m].live =>
               /\ m \in DOMAIN memories /\ memories[m].live
               /\ memories'[m].key = memories[m].key
    PROVE  \A k \in Keys : KeyOk(k)'
<1> SUFFICES ASSUME NEW k \in Keys PROVE KeyOk(k)'
  OBVIOUS
<1>1. KeyOk(k)
  BY DEF MemInv
<1>2. \A c \in Callers : Creator(c, k)' => Creator(c, k)
  BY DEF Creator
<1>3. \A m \in DOMAIN memories' : Keyed(m, k)' => m \in DOMAIN memories /\ Keyed(m, k)
  BY DEF Keyed
<1> QED
  BY <1>1, <1>2, <1>3 DEF KeyOk

---------------------------------------------------------------------------
(* Steps that change no row: a request goes to the place and locals s.      *)

Informed(s) ==
    /\ IF s.pc \in Writing THEN s.memory \in DOMAIN memories
       ELSE s.memory = 0 /\ s.link = 0
    /\ s.link # 0 => embeddings[s.link].memory = s.memory
    /\ s.alone /\ s.pc \in {"rewrite", "upsert"} => memories[s.memory].link = s.link
    /\ s.alone /\ s.pc \in {"upsert", "embed", "link"} =>
          memories[s.memory].live /\ memories[s.memory].content = s.content

\* A link it takes is one that it had, or one of a memory.
Taken(c, s) ==
    /\ s.pc # "link"
    /\ \/ s.link \in {0, caller[c].link}
       \/ \E m \in DOMAIN memories : s.link = memories[m].link

LEMMA AtRestTyped ==
    ASSUME NEW n \in Nat, NEW k \in Nat
    PROVE  AtRest \in CallerAt(n, k)
<1>1. (CHOOSE t \in Topics : TRUE) \in Topics
  BY MemoryAssumption
<1> QED
  BY <1>1 DEF AtRest, CallerAt, CallPlaces, Content

LEMMA AtRestInformed ==
    ASSUME NEW c \in Callers PROVE Informed(AtRest) /\ Taken(c, AtRest)
BY DEF AtRest, Informed, Taken, Writing

LEMMA LinkHeld ==
    ASSUME MemInv, NEW c \in Callers, NEW d \in Callers, caller[d].pc = "link",
           NEW s, Taken(c, s)
    PROVE  s.link # caller[d].embedding
<1>1. Private(d)
  BY DEF MemInv
<1>2. caller[d].embedding # 0
  <2>1. PICK n, k : n = Len(memories) /\ k = Len(embeddings)
    OBVIOUS
  <2>2. DOMAIN embeddings = 1..k
    BY <2>1, MemTyped DEF MemInv
  <2> QED
    BY <1>1, <2>2 DEF Private
<1> QED
  BY <1>1, <1>2 DEF Private, Taken

LEMMA CalmMoves ==
    ASSUME MemInv, NEW c \in Callers, NEW s, s \in CallerAt(Len(memories), Len(embeddings)),
           caller' = [caller EXCEPT ![c] = s], Informed(s), Taken(c, s),
           UNCHANGED <<memories, embeddings, sound>>,
           doubled' \subseteq Keys \cup {NoKey}, memLeft' \in MemBudgetType,
           \A k \in Keys : KeyOk(k)'
    PROVE  MemInv'
<1>1. PICK n, k : n = Len(memories) /\ k = Len(embeddings)
  OBVIOUS
<1>2. memories' = memories /\ embeddings' = embeddings /\ sound' = sound
  OBVIOUS
<1>3. MemoryTypes
  BY DEF MemInv
<1>4. /\ caller' \in [Callers -> CallerAt(n, k)] /\ caller'[c] = s
      /\ \A d \in Callers \ {c} : caller'[d] = caller[d]
  BY <1>1, <1>3, MemTyped
<1>5. MemoryTypes'
  <2>1. /\ n \in Nat /\ k \in Nat
        /\ memories \in [1..n -> Memory] /\ embeddings \in [1..k -> Embedding]
        /\ \A m \in 1..n : memories[m].link \in 0..k
        /\ sound \subseteq 1..n
    BY <1>1, <1>3, MemTyped
  <2>2. /\ memories' \in [1..n -> Memory] /\ embeddings' \in [1..k -> Embedding]
        /\ \A m \in 1..n : memories'[m].link \in 0..k
        /\ sound' \subseteq 1..n
    BY <1>2, <2>1
  <2> QED
    BY <1>4, <2>1, <2>2, TypesAfter
<1>6. Grows
  BY <1>2 DEF Grows
<1>7. ASSUME NEW d \in Callers \ {c} PROVE Undisturbed(c, d)
  <2>1. Same(d)
    BY <1>4 DEF Same
  <2>2. caller[d].pc = "link" =>
           /\ \A m \in DOMAIN memories : memories[m].link # caller[d].embedding
           /\ caller'[c].link # caller[d].embedding
    <3>1. SUFFICES ASSUME caller[d].pc = "link"
                   PROVE  /\ \A m \in DOMAIN memories : memories[m].link # caller[d].embedding
                          /\ caller'[c].link # caller[d].embedding
      OBVIOUS
    <3>2. s.link # caller[d].embedding
      BY <3>1, LinkHeld
    <3>3. Private(d)
      BY DEF MemInv
    <3> QED
      BY <1>4, <3>1, <3>2, <3>3 DEF Private
  <2>3. caller'[c].pc # "link"
    BY <1>4 DEF Taken
  <2> QED
    BY <1>2, <2>1, <2>2, <2>3 DEF Undisturbed
<1>8. \A d \in Callers \ {c} : Private(d)' /\ Knows(d)'
  BY <1>6, <1>7, OthersKeep
<1>9. Private(c)' /\ Knows(c)'
  BY <1>2, <1>4 DEF Private, Knows, Informed, Taken
<1>10. Linked'
  BY <1>2 DEF MemInv, Linked
<1>11. \A m \in sound' : Saved(m)'
  BY <1>2 DEF MemInv, Saved
<1> QED
  BY <1>5, <1>8, <1>9, <1>10, <1>11 DEF MemInv

\* The same when no memory is about to be created.
LEMMA CalmKeeps ==
    ASSUME MemInv, NEW c \in Callers, NEW s, s \in CallerAt(Len(memories), Len(embeddings)),
           caller' = [caller EXCEPT ![c] = s], Informed(s), Taken(c, s), s.pc # "create",
           UNCHANGED <<memories, embeddings, sound, doubled>>, memLeft' \in MemBudgetType
    PROVE  MemInv'
<1>1. PICK n, k : n = Len(memories) /\ k = Len(embeddings)
  OBVIOUS
<1>2. /\ caller'[c] = s /\ \A d \in Callers \ {c} : caller'[d] = caller[d]
      /\ doubled \subseteq Keys \cup {NoKey}
  BY <1>1, MemTyped DEF MemInv
<1>3. \A k1 \in Keys : KeyOk(k1)'
  BY <1>2, KeysKeep
<1> QED
  BY <1>2, <1>3, CalmMoves

LEMMA GivesUp ==
    ASSUME MemInv, NEW c \in Callers, caller' = [caller EXCEPT ![c] = AtRest],
           UNCHANGED <<memories, embeddings, sound, doubled>>, memLeft' \in MemBudgetType
    PROVE  MemInv'
<1>1. PICK n, k : n = Len(memories) /\ k = Len(embeddings)
  OBVIOUS
<1>2. AtRest \in CallerAt(n, k)
  BY <1>1, MemTyped, AtRestTyped DEF MemInv
<1>3. AtRest.pc # "create"
  BY DEF AtRest
<1> QED
  BY <1>1, <1>2, <1>3, AtRestInformed, CalmKeeps

LEMMA SaveKeeps ==
    ASSUME MemInv, NEW c \in Callers, NEW key \in Keys \cup {NoKey}, NEW t \in Topics,
           Save(c, key, t)
    PROVE  MemInv'
<1>1. PICK n, k : n = Len(memories) /\ k = Len(embeddings)
  OBVIOUS
<1>2. PICK b \in Nat : b = memLeft.requests
  BY DEF MemInv, MemoryTypes
<1>3. PICK s : s = [AtRest EXCEPT !.pc = "find", !.key = key,
                                  !.content = [topic |-> t, by |-> b]]
  OBVIOUS
<1>4. AtRest \in CallerAt(n, k)
  BY <1>1, MemTyped, AtRestTyped DEF MemInv
<1>5. s \in CallerAt(n, k) /\ s.pc = "find" /\ s.memory = 0 /\ s.link = 0
  BY <1>3, <1>4 DEF CallerAt, CallPlaces, Content, AtRest
<1>6. caller' = [caller EXCEPT ![c] = s]
  BY <1>2, <1>3 DEF Save
<1>7. Informed(s) /\ Taken(c, s)
  BY <1>5 DEF Informed, Taken, Writing
<1>8. memLeft' \in MemBudgetType
  BY MemAsks DEF Save, MemInv
<1>9. UNCHANGED <<memories, embeddings, sound, doubled>>
  BY DEF Save
<1> QED
  BY <1>1, <1>5, <1>6, <1>7, <1>8, <1>9, CalmKeeps

LEMMA GetKeeps ==
    ASSUME MemInv, NEW c \in Callers, NEW m \in DOMAIN memories,
           NEW p \in {"rewrite", "unembed", "drop"}, NEW t \in Topics,
           GetById(c, m, p, t)
    PROVE  MemInv'
<1>1. PICK n, k : n = Len(memories) /\ k = Len(embeddings)
  OBVIOUS
<1>2. PICK b \in Nat : b = memLeft.requests
  BY DEF MemInv, MemoryTypes
<1>3. /\ m \in 1..n /\ memories[m].link \in 0..k
      /\ memories[m].link # 0 => embeddings[memories[m].link].memory = m
  BY <1>1, MemTyped DEF MemInv, Linked
<1>4. PICK l \in 0..k : l = memories[m].link
  BY <1>3
<1>5. PICK s : s = [AtRest EXCEPT !.pc = p, !.memory = m, !.link = l,
                                  !.content = [topic |-> t, by |-> b]]
  OBVIOUS
<1>6. n \in Nat /\ k \in Nat
  BY <1>1, MemTyped DEF MemInv
<1>7. AtRest \in CallerAt(n, k)
  BY <1>1, MemTyped, AtRestTyped DEF MemInv
<1>8. s \in CallerAt(n, k) /\ s.pc = p /\ s.memory = m /\ s.link = l
  <2>1. m \in 0..n /\ [topic |-> t, by |-> b] \in Content
    BY <1>3, <1>6 DEF Content
  <2> QED
    BY <1>5, <1>7, <2>1 DEF CallerAt, CallPlaces
<1>9. caller' = [caller EXCEPT ![c] = s]
  BY <1>2, <1>5, <1>4 DEF GetById
<1>10. Informed(s) /\ Taken(c, s)
  BY <1>3, <1>8, <1>4 DEF Informed, Taken, Writing
<1>11. memLeft' \in MemBudgetType
  BY MemAsks DEF GetById, MemInv
<1>12. UNCHANGED <<memories, embeddings, sound, doubled>>
  BY DEF GetById
<1> QED
  BY <1>1, <1>8, <1>9, <1>10, <1>11, <1>12, CalmKeeps

LEMMA FailKeeps ==
    ASSUME MemInv, NEW c \in Callers, MemoryFails(c) PROVE MemInv'
<1>1. memLeft' \in MemBudgetType
  BY MemSpends DEF MemoryFails, MemInv
<1> QED
  BY <1>1, GivesUp DEF MemoryFails

LEMMA FindKeeps ==
    ASSUME MemInv, NEW c \in Callers, FindMemory(c) PROVE MemInv'
<1>1. PICK n, k : n = Len(memories) /\ k = Len(embeddings)
  OBVIOUS
<1>2. /\ caller[c] \in CallerAt(n, k) /\ DOMAIN memories = 1..n
      /\ \A m \in 1..n : memories[m].link \in 0..k
      /\ memLeft \in MemBudgetType /\ doubled \subseteq Keys \cup {NoKey}
  BY <1>1, MemTyped DEF MemInv
<1>3. caller[c].pc = "find" /\ UNCHANGED <<memories, embeddings, sound, memLeft>>
  BY DEF FindMemory, AtCall
<1>4. caller[c].memory = 0 /\ caller[c].link = 0
  BY <1>3 DEF MemInv, Knows, Writing
<1>5. \A m \in Existing(c) : m \in DOMAIN memories
  BY DEF Existing, Candidates, Live, Found
<1>6. ASSUME NEW m \in Existing(c), UNCHANGED doubled,
             caller' = [caller EXCEPT ![c].pc = "rewrite", ![c].memory = m,
                                      ![c].link = memories[m].link]
      PROVE  MemInv'
  <2>1. PICK l : l = memories[m].link
    OBVIOUS
  <2>2. PICK s : s = [caller[c] EXCEPT !.pc = "rewrite", !.memory = m, !.link = l]
    OBVIOUS
  <2>3. m \in 0..n /\ l \in 0..k
    BY <1>1, <1>2, <1>5, <2>1, MemTyped DEF MemInv
  <2>4. m \in 1..n /\ (memories[m].link # 0 => embeddings[memories[m].link].memory = m)
    BY <1>2, <1>5 DEF MemInv, Linked
  <2>5. s \in CallerAt(n, k) /\ s.pc = "rewrite" /\ s.memory = m /\ s.link = l
    BY <1>2, <2>2, <2>3 DEF CallerAt, CallPlaces
  <2>6. caller' = [caller EXCEPT ![c] = s]
    BY <1>6, <2>2, <2>1
  <2>7. Informed(s) /\ Taken(c, s)
    BY <1>2, <2>4, <2>5, <2>1 DEF Informed, Taken, Writing
  <2> QED
    BY <1>1, <1>2, <1>3, <1>6, <2>5, <2>6, <2>7, CalmKeeps
<1>7. ASSUME Existing(c) = {}, caller' = [caller EXCEPT ![c].pc = "create"],
             doubled' = IF Creating(caller[c].key) # {} THEN doubled \cup {caller[c].key}
                        ELSE doubled
      PROVE  MemInv'
  <2>1. PICK s : s = [caller[c] EXCEPT !.pc = "create"]
    OBVIOUS
  <2>2. s \in CallerAt(n, k) /\ s.pc = "create" /\ s.memory = 0 /\ s.link = 0
        /\ s.key = caller[c].key /\ s.key \in Keys \cup {NoKey}
    BY <1>2, <1>4, <2>1 DEF CallerAt, CallPlaces
  <2>3. caller' = [caller EXCEPT ![c] = s]
    BY <1>7, <2>1
  <2>4. Informed(s) /\ Taken(c, s)
    BY <2>2 DEF Informed, Taken, Writing
  <2>5. doubled' \subseteq Keys \cup {NoKey} /\ doubled \subseteq doubled'
    BY <1>2, <1>7, <2>2
  <2>6. caller'[c] = s /\ \A d \in Callers \ {c} : caller'[d] = caller[d]
    BY <1>1, <2>3, MemTyped DEF MemInv
  <2>7. ASSUME NEW x \in Keys PROVE KeyOk(x)'
    <3>1. KeyOk(x) /\ memories' = memories
      BY <1>3 DEF MemInv
    <3>2. \A d \in Callers : Creator(d, x)' => Creator(d, x) \/ (d = c /\ s.key = x)
      BY <2>6 DEF Creator
    <3>3. CASE s.key # x
      BY <2>5, <3>1, <3>2, <3>3 DEF KeyOk, Keyed
    <3>4. CASE s.key = x
      <4>1. SUFFICES ASSUME x # NoKey, x \notin doubled' PROVE KeyOk(x)'
        BY DEF KeyOk
      <4>2. \A d \in Callers : ~Creator(d, x)
        BY <1>7, <2>2, <3>4, <4>1 DEF Creating, Creator, AtCall
      <4>3. \A m \in DOMAIN memories : ~Keyed(m, x)
        BY <1>7, <2>2, <3>4, <4>1 DEF Existing, Candidates, Live, Keyed
      <4> QED
        BY <3>1, <3>2, <4>2, <4>3 DEF KeyOk, Keyed
    <3> QED
      BY <3>3, <3>4
  <2> QED
    BY <1>1, <1>2, <1>3, <2>2, <2>3, <2>4, <2>5, <2>7, CalmMoves
<1> QED
  BY <1>6, <1>7 DEF FindMemory

---------------------------------------------------------------------------
(* Steps that write a row.                                                  *)

\* The others learn that memory m was written.
Writes(c, s, m, n, k) ==
    /\ caller' \in [Callers -> CallerAt(n, k)] /\ caller'[c] = s
    /\ \A d \in Callers \ {c} : Same(d) /\ (caller'[d].alone => caller[d].memory # m)

LEMMA WroteTo ==
    ASSUME MemoryTypes, NEW n, NEW k, n = Len(memories), k = Len(embeddings),
           NEW c \in Callers, NEW s \in CallerAt(n, k), NEW m, Wrote(c, s, m)
    PROVE  Writes(c, s, m, n, k)
<1>1. caller \in [Callers -> CallerAt(n, k)]
  BY MemTyped
<1>2. ASSUME NEW d \in Callers \ {c}
      PROVE  /\ caller'[d] \in CallerAt(n, k) /\ Same(d)
             /\ caller'[d].alone => caller[d].memory # m
  <2>1. caller'[d] = [caller[d] EXCEPT !.alone = @ /\ caller[d].memory # m]
    BY DEF Wrote
  <2>2. PICK b \in BOOLEAN : b <=> (caller[d].alone /\ caller[d].memory # m)
    OBVIOUS
  <2>3. caller[d] \in CallerAt(n, k)
    BY <1>1
  <2>4. (caller[d].alone /\ caller[d].memory # m) = b
    BY <2>2, <2>3 DEF CallerAt
  <2>5. caller'[d] = [caller[d] EXCEPT !.alone = b]
    BY <2>1, <2>4
  <2> QED
    BY <2>2, <2>3, <2>5 DEF CallerAt, Same
<1>3. caller'[c] = s /\ caller' = [d \in Callers |-> caller'[d]]
  BY DEF Wrote
<1>4. caller' \in [Callers -> CallerAt(n, k)]
  BY <1>2, <1>3
<1> QED
  BY <1>2, <1>3, <1>4 DEF Writes

LEMMA EachKeeps ==
    ASSUME MemInv, MemoryTypes', Grows, NEW c \in Callers,
           \A d \in Callers \ {c} : Undisturbed(c, d),
           Private(c)', Knows(c)', Linked', \A k \in Keys : KeyOk(k)',
           \A m \in sound' : Saved(m)'
    PROVE  MemInv'
BY OthersKeep DEF MemInv

LEMMA RewriteKeeps ==
    ASSUME MemInv, NEW c \in Callers, Rewrite(c) PROVE MemInv'
<1>1. PICK n, k, m, t : /\ n = Len(memories) /\ k = Len(embeddings)
                        /\ m = caller[c].memory /\ t = caller[c].content
  OBVIOUS
<1>2. /\ n \in Nat /\ k \in Nat /\ DOMAIN memories = 1..n /\ DOMAIN embeddings = 1..k
      /\ memories \in [1..n -> Memory] /\ embeddings \in [1..k -> Embedding]
      /\ \A x \in 1..n : memories[x].link \in 0..k
      /\ caller \in [Callers -> CallerAt(n, k)]
      /\ sound \subseteq 1..n /\ doubled \subseteq Keys \cup {NoKey}
      /\ memLeft \in MemBudgetType
  BY <1>1, MemTyped DEF MemInv
<1>3. /\ caller[c].pc = "rewrite" /\ embeddings' = embeddings /\ doubled' = doubled
      /\ memLeft' = memLeft
  BY DEF Rewrite, AtCall
<1>4. m \in 1..n /\ caller[c].link \in 0..k /\ t \in Content
  BY <1>1, <1>2, <1>3 DEF MemInv, Knows, Writing, CallerAt
<1>5. CASE m \notin Live /\ caller' = [caller EXCEPT ![c] = AtRest]
           /\ UNCHANGED <<memories, sound>>
  BY <1>2, <1>3, <1>5, GivesUp
<1>6. CASE /\ m \in Live /\ memories' = [memories EXCEPT ![m].content = t]
           /\ Wrote(c, [caller[c] EXCEPT !.pc = "upsert"], m) /\ sound' = sound \ {m}
  <2>1. PICK s : s = [caller[c] EXCEPT !.pc = "upsert"]
    OBVIOUS
  <2>2. /\ s \in CallerAt(n, k) /\ s.pc = "upsert" /\ s.memory = m /\ s.content = t
        /\ s.link = caller[c].link /\ s.alone = caller[c].alone
    BY <1>1, <1>2, <2>1 DEF CallerAt, CallPlaces
  <2>3. Writes(c, s, m, n, k)
    <3>1. Wrote(c, s, m)
      BY <1>6, <2>1 DEF Wrote
    <3> QED
      BY <1>1, <2>2, <3>1, WroteTo DEF MemInv
  <2>4. /\ memories' \in [1..n -> Memory] /\ DOMAIN memories' = 1..n
        /\ memories'[m].content = t
        /\ \A x \in 1..n : /\ memories'[x].key = memories[x].key
                           /\ memories'[x].link = memories[x].link
                           /\ memories'[x].live = memories[x].live
                           /\ x # m => memories'[x] = memories[x]
    BY <1>2, <1>4, <1>6 DEF Memory
  <2>5. MemoryTypes'
    BY <1>2, <1>3, <1>6, <2>3, <2>4, TypesAfter DEF Writes
  <2>6. Grows
    BY <1>2, <1>3, <2>4 DEF Grows
  <2>7. ASSUME NEW d \in Callers \ {c} PROVE Undisturbed(c, d)
    <3>1. Same(d) /\ (caller'[d].alone => caller[d].memory # m)
      BY <2>3 DEF Writes
    <3>2. caller[d].pc = "link" =>
             /\ \A x \in 1..n : memories[x].link # caller[d].embedding
             /\ caller[c].link # caller[d].embedding
      BY <1>2 DEF MemInv, Private
    <3>3. caller'[c].link = caller[c].link /\ caller'[c].pc # "link"
      BY <2>2, <2>3 DEF Writes
    <3> QED
      BY <1>2, <1>3, <2>4, <3>1, <3>2, <3>3 DEF Undisturbed
  <2>8. Private(c)'
    BY <2>2, <2>3 DEF Writes, Private
  <2>9. Knows(c)'
    <3>1. Knows(c)
      BY DEF MemInv
    <3>2. caller'[c] = s
      BY <2>3 DEF Writes
    <3>3. memories[m].live
      BY <1>6 DEF Live
    <3> QED
      BY <1>1, <1>2, <1>3, <1>4, <2>2, <2>4, <3>1, <3>2, <3>3 DEF Knows, Writing
  <2>10. Linked'
    BY <1>2, <1>3, <2>4 DEF MemInv, Linked
  <2>11. \A x \in Keys : KeyOk(x)'
    <3>1. \A d \in Callers : caller'[d].pc = "create" =>
              caller[d].pc = "create" /\ caller'[d].key = caller[d].key
      BY <2>2, <2>3 DEF Writes, Same
    <3> QED
      BY <1>2, <1>3, <2>4, <3>1, KeysKeep
  <2>12. ASSUME NEW x \in sound' PROVE Saved(x)'
    <3>1. x # m /\ Saved(x)
      BY <1>6, <2>12 DEF MemInv
    <3> QED
      BY <1>2, <1>3, <2>4, <3>1 DEF Saved
  <2> QED
    BY <2>5, <2>6, <2>7, <2>8, <2>9, <2>10, <2>11, <2>12, EachKeeps
<1> QED
  BY <1>1, <1>5, <1>6 DEF Rewrite

LEMMA UpdateKeeps ==
    ASSUME MemInv, NEW c \in Callers, UpdateEmbedding(c) PROVE MemInv'
<1>1. PICK n, k, m, e, t : /\ n = Len(memories) /\ k = Len(embeddings)
                           /\ m = caller[c].memory /\ e = caller[c].link
                           /\ t = caller[c].content
  OBVIOUS
<1>2. /\ n \in Nat /\ k \in Nat /\ DOMAIN memories = 1..n /\ DOMAIN embeddings = 1..k
      /\ memories \in [1..n -> Memory] /\ embeddings \in [1..k -> Embedding]
      /\ \A x \in 1..n : memories[x].link \in 0..k
      /\ caller \in [Callers -> CallerAt(n, k)]
      /\ sound \subseteq 1..n /\ doubled \subseteq Keys \cup {NoKey}
      /\ memLeft \in MemBudgetType
  BY <1>1, MemTyped DEF MemInv
<1>3. /\ caller[c].pc = "upsert" /\ e # 0
      /\ memories' = memories /\ doubled' = doubled /\ memLeft' = memLeft
  BY <1>1 DEF UpdateEmbedding, AtCall, HasEmbedding
<1>4. Knows(c) /\ m \in 1..n /\ e \in 1..k /\ t \in Content /\ embeddings[e].memory = m
  <2>1. Knows(c)
    BY DEF MemInv
  <2>2. caller[c] \in CallerAt(n, k)
    BY <1>2
  <2> QED
    BY <1>1, <1>2, <1>3, <2>1, <2>2 DEF Knows, Writing, CallerAt
<1>5. embeddings' = [x \in 1..k |-> IF x = e /\ embeddings[x].live
                                    THEN [embeddings[x] EXCEPT !.content = t]
                                    ELSE embeddings[x]]
  BY <1>1, <1>2 DEF UpdateEmbedding
<1>6. /\ embeddings' \in [1..k -> Embedding] /\ DOMAIN embeddings' = 1..k
      /\ \A x \in 1..k : /\ embeddings'[x].memory = embeddings[x].memory
                         /\ embeddings'[x].live = embeddings[x].live
                         /\ x # e => embeddings'[x] = embeddings[x]
      /\ embeddings[e].live => embeddings'[e].content = t
  BY <1>2, <1>4, <1>5 DEF Embedding
<1>7. Writes(c, AtRest, m, n, k)
      /\ sound' = IF caller[c].alone THEN sound \cup {m} ELSE sound \ {m}
  <2>1. AtRest \in CallerAt(n, k)
    BY <1>2, AtRestTyped
  <2> QED
    BY <1>1, <2>1, WroteTo DEF UpdateEmbedding, Done, MemInv
<1>8. AtRest.pc = "idle" /\ AtRest.link = 0 /\ AtRest.memory = 0
  BY DEF AtRest
<1>9. MemoryTypes'
  BY <1>2, <1>3, <1>4, <1>6, <1>7, TypesAfter DEF Writes
<1>10. Grows
  BY <1>2, <1>3, <1>6 DEF Grows
<1>11. ASSUME NEW d \in Callers \ {c} PROVE Undisturbed(c, d)
  <2>1. Same(d)
    BY <1>7 DEF Writes
  <2>2. caller[d].pc = "link" =>
           /\ caller[d].embedding \in 1..k
           /\ \A x \in 1..n : memories[x].link # caller[d].embedding
           /\ e # caller[d].embedding
    BY <1>1, <1>2 DEF MemInv, Private
  <2>3. caller'[c].link = 0 /\ caller'[c].pc # "link"
    BY <1>7, <1>8 DEF Writes
  <2>4. caller[d].pc = "link" =>
           /\ embeddings'[caller[d].embedding] = embeddings[caller[d].embedding]
           /\ caller'[c].link # caller[d].embedding
    BY <1>2, <1>6, <2>2, <2>3
  <2> QED
    BY <1>2, <1>3, <2>1, <2>2, <2>3, <2>4 DEF Undisturbed
<1>12. Private(c)' /\ Knows(c)'
  BY <1>7, <1>8 DEF Writes, Private, Knows, Writing
<1>13. Linked'
  BY <1>2, <1>3, <1>6 DEF MemInv, Linked
<1>14. \A x \in Keys : KeyOk(x)'
  <2>1. \A d \in Callers : caller'[d].pc = "create" =>
            caller[d].pc = "create" /\ caller'[d].key = caller[d].key
    BY <1>7, <1>8 DEF Writes, Same
  <2> QED
    BY <1>2, <1>3, <2>1, KeysKeep
<1>15. ASSUME NEW x \in sound' PROVE Saved(x)'
  <2>1. CASE x = m
    <3>1. caller[c].alone
      BY <1>7, <1>15, <2>1
    <3>2. memories[m].link = e /\ memories[m].live /\ memories[m].content = t
      BY <1>1, <1>3, <1>4, <3>1 DEF Knows
    <3>3. embeddings[e].live
      BY <1>2, <1>3, <1>4, <3>2 DEF MemInv, Linked
    <3> QED
      BY <1>2, <1>3, <1>4, <1>6, <2>1, <3>2, <3>3 DEF Saved
  <2>2. CASE x # m
    <3>1. Saved(x) /\ x \in 1..n
      BY <1>2, <1>7, <1>15, <2>2 DEF MemInv
    <3>2. embeddings[memories[x].link].memory = x /\ memories[x].link \in 1..k
      BY <1>2, <3>1 DEF MemInv, Linked, Saved
    <3>3. memories[x].link # e
      BY <1>4, <2>2, <3>2
    <3> QED
      BY <1>2, <1>3, <1>6, <3>1, <3>2, <3>3 DEF Saved
  <2> QED
    BY <2>1, <2>2
<1> QED
  BY <1>9, <1>10, <1>11, <1>12, <1>13, <1>14, <1>15, EachKeeps

LEMMA LinkKeeps ==
    ASSUME MemInv, NEW c \in Callers, LinkEmbedding(c) PROVE MemInv'
<1>1. PICK n, k, m, e, t : /\ n = Len(memories) /\ k = Len(embeddings)
                           /\ m = caller[c].memory /\ e = caller[c].embedding
                           /\ t = caller[c].content
  OBVIOUS
<1>2. /\ n \in Nat /\ k \in Nat /\ DOMAIN memories = 1..n /\ DOMAIN embeddings = 1..k
      /\ memories \in [1..n -> Memory] /\ embeddings \in [1..k -> Embedding]
      /\ \A x \in 1..n : memories[x].link \in 0..k
      /\ caller \in [Callers -> CallerAt(n, k)]
      /\ sound \subseteq 1..n /\ doubled \subseteq Keys \cup {NoKey}
      /\ memLeft \in MemBudgetType
  BY <1>1, MemTyped DEF MemInv
<1>3. /\ caller[c].pc = "link" /\ embeddings' = embeddings
      /\ doubled' = doubled /\ memLeft' = memLeft
  BY DEF LinkEmbedding, AtCall
<1>4. Knows(c) /\ Private(c) /\ m \in 1..n
  BY <1>1, <1>2, <1>3 DEF MemInv, Knows, Writing
<1>5. /\ e \in 1..k
      /\ embeddings[e].memory = m /\ embeddings[e].content = t /\ embeddings[e].live
      /\ \A d \in Callers \ {c} : caller[d].pc = "link" => caller[d].embedding # e
  BY <1>1, <1>2, <1>3, <1>4 DEF Private
<1>6. CASE m \notin Live /\ caller' = [caller EXCEPT ![c] = AtRest]
           /\ UNCHANGED <<memories, sound>>
  BY <1>2, <1>3, <1>6, GivesUp
<1>7. CASE m \in Live /\ memories' = [memories EXCEPT ![m].link = e] /\ Done(c, m)
  <2>1. /\ memories' \in [1..n -> Memory] /\ DOMAIN memories' = 1..n
        /\ memories'[m].link = e
        /\ \A x \in 1..n : /\ memories'[x].key = memories[x].key
                           /\ memories'[x].content = memories[x].content
                           /\ memories'[x].live = memories[x].live
                           /\ x # m => memories'[x] = memories[x]
    BY <1>2, <1>4, <1>5, <1>7 DEF Memory
  <2>2. Writes(c, AtRest, m, n, k)
        /\ sound' = IF caller[c].alone THEN sound \cup {m} ELSE sound \ {m}
    <3>1. AtRest \in CallerAt(n, k)
      BY <1>2, AtRestTyped
    <3> QED
      BY <1>1, <1>7, <3>1, WroteTo DEF Done, MemInv
  <2>3. AtRest.pc = "idle" /\ AtRest.link = 0 /\ AtRest.memory = 0
    BY DEF AtRest
  <2>4. MemoryTypes'
    <3>1. ASSUME NEW x \in 1..n PROVE memories'[x].link \in 0..k
      <4>1. e \in 0..k
        BY <1>2, <1>5
      <4>2. memories'[x].link = e \/ memories'[x].link = memories[x].link
        BY <2>1, <3>1
      <4> QED
        BY <1>2, <3>1, <4>1, <4>2
    <3> QED
      BY <1>2, <1>3, <1>4, <2>1, <2>2, <3>1, TypesAfter DEF Writes
  <2>5. Grows
    BY <1>2, <1>3, <2>1 DEF Grows
  <2>6. ASSUME NEW d \in Callers \ {c} PROVE Undisturbed(c, d)
    <3>1. Same(d) /\ (caller'[d].alone => caller[d].memory # m)
      BY <2>2 DEF Writes
    <3>2. caller[d].pc = "link" =>
             /\ caller[d].embedding \in 1..k
             /\ \A x \in 1..n : memories'[x].link # caller[d].embedding
      <4>1. caller[d].pc = "link" =>
               /\ caller[d].embedding \in 1..k
               /\ \A x \in 1..n : memories[x].link # caller[d].embedding
        BY <1>2 DEF MemInv, Private
      <4> QED
        BY <1>5, <2>1, <4>1
    <3>3. caller'[c].link = 0 /\ caller'[c].pc # "link"
      BY <2>2, <2>3 DEF Writes
    <3>4. caller[d].pc = "link" => caller'[c].link # caller[d].embedding
      BY <1>2, <3>2, <3>3
    <3> QED
      BY <1>2, <1>3, <2>1, <3>1, <3>2, <3>3, <3>4 DEF Undisturbed
  <2>7. Private(c)' /\ Knows(c)'
    BY <2>2, <2>3 DEF Writes, Private, Knows, Writing
  <2>8. Linked'
    BY <1>2, <1>3, <1>5, <2>1 DEF MemInv, Linked
  <2>9. \A x \in Keys : KeyOk(x)'
    <3>1. \A d \in Callers : caller'[d].pc = "create" =>
              caller[d].pc = "create" /\ caller'[d].key = caller[d].key
      BY <2>2, <2>3 DEF Writes, Same
    <3> QED
      BY <1>2, <1>3, <2>1, <3>1, KeysKeep
  <2>10. ASSUME NEW x \in sound' PROVE Saved(x)'
    <3>1. CASE x = m
      <4>1. memories[m].live /\ memories[m].content = t
        BY <1>1, <1>3, <1>4, <2>2, <2>10, <3>1 DEF Knows
      <4> QED
        BY <1>2, <1>3, <1>4, <1>5, <2>1, <3>1, <4>1 DEF Saved
    <3>2. CASE x # m
      <4>1. Saved(x) /\ x \in 1..n
        BY <1>2, <2>2, <2>10, <3>2 DEF MemInv
      <4> QED
        BY <1>2, <1>3, <2>1, <3>2, <4>1 DEF Saved
    <3> QED
      BY <3>1, <3>2
  <2> QED
    BY <2>4, <2>5, <2>6, <2>7, <2>8, <2>9, <2>10, EachKeeps
<1> QED
  BY <1>1, <1>6, <1>7 DEF LinkEmbedding, LinkOf

LEMMA DropKeeps ==
    ASSUME MemInv, NEW c \in Callers, DeleteMemory(c) PROVE MemInv'
<1>1. PICK n, k, m, e, t : /\ n = Len(memories) /\ k = Len(embeddings)
                           /\ m = caller[c].memory /\ e = caller[c].link
                           /\ t = caller[c].content
  OBVIOUS
<1>2. /\ n \in Nat /\ k \in Nat /\ DOMAIN memories = 1..n /\ DOMAIN embeddings = 1..k
      /\ memories \in [1..n -> Memory] /\ embeddings \in [1..k -> Embedding]
      /\ \A x \in 1..n : memories[x].link \in 0..k
      /\ caller \in [Callers -> CallerAt(n, k)]
      /\ sound \subseteq 1..n /\ doubled \subseteq Keys \cup {NoKey}
      /\ memLeft \in MemBudgetType
  BY <1>1, MemTyped DEF MemInv
<1>3. /\ caller[c].pc = "drop" /\ embeddings' = embeddings
      /\ doubled' = doubled /\ memLeft' = memLeft /\ sound' = sound \ {m}
      /\ memories' = [memories EXCEPT ![m].live = FALSE]
  BY <1>1 DEF DeleteMemory, AtCall
<1>4. m \in 1..n
  BY <1>1, <1>2, <1>3 DEF MemInv, Knows, Writing
<1>5. /\ memories' \in [1..n -> Memory] /\ DOMAIN memories' = 1..n
      /\ ~memories'[m].live
      /\ \A x \in 1..n : /\ memories'[x].key = memories[x].key
                         /\ memories'[x].link = memories[x].link
                         /\ x # m => memories'[x] = memories[x]
  BY <1>2, <1>3, <1>4 DEF Memory
<1>6. Writes(c, AtRest, m, n, k)
  <2>1. AtRest \in CallerAt(n, k)
    BY <1>2, AtRestTyped
  <2> QED
    BY <1>1, <2>1, WroteTo DEF DeleteMemory, MemInv
<1>7. AtRest.pc = "idle" /\ AtRest.link = 0 /\ AtRest.memory = 0
  BY DEF AtRest
<1>8. MemoryTypes'
  BY <1>2, <1>3, <1>5, <1>6, TypesAfter DEF Writes
<1>9. Grows
  BY <1>2, <1>3, <1>5 DEF Grows
<1>10. ASSUME NEW d \in Callers \ {c} PROVE Undisturbed(c, d)
  <2>1. Same(d) /\ (caller'[d].alone => caller[d].memory # m)
    BY <1>6 DEF Writes
  <2>2. caller[d].pc = "link" =>
           /\ caller[d].embedding \in 1..k
           /\ \A x \in 1..n : memories[x].link # caller[d].embedding
    BY <1>2 DEF MemInv, Private
  <2>3. caller'[c].link = 0 /\ caller'[c].pc # "link"
    BY <1>6, <1>7 DEF Writes
  <2>4. caller[d].pc = "link" => caller'[c].link # caller[d].embedding
    BY <1>2, <2>2, <2>3
  <2> QED
    BY <1>2, <1>3, <1>5, <2>1, <2>2, <2>3, <2>4 DEF Undisturbed
<1>11. Private(c)' /\ Knows(c)'
  BY <1>6, <1>7 DEF Writes, Private, Knows, Writing
<1>12. Linked'
  BY <1>2, <1>3, <1>5 DEF MemInv, Linked
<1>13. \A x \in Keys : KeyOk(x)'
  <2>1. \A d \in Callers : caller'[d].pc = "create" =>
            caller[d].pc = "create" /\ caller'[d].key = caller[d].key
    BY <1>6, <1>7 DEF Writes, Same
  <2> QED
    BY <1>2, <1>3, <1>5, <2>1, KeysKeep
<1>14. ASSUME NEW x \in sound' PROVE Saved(x)'
  <2>1. x # m /\ x \in 1..n /\ Saved(x)
    BY <1>2, <1>3, <1>14 DEF MemInv
  <2> QED
    BY <1>2, <1>3, <1>5, <2>1 DEF Saved
<1> QED
  BY <1>8, <1>9, <1>10, <1>11, <1>12, <1>13, <1>14, EachKeeps

LEMMA UnembedKeeps ==
    ASSUME MemInv, NEW c \in Callers, DeleteEmbedding(c) PROVE MemInv'
<1>1. PICK n, k, m, e, t : /\ n = Len(memories) /\ k = Len(embeddings)
                           /\ m = caller[c].memory /\ e = caller[c].link
                           /\ t = caller[c].content
  OBVIOUS
<1>2. /\ n \in Nat /\ k \in Nat /\ DOMAIN memories = 1..n /\ DOMAIN embeddings = 1..k
      /\ memories \in [1..n -> Memory] /\ embeddings \in [1..k -> Embedding]
      /\ \A x \in 1..n : memories[x].link \in 0..k
      /\ caller \in [Callers -> CallerAt(n, k)]
      /\ sound \subseteq 1..n /\ doubled \subseteq Keys \cup {NoKey}
      /\ memLeft \in MemBudgetType
  BY <1>1, MemTyped DEF MemInv
<1>3. caller[c].pc = "unembed" /\ doubled' = doubled
  BY DEF DeleteEmbedding, AtCall
<1>4. m \in 1..n /\ e \in 0..k /\ (e # 0 => embeddings[e].memory = m)
  <2>1. Knows(c) /\ caller[c] \in CallerAt(n, k)
    BY <1>2 DEF MemInv
  <2> QED
    BY <1>1, <1>2, <1>3, <2>1 DEF Knows, Writing, CallerAt
<1>5. PICK s : s = [caller[c] EXCEPT !.pc = "drop"]
  OBVIOUS
<1>6. s \in CallerAt(n, k) /\ s.pc = "drop" /\ s.memory = m /\ s.link = e
  BY <1>1, <1>2, <1>5 DEF CallerAt, CallPlaces
<1>7. CASE MemFault /\ caller' = [caller EXCEPT ![c] = s]
           /\ UNCHANGED <<memories, embeddings, sound>>
  <2>1. Informed(s) /\ Taken(c, s)
    BY <1>1, <1>2, <1>4, <1>6 DEF Informed, Taken, Writing
  <2>2. memLeft' \in MemBudgetType
    BY <1>7, MemSpends DEF MemInv
  <2> QED
    BY <1>1, <1>3, <1>6, <1>7, <2>1, <2>2, CalmKeeps
<1>8. CASE /\ embeddings' = [embeddings EXCEPT ![e].live = FALSE]
           /\ memories' = [x \in DOMAIN memories |->
                 IF memories[x].link = e THEN Unlinked(memories[x]) ELSE memories[x]]
           /\ Wrote(c, s, m) /\ sound' = sound \ {m} /\ UNCHANGED memLeft
  <2>1. /\ embeddings' \in [1..k -> Embedding] /\ DOMAIN embeddings' = 1..k
        /\ \A x \in 1..k : /\ embeddings'[x].memory = embeddings[x].memory
                           /\ x # e => embeddings'[x] = embeddings[x]
    BY <1>2, <1>8 DEF Embedding
  <2>2. /\ memories' \in [1..n -> Memory] /\ DOMAIN memories' = 1..n
        /\ \A x \in 1..n : /\ memories'[x].key = memories[x].key
                           /\ memories'[x].live = memories[x].live
                           /\ memories'[x].content = memories[x].content
                           /\ memories[x].link = e => memories'[x].link = 0
                           /\ memories[x].link # e => memories'[x].link = memories[x].link
    BY <1>2, <1>8 DEF Memory, Unlinked
  <2>3. \A x \in 1..n : x # m => memories'[x].link = memories[x].link
    <3>1. ASSUME NEW x \in 1..n, x # m, memories[x].link = e PROVE e = 0
      <4>1. e # 0 => embeddings[e].memory = x
        BY <1>2, <3>1 DEF MemInv, Linked
      <4> QED
        BY <1>4, <3>1, <4>1
    <3> QED
      BY <2>2, <3>1
  <2>4. Writes(c, s, m, n, k)
    BY <1>1, <1>6, <1>8, WroteTo DEF MemInv
  <2>5. MemoryTypes'
    <3>1. ASSUME NEW x \in 1..n PROVE memories'[x].link \in 0..k
      <4>1. memories'[x].link = 0 \/ memories'[x].link = memories[x].link
        BY <2>2, <3>1
      <4> QED
        BY <1>2, <3>1, <4>1
    <3> QED
      BY <1>2, <1>3, <1>8, <2>1, <2>2, <2>4, <3>1, TypesAfter DEF Writes
  <2>6. Grows
    BY <1>2, <2>1, <2>2 DEF Grows
  <2>7. ASSUME NEW d \in Callers \ {c} PROVE Undisturbed(c, d)
    <3>1. Same(d) /\ (caller'[d].alone => caller[d].memory # m)
      BY <2>4 DEF Writes
    <3>2. caller[d].pc = "link" =>
             /\ caller[d].embedding \in 1..k /\ caller[d].embedding # e
             /\ \A x \in 1..n : memories[x].link # caller[d].embedding
      BY <1>1, <1>2 DEF MemInv, Private
    <3>3. caller[d].pc = "link" =>
             \A x \in 1..n : memories'[x].link # caller[d].embedding
      <4>1. \A x \in 1..n : memories'[x].link \in {0, memories[x].link}
        BY <2>2
      <4> QED
        BY <1>2, <3>2, <4>1
    <3>4. caller'[c].link = e /\ caller'[c].pc # "link"
      BY <1>6, <2>4 DEF Writes
    <3>5. caller'[d].alone /\ caller[d].memory \in 1..n =>
             memories'[caller[d].memory].link = memories[caller[d].memory].link
      BY <2>3, <3>1
    <3> QED
      BY <1>2, <2>1, <2>2, <3>1, <3>2, <3>3, <3>4, <3>5 DEF Undisturbed
  <2>8. Private(c)'
    BY <1>6, <2>4 DEF Writes, Private
  <2>9. Knows(c)'
    <3>1. e # 0 => embeddings'[e].memory = m
      BY <1>2, <1>4, <2>1
    <3>2. caller'[c] = s
      BY <2>4 DEF Writes
    <3> QED
      BY <1>4, <1>6, <2>2, <3>1, <3>2 DEF Knows, Writing
  <2>10. Linked'
    <3>1. ASSUME NEW x \in 1..n, memories'[x].link # 0
          PROVE  /\ embeddings'[memories'[x].link].live
                 /\ embeddings'[memories'[x].link].memory = x
      <4>1. memories[x].link # e /\ memories'[x].link = memories[x].link
        BY <2>2, <3>1
      <4>2. /\ memories[x].link \in 1..k /\ embeddings[memories[x].link].live
            /\ embeddings[memories[x].link].memory = x
        BY <1>2, <3>1, <4>1 DEF MemInv, Linked
      <4> QED
        BY <2>1, <4>1, <4>2
    <3> QED
      BY <2>2, <3>1 DEF Linked
  <2>11. \A x \in Keys : KeyOk(x)'
    <3>1. \A d \in Callers : caller'[d].pc = "create" =>
              caller[d].pc = "create" /\ caller'[d].key = caller[d].key
      BY <1>6, <2>4 DEF Writes, Same
    <3> QED
      BY <1>2, <1>3, <2>2, <3>1, KeysKeep
  <2>12. ASSUME NEW x \in sound' PROVE Saved(x)'
    <3>1. x # m /\ x \in 1..n /\ Saved(x)
      BY <1>2, <1>8, <2>12 DEF MemInv
    <3>2. memories[x].link \in 1..k /\ embeddings[memories[x].link].memory = x
      BY <1>2, <3>1 DEF MemInv, Linked, Saved
    <3>3. memories[x].link # e
      BY <1>2, <1>4, <3>1, <3>2
    <3> QED
      BY <2>1, <2>2, <3>1, <3>2, <3>3 DEF Saved
  <2> QED
    BY <2>5, <2>6, <2>7, <2>8, <2>9, <2>10, <2>11, <2>12, EachKeeps
<1>9. \/ /\ embeddings' = [embeddings EXCEPT ![e].live = FALSE]
         /\ memories' = [x \in DOMAIN memories |->
               IF memories[x].link = e THEN Unlinked(memories[x]) ELSE memories[x]]
         /\ Wrote(c, s, m) /\ sound' = sound \ {m} /\ UNCHANGED memLeft
      \/ /\ MemFault /\ caller' = [caller EXCEPT ![c] = s]
         /\ UNCHANGED <<memories, embeddings, sound>>
  BY <1>1, <1>5 DEF DeleteEmbedding, Wrote
<1> QED
  BY <1>7, <1>8, <1>9

LEMMA Appended ==
    ASSUME NEW T, NEW q \in Seq(T), NEW r \in T, NEW n, n = Len(q)
    PROVE  /\ Append(q, r) \in [1..n + 1 -> T] /\ DOMAIN Append(q, r) = 1..n + 1
           /\ Append(q, r)[n + 1] = r /\ \A x \in 1..n : Append(q, r)[x] = q[x]
<1>1. /\ Append(q, r) \in Seq(T) /\ Len(Append(q, r)) = n + 1
      /\ Append(q, r)[n + 1] = r /\ \A x \in 1..n : Append(q, r)[x] = q[x]
  BY AppendProperties
<1>2. \A p \in Seq(T) : p \in [1..Len(p) -> T] /\ DOMAIN p = 1..Len(p)
  OBVIOUS
<1> QED
  BY <1>1, <1>2

LEMMA CreateKeeps ==
    ASSUME MemInv, NEW c \in Callers, CreateMemory(c) PROVE MemInv'
<1>1. PICK n, k, m, e, t : /\ n = Len(memories) /\ k = Len(embeddings)
                           /\ m = caller[c].memory /\ e = caller[c].link
                           /\ t = caller[c].content
  OBVIOUS
<1>2. /\ n \in Nat /\ k \in Nat /\ DOMAIN memories = 1..n /\ DOMAIN embeddings = 1..k
      /\ memories \in [1..n -> Memory] /\ embeddings \in [1..k -> Embedding]
      /\ \A x \in 1..n : memories[x].link \in 0..k
      /\ caller \in [Callers -> CallerAt(n, k)]
      /\ sound \subseteq 1..n /\ doubled \subseteq Keys \cup {NoKey}
      /\ memLeft \in MemBudgetType
  BY <1>1, MemTyped DEF MemInv
<1>3. /\ caller[c].pc = "create" /\ embeddings' = embeddings /\ sound' = sound
      /\ doubled' = doubled /\ memLeft' = memLeft
  BY DEF CreateMemory, AtCall
<1>4. e = 0
  BY <1>1, <1>3 DEF MemInv, Knows, Writing
<1>5. PICK g : g = caller[c].key
  OBVIOUS
<1>6. PICK r : r = [key |-> g, content |-> t, link |-> 0, live |-> TRUE]
  OBVIOUS
<1>7. caller[c] \in CallerAt(n, k)
  BY <1>2
<1>8. r \in Memory /\ r.key = g /\ r.content = t /\ r.link = 0 /\ r.live
  BY <1>1, <1>5, <1>6, <1>7 DEF CallerAt, Memory
<1>9. memories' = Append(memories, r)
  BY <1>1, <1>5, <1>6 DEF CreateMemory
<1>10. /\ memories' \in [1..n + 1 -> Memory] /\ DOMAIN memories' = 1..n + 1
       /\ memories'[n + 1] = r /\ \A x \in 1..n : memories'[x] = memories[x]
  <2>1. memories \in Seq(Memory) /\ Len(memories) = n
    BY <1>1 DEF MemInv, MemoryTypes
  <2>2. PICK q \in Seq(Memory) : q = memories
    BY <2>1
  <2> QED
    BY <1>8, <1>9, <2>1, <2>2, Appended
<1>11. PICK s : s = [caller[c] EXCEPT !.pc = "embed", !.memory = n + 1]
  OBVIOUS
<1>12. CallerAt(n, k) \subseteq CallerAt(n + 1, k)
  BY <1>2 DEF CallerAt
<1>13. /\ s \in CallerAt(n + 1, k) /\ s.pc = "embed" /\ s.memory = n + 1
       /\ s.link = 0 /\ s.content = t /\ s.key = g
  <2>1. PICK b \in 0..n + 1 : b = n + 1
    BY <1>2
  <2>2. caller[c] \in CallerAt(n + 1, k)
    BY <1>7, <1>12
  <2> QED
    BY <1>1, <1>4, <1>5, <1>11, <2>1, <2>2 DEF CallerAt, CallPlaces
<1>14. caller' = [caller EXCEPT ![c] = s]
  BY <1>1, <1>11 DEF CreateMemory
<1>15. /\ caller' \in [Callers -> CallerAt(n + 1, k)] /\ caller'[c] = s
       /\ \A d \in Callers \ {c} : caller'[d] = caller[d]
  BY <1>2, <1>13, <1>14, <1>12
<1>16. MemoryTypes'
  <2>1. \A x \in 1..n + 1 : memories'[x].link \in 0..k
    <3>1. \A x \in 1..n + 1 : x \in 1..n \/ x = n + 1
      BY <1>2
    <3> QED
      BY <1>2, <1>8, <1>10, <3>1
  <2>2. n + 1 \in Nat /\ sound' \subseteq 1..n + 1
    BY <1>2, <1>3
  <2>3. /\ embeddings' \in [1..k -> Embedding] /\ doubled' \subseteq Keys \cup {NoKey}
        /\ memLeft' \in MemBudgetType
    BY <1>2, <1>3
  <2> QED
    BY <1>2, <1>10, <1>15, <2>1, <2>2, <2>3, TypesAfter
<1>17. \A x \in 1..n : x \in 1..n + 1
  BY <1>2
<1>18. Grows
  BY <1>2, <1>3, <1>10, <1>17 DEF Grows
<1>19. ASSUME NEW d \in Callers \ {c} PROVE Undisturbed(c, d)
  <2>1. Same(d)
    BY <1>15 DEF Same
  <2>2. caller[d].pc = "link" =>
           /\ caller[d].embedding \in 1..k
           /\ \A x \in 1..n : memories[x].link # caller[d].embedding
    BY <1>2 DEF MemInv, Private
  <2>3. caller[d].pc = "link" => caller[d].embedding # 0
    BY <1>2, <2>2
  <2>4. caller[d].pc = "link" => \A x \in 1..n + 1 : memories'[x].link # caller[d].embedding
    <3>1. \A x \in 1..n + 1 : x \in 1..n \/ x = n + 1
      BY <1>2
    <3> QED
      BY <1>8, <1>10, <2>2, <2>3, <3>1
  <2> QED
    BY <1>2, <1>3, <1>10, <1>13, <1>15, <2>1, <2>3, <2>4 DEF Undisturbed
<1>20. Private(c)'
  BY <1>13, <1>15 DEF Private
<1>21. Knows(c)'
  <2>1. n + 1 \in DOMAIN memories'
    BY <1>2, <1>10
  <2> QED
    BY <1>8, <1>10, <1>13, <1>15, <2>1 DEF Knows, Writing
<1>22. Linked'
  <2>1. ASSUME NEW x \in 1..n + 1, memories'[x].link # 0
        PROVE  /\ embeddings'[memories'[x].link].live
               /\ embeddings'[memories'[x].link].memory = x
    <3>1. x \in 1..n
      BY <1>2, <1>8, <1>10, <2>1
    <3> QED
      BY <1>2, <1>3, <1>10, <2>1, <3>1 DEF MemInv, Linked
  <2> QED
    BY <1>10, <2>1 DEF Linked
<1>23. ASSUME NEW x \in Keys PROVE KeyOk(x)'
  <2>1. KeyOk(x)
    BY DEF MemInv
  <2>2. \A d \in Callers : Creator(d, x)' => d # c /\ Creator(d, x)
    BY <1>13, <1>15 DEF Creator
  <2>3. \A y \in 1..n + 1 : Keyed(y, x)' => (y \in 1..n /\ Keyed(y, x)) \/ (y = n + 1 /\ g = x)
    <3>1. \A y \in 1..n + 1 : y \in 1..n \/ y = n + 1
      BY <1>2
    <3> QED
      BY <1>8, <1>10, <3>1 DEF Keyed
  <2>4. g = x => Creator(c, x)
    BY <1>3, <1>5 DEF Creator
  <2> QED
    BY <1>2, <1>3, <1>10, <2>1, <2>2, <2>3, <2>4 DEF KeyOk
<1>24. ASSUME NEW x \in sound' PROVE Saved(x)'
  <2>1. x \in 1..n /\ Saved(x)
    BY <1>2, <1>3, <1>24 DEF MemInv
  <2> QED
    BY <1>3, <1>10, <1>17, <2>1 DEF Saved
<1> QED
  BY <1>16, <1>18, <1>19, <1>20, <1>21, <1>22, <1>23, <1>24, EachKeeps

LEMMA InsertKeeps ==
    ASSUME MemInv, NEW c \in Callers, InsertEmbedding(c) PROVE MemInv'
<1>1. PICK n, k, m, e, t : /\ n = Len(memories) /\ k = Len(embeddings)
                           /\ m = caller[c].memory /\ e = caller[c].link
                           /\ t = caller[c].content
  OBVIOUS
<1>2. /\ n \in Nat /\ k \in Nat /\ DOMAIN memories = 1..n /\ DOMAIN embeddings = 1..k
      /\ memories \in [1..n -> Memory] /\ embeddings \in [1..k -> Embedding]
      /\ \A x \in 1..n : memories[x].link \in 0..k
      /\ caller \in [Callers -> CallerAt(n, k)]
      /\ sound \subseteq 1..n /\ doubled \subseteq Keys \cup {NoKey}
      /\ memLeft \in MemBudgetType
  BY <1>1, MemTyped DEF MemInv
<1>3. /\ caller[c].pc = "embed" \/ (caller[c].pc = "upsert" /\ e = 0)
      /\ memories' = memories /\ sound' = sound /\ doubled' = doubled /\ memLeft' = memLeft
  BY <1>1 DEF InsertEmbedding, AtCall, HasEmbedding
<1>4. Knows(c) /\ m \in 1..n /\ caller[c] \in CallerAt(n, k)
  BY <1>1, <1>2, <1>3 DEF MemInv, Knows, Writing
<1>5. e \in 0..k /\ t \in Content /\ (e # 0 => embeddings[e].memory = m)
  BY <1>1, <1>4 DEF Knows, CallerAt
<1>6. PICK r : r = [memory |-> m, content |-> t, live |-> TRUE]
  OBVIOUS
<1>7. r \in Embedding /\ r.memory = m
  BY <1>2, <1>4, <1>5, <1>6 DEF Embedding
<1>8. embeddings' = Append(embeddings, r)
  BY <1>1, <1>6 DEF InsertEmbedding
<1>9. /\ embeddings' \in [1..k + 1 -> Embedding] /\ DOMAIN embeddings' = 1..k + 1
      /\ embeddings'[k + 1] = r /\ \A x \in 1..k : embeddings'[x] = embeddings[x]
  <2>1. embeddings \in Seq(Embedding) /\ Len(embeddings) = k
    BY <1>1 DEF MemInv, MemoryTypes
  <2>2. PICK q \in Seq(Embedding) : q = embeddings
    BY <2>1
  <2> QED
    BY <1>7, <1>8, <2>1, <2>2, Appended
<1>10. PICK s : s = [caller[c] EXCEPT !.pc = "link", !.embedding = k + 1]
  OBVIOUS
<1>11. CallerAt(n, k) \subseteq CallerAt(n, k + 1)
  BY <1>2 DEF CallerAt
<1>12. /\ s \in CallerAt(n, k + 1) /\ s.pc = "link" /\ s.embedding = k + 1
       /\ s.memory = m /\ s.link = e /\ s.content = t /\ s.alone = caller[c].alone
  <2>1. PICK b \in 0..k + 1 : b = k + 1
    BY <1>2
  <2>2. caller[c] \in CallerAt(n, k + 1)
    BY <1>4, <1>11
  <2> QED
    BY <1>1, <1>10, <2>1, <2>2 DEF CallerAt, CallPlaces
<1>13. caller' = [caller EXCEPT ![c] = s]
  BY <1>1, <1>10 DEF InsertEmbedding
<1>14. /\ caller' \in [Callers -> CallerAt(n, k + 1)] /\ caller'[c] = s
       /\ \A d \in Callers \ {c} : caller'[d] = caller[d]
  BY <1>2, <1>12, <1>13, <1>11
<1>15. MemoryTypes'
  <2>1. \A x \in 1..n : memories'[x].link \in 0..k + 1
    BY <1>2, <1>3
  <2>2. /\ k + 1 \in Nat /\ memories' \in [1..n -> Memory] /\ sound' \subseteq 1..n
        /\ doubled' \subseteq Keys \cup {NoKey} /\ memLeft' \in MemBudgetType
    BY <1>2, <1>3
  <2> QED
    BY <1>2, <1>9, <1>14, <2>1, <2>2, TypesAfter
<1>16. \A x \in 1..k : x \in 1..k + 1
  BY <1>2
<1>17. Grows
  BY <1>2, <1>3, <1>9, <1>16 DEF Grows
<1>18. \A d \in Callers : /\ caller[d].link \in 0..k /\ caller[d].embedding \in 0..k
  BY <1>2 DEF CallerAt
<1>19. k + 1 \notin 0..k
  BY <1>2
<1>20. ASSUME NEW d \in Callers \ {c} PROVE Undisturbed(c, d)
  <2>1. Same(d)
    BY <1>14 DEF Same
  <2>2. caller[d].pc = "link" =>
           /\ caller[d].embedding \in 1..k /\ caller[d].embedding # e
           /\ \A x \in 1..n : memories[x].link # caller[d].embedding
    BY <1>1, <1>2 DEF MemInv, Private
  <2>3. caller'[c].link = e /\ caller'[c].embedding = k + 1
    BY <1>12, <1>14
  <2>4. caller[d].embedding # k + 1
    BY <1>18, <1>19
  <2> QED
    BY <1>2, <1>3, <1>9, <2>1, <2>2, <2>3, <2>4 DEF Undisturbed
<1>21. Private(c)'
  <2>1. \A x \in 1..n : memories[x].link # k + 1
    BY <1>2, <1>19
  <2>2. \A d \in Callers : /\ caller'[d].link # k + 1
                           /\ d # c => caller'[d].embedding # k + 1
    BY <1>5, <1>12, <1>14, <1>18, <1>19
  <2>3. k + 1 \in DOMAIN embeddings'
    BY <1>2, <1>9
  <2> QED
    BY <1>2, <1>3, <1>6, <1>9, <1>12, <1>14, <2>1, <2>2, <2>3 DEF Private
<1>22. Knows(c)'
  <2>1. e # 0 => embeddings'[e].memory = m
    BY <1>2, <1>5, <1>9
  <2>2. caller[c].alone => memories[m].live /\ memories[m].content = t
    BY <1>1, <1>3, <1>4 DEF Knows
  <2> QED
    BY <1>2, <1>3, <1>4, <1>12, <1>14, <2>1, <2>2 DEF Knows, Writing
<1>23. Linked'
  <2>1. ASSUME NEW x \in 1..n, memories[x].link # 0
        PROVE  /\ embeddings'[memories[x].link].live
               /\ embeddings'[memories[x].link].memory = x
    <3>1. /\ memories[x].link \in 1..k /\ embeddings[memories[x].link].live
          /\ embeddings[memories[x].link].memory = x
      BY <1>2, <2>1 DEF MemInv, Linked
    <3> QED
      BY <1>9, <3>1
  <2> QED
    BY <1>2, <1>3, <2>1 DEF Linked
<1>24. \A x \in Keys : KeyOk(x)'
  <2>1. \A d \in Callers : caller'[d].pc = "create" =>
            caller[d].pc = "create" /\ caller'[d].key = caller[d].key
    BY <1>12, <1>14
  <2> QED
    BY <1>2, <1>3, <2>1, KeysKeep
<1>25. ASSUME NEW x \in sound' PROVE Saved(x)'
  <2>1. x \in 1..n /\ Saved(x) /\ memories[x].link \in 1..k
    BY <1>2, <1>3, <1>25 DEF MemInv, Saved
  <2> QED
    BY <1>3, <1>9, <2>1 DEF Saved
<1> QED
  BY <1>15, <1>17, <1>20, <1>21, <1>22, <1>23, <1>24, <1>25, EachKeeps

---------------------------------------------------------------------------
LEMMA MemBegins == Init => MemInv
<1> SUFFICES ASSUME MemInit PROVE MemInv
  BY DEF Init
<1>1. /\ memories = <<>> /\ embeddings = <<>> /\ sound = {} /\ doubled = {}
      /\ caller = [c \in Callers |-> AtRest]
  BY DEF MemInit
<1>2. memLeft \in MemBudgetType
  BY MemoryAssumption DEF MemInit, MemBudgetType
<1>3. AtRest \in CallerAt(0, 0)
  BY AtRestTyped
<1>4. MemoryTypes
  <2>1. caller \in [Callers -> CallerAt(Len(memories), Len(embeddings))]
    BY <1>1, <1>3
  <2> QED
    BY <1>1, <1>2, <2>1 DEF MemoryTypes, CallerAt, CallPlaces, MemBudgetType
<1>5. ASSUME NEW c \in Callers PROVE caller[c].pc = "idle" /\ caller[c].link = 0
                                     /\ caller[c].memory = 0
  BY <1>1, <1>5 DEF AtRest
<1>6. DOMAIN memories = {}
  BY <1>1
<1>7. \A c \in Callers : Private(c) /\ Knows(c)
  BY <1>5 DEF Private, Knows, Writing
<1>8. \A k \in Keys : KeyOk(k)
  BY <1>5, <1>6 DEF KeyOk, Creator
<1>9. Linked /\ \A m \in sound : Saved(m)
  BY <1>1, <1>6 DEF Linked
<1> QED
  BY <1>4, <1>7, <1>8, <1>9 DEF MemInv

LEMMA MemIdles == ASSUME MemInv, UNCHANGED memVars PROVE MemInv'
<1>1. /\ memories' = memories /\ embeddings' = embeddings /\ caller' = caller
      /\ sound' = sound /\ doubled' = doubled /\ memLeft' = memLeft
  BY DEF memVars
<1>2. MemoryTypes' /\ Linked'
  BY <1>1 DEF MemInv, MemoryTypes, Linked
<1>3. \A c \in Callers : Private(c)' /\ Knows(c)'
  BY <1>1 DEF MemInv, Private, Knows
<1>4. \A k \in Keys : KeyOk(k)'
  BY <1>1 DEF MemInv, KeyOk, Creator, Keyed
<1>5. \A m \in sound' : Saved(m)'
  BY <1>1 DEF MemInv, Saved
<1> QED
  BY <1>2, <1>3, <1>4, <1>5 DEF MemInv

LEMMA MemGoesOn == MemInv /\ [Next]_vars => MemInv'
<1> SUFFICES ASSUME MemInv, [Next]_vars PROVE MemInv'
  OBVIOUS
<1>1. CASE UNCHANGED memVars
  BY <1>1, MemIdles
<1>2. CASE MemNext
  <2>1. PICK c \in Callers :
           \/ \E k \in Keys \cup {NoKey}, t \in Topics : Save(c, k, t)
           \/ FindMemory(c) \/ Rewrite(c) \/ UpdateEmbedding(c)
           \/ CreateMemory(c) \/ InsertEmbedding(c) \/ LinkEmbedding(c)
           \/ \E m \in Live, t \in Topics : Update(c, m, t)
           \/ \E m \in Live : Delete(c, m)
           \/ DeleteEmbedding(c) \/ DeleteMemory(c)
           \/ MemoryFails(c)
    BY <1>2 DEF MemNext
  <2>2. \A m \in Live : m \in DOMAIN memories /\ memories[m].content.topic \in Topics
    <3>1. PICK n, k : n = Len(memories) /\ k = Len(embeddings)
      OBVIOUS
    <3> QED
      BY <3>1, MemTyped DEF MemInv, Live, Memory, Content
  <2>3. ASSUME NEW m \in Live, NEW t \in Topics, Update(c, m, t) PROVE MemInv'
    BY <2>2, <2>3, GetKeeps DEF Update
  <2>4. ASSUME NEW m \in Live, Delete(c, m) PROVE MemInv'
    <3>1. PICK p \in {"unembed", "drop"}, t \in Topics : GetById(c, m, p, t)
      BY <2>2, <2>4 DEF Delete
    <3> QED
      BY <2>2, <3>1, GetKeeps
  <2>5. ASSUME NEW k \in Keys \cup {NoKey}, NEW t \in Topics, Save(c, k, t) PROVE MemInv'
    BY <2>5, SaveKeeps
  <2> QED
    BY <2>1, <2>3, <2>4, <2>5, FindKeeps, RewriteKeeps, UpdateKeeps, CreateKeeps,
       InsertKeeps, LinkKeeps, UnembedKeeps, DropKeeps, FailKeeps
<1> QED
  BY <1>1, <1>2 DEF Next, vars

\* The inductive invariant: links, what requests hold of their memories, keys.
THEOREM MemoryInvariant == Spec => []MemInv
BY MemBegins, MemGoesOn, PTL DEF Spec

\* Every variable of the memories keeps its type.
THEOREM MemoriesTyped == Spec => []MemoryTypes
<1>1. MemInv => MemoryTypes
  BY DEF MemInv
<1> QED
  BY <1>1, MemoryInvariant, PTL

\* A key has one memory, however often and by whomever it is saved, updated and
\* deleted, unless two requests were creating it at a time.
THEOREM OneMemoryPerKey == Spec => []KeyedOnce
<1>1. ASSUME MemInv PROVE KeyedOnce
  <2>1. SUFFICES ASSUME NEW m \in Live, NEW n \in Live,
                        memories[m].key = memories[n].key, memories[m].key # NoKey,
                        memories[m].key \notin doubled
                 PROVE  m = n
    BY DEF KeyedOnce
  <2>2. /\ m \in DOMAIN memories /\ memories[m].live
        /\ n \in DOMAIN memories /\ memories[n].live
    BY DEF Live
  <2>3. PICK k \in Keys : k = memories[m].key
    <3>1. PICK x, y : x = Len(memories) /\ y = Len(embeddings)
      OBVIOUS
    <3> QED
      BY <1>1, <2>1, <2>2, <3>1, MemTyped DEF MemInv, Memory
  <2>4. KeyOk(k)
    BY <1>1 DEF MemInv
  <2> QED
    BY <2>1, <2>2, <2>3, <2>4 DEF KeyOk, Keyed
<1> QED
  BY <1>1, MemoryInvariant, PTL

\* A memory that a request saved or updated alone is found by a search, by the
\* content it has, whatever had stopped half-way before.
THEOREM SavedAreFound == Spec => []SavedIsFound
<1>1. ASSUME MemInv PROVE SavedIsFound
  <2>1. \A m \in sound : Saved(m)
    BY <1>1 DEF MemInv
  <2>2. \A m \in sound : embeddings[memories[m].link].live
    BY <1>1, <2>1 DEF MemInv, Linked, Saved
  <2> QED
    BY <2>1, <2>2 DEF SavedIsFound, Saved, Found, Live
<1> QED
  BY <1>1, MemoryInvariant, PTL
=============================================================================
