--------------------------- MODULE AdmissionProofs ---------------------------
(***************************************************************************)
(* Proofs about Admission: one execution per idempotency key, none without   *)
(* a job but for failures, a cache that follows the row, changes that        *)
(* compose, for any number of requests, administrators, keys and limits.     *)
(***************************************************************************)
EXTENDS Admission, SequenceTheorems, FiniteSetTheorems, TLAPS

Spots == {"idle", "lookup", "load", "fill", "check", "find", "create", "enqueue"}

Locals(n) == [pc : Spots, key : Keys \cup {NoKey}, seen : Settings \cup {NoSettings},
              aged : BOOLEAN, execution : 0..n]

Answers(n) == [key : Keys \cup {NoKey}, execution : 1..n]
Excuses(n) == [cache : BOOLEAN, over : Nat, change : BOOLEAN, lost : SUBSET (1..n)]
Budget     == [executions : Nat, changes : Nat, faults : Nat]
AdminLocals == [pc : {"idle", "write", "invalidate"}, seen : Settings, aged : BOOLEAN,
                change : Change]

\* Keys and executions name each other, and requests and answers agree.
Keyed ==
    /\ \A k \in Keys : keys[k] # 0 => executions[keys[k]].key = k
    /\ \A e \in DOMAIN executions :
          executions[e].key # NoKey => keys[executions[e].key] = e
    /\ \A t \in told : executions[t.execution].key = t.key
    /\ \A c \in Clients : client[c].pc = "enqueue" =>
          /\ client[c].execution \in DOMAIN executions
          /\ executions[client[c].execution].key = client[c].key
    /\ \A c \in Clients : client[c].pc = "find" => client[c].key \in Keys

\* A job has the id of its execution.
OwnIds == \A j \in jobs : j.id = j.execution

\* What is read and not aged is what the row says.
FreshReads ==
    /\ \A c \in Clients :
          client[c].pc = "fill" /\ ~client[c].aged => client[c].seen = tenant
    /\ \A a \in Admins :
          admin[a].pc = "write" /\ ~admin[a].aged => admin[a].seen = tenant

AdmissionInv ==
    TypeOK /\ Keyed /\ OwnIds /\ FreshReads /\ NoneForgotten /\ CacheFollows /\ ChangesCompose

---------------------------------------------------------------------------
(* Types, piece by piece.                                                   *)

LEMMA Typed ==
    ASSUME TypeOK
    PROVE  /\ tenant \in Settings /\ intended \in Settings
           /\ cache \in Settings \cup {NoSettings}
           /\ executions \in Seq(Execution) /\ Len(executions) \in Nat
           /\ DOMAIN executions = 1..Len(executions)
           /\ \A e \in DOMAIN executions : executions[e] \in Execution
           /\ keys \in [Keys -> 0..Len(executions)]
           /\ jobs \subseteq [id : 1..Len(executions), execution : 1..Len(executions)]
           /\ client \in [Clients -> Locals(Len(executions))]
           /\ admin \in [Admins -> AdminLocals]
           /\ told \subseteq Answers(Len(executions))
           /\ excuse \in Excuses(Len(executions)) /\ left \in Budget
<1>1. executions \in Seq(Execution)
  BY DEF TypeOK
<1>2. /\ Len(executions) \in Nat /\ DOMAIN executions = 1..Len(executions)
      /\ \A e \in DOMAIN executions : executions[e] \in Execution
  BY <1>1
<1> QED
  BY <1>1, <1>2 DEF TypeOK, Locals, Spots, AdminLocals, Answers, Excuses, Budget

\* A failure and a change leave the budget a budget.
LEMMA FaultTyped == ASSUME TypeOK, Fault PROVE left' \in Budget
<1>1. left.faults \in Nat /\ left.faults > 0 /\ left \in Budget
  BY Typed DEF Fault, Budget
<1>2. left.faults - 1 \in Nat
  BY <1>1
<1> QED
  BY <1>1, <1>2 DEF Fault, Budget

\* Among finitely many executions, sets of them can be counted.
LEMMA Countable ==
    ASSUME TypeOK, NEW S \in SUBSET DOMAIN executions
    PROVE  /\ IsFiniteSet(S) /\ Cardinality(S) \in Nat
           /\ \A T \in SUBSET S : Cardinality(T) <= Cardinality(S)
<1>1. IsFiniteSet(DOMAIN executions)
  <2>1. IsFiniteSet(1..Len(executions))
    BY Typed, FS_Interval
  <2> QED
    BY <2>1, Typed
<1>2. IsFiniteSet(S)
  BY <1>1, FS_Subset
<1> QED
  BY <1>2, FS_Subset, FS_CardinalityType

\* What a check counts and what it cannot see are numbers.
LEMMA Amounts ==
    ASSUME TypeOK
    PROVE  /\ Running \in Nat /\ Unseen \in Nat /\ Claimed \in Nat
           /\ \A n \in Nat : Beyond(n, Claimed) \in Nat /\ Beyond(n, Claimed + 1) \in Nat
<1>1. Running \in Nat
  BY Countable DEF Running
<1>2. Cardinality(Pending) \in Nat
  BY Countable DEF Pending
<1>3. Cardinality(Underway) \in Nat
  BY AdmissionAssumption, FS_Subset, FS_CardinalityType DEF Underway
<1>4. Unseen \in Nat /\ Claimed \in Nat
  BY <1>1, <1>2, <1>3 DEF Unseen, Claimed
<1> QED
  BY <1>1, <1>4 DEF Beyond

LEMMA Defaults ==
    /\ DefaultSettings \in Settings /\ NoSettings \notin Settings
    /\ \A n \in Nat : Idle \in Locals(n)
    /\ Calm \in AdminLocals
    /\ Idle.pc = "idle" /\ Calm.pc = "idle"
<1>1. DefaultSettings \in Settings
  BY AdmissionAssumption DEF DefaultSettings, Settings
<1>2. [disabled |-> FALSE] \in Change
  BY DEF Change
<1> QED
  BY <1>1, <1>2, AdmissionAssumption
  DEF Idle, Calm, Locals, Spots, AdminLocals, Settings

\* Only c's request moves, to x.
LEMMA Moved ==
    ASSUME TypeOK, NEW c \in Clients, NEW x \in Locals(Len(executions)),
           client' = [client EXCEPT ![c] = x]
    PROVE  /\ client' \in [Clients -> Locals(Len(executions))]
           /\ client'[c] = x /\ \A d \in Clients \ {c} : client'[d] = client[d]
BY Typed

---------------------------------------------------------------------------
(* Requests that make no execution.                                         *)

\* c's request moves to x; of the rest, only what the request adds to the
\* answers, jobs and excuses and what it does to the cache changes.
RequestFrame(c, x) ==
    /\ client' = [client EXCEPT ![c] = x]
    /\ x.pc # "enqueue" /\ (x.pc = "find" => x.key \in Keys)
    /\ x.pc = "fill" /\ ~x.aged => x.seen = tenant
    /\ UNCHANGED <<tenant, intended, executions, keys, admin>>
    /\ left' \in Budget

AddFrame(c) ==
    /\ told' \subseteq Answers(Len(executions))
    /\ \A t \in told' \ told : executions[t.execution].key = t.key
    /\ jobs \subseteq jobs'
    /\ jobs' \subseteq [id : 1..Len(executions), execution : 1..Len(executions)]
    /\ \A j \in jobs' \ jobs : j.id = j.execution
    /\ excuse' \in Excuses(Len(executions))
    /\ excuse'.change = excuse.change /\ excuse.lost \subseteq excuse'.lost
    /\ client[c].pc = "enqueue" =>
          \/ \E j \in jobs' : j.execution = client[c].execution
          \/ client[c].execution \in excuse'.lost

CacheFrame ==
    /\ cache' \in Settings \cup {NoSettings}
    /\ \/ cache' = cache /\ excuse'.cache = excuse.cache
       \/ cache' \in {NoSettings, tenant} \/ excuse'.cache

LEMMA RequestKeeps ==
    ASSUME AdmissionInv, NEW c \in Clients, NEW x \in Locals(Len(executions)),
           RequestFrame(c, x), AddFrame(c), CacheFrame
    PROVE  AdmissionInv'
<1>1. TypeOK
  BY DEF AdmissionInv
<1>2. /\ client' \in [Clients -> Locals(Len(executions))]
      /\ client'[c] = x /\ \A d \in Clients \ {c} : client'[d] = client[d]
  BY <1>1, Moved DEF RequestFrame
<1>3. tenant' = tenant /\ intended' = intended /\ executions' = executions
      /\ keys' = keys /\ admin' = admin
  BY DEF RequestFrame
<1>4. TypeOK'
  <2>1. /\ tenant' \in Settings /\ intended' \in Settings
        /\ executions' \in Seq(Execution) /\ keys' \in [Keys -> 0..Len(executions')]
        /\ admin' \in [Admins -> AdminLocals]
    BY <1>1, <1>3, Typed
  <2>2. /\ cache' \in Settings \cup {NoSettings} /\ left' \in Budget
        /\ jobs' \subseteq [id : 1..Len(executions'), execution : 1..Len(executions')]
        /\ told' \subseteq Answers(Len(executions'))
        /\ excuse' \in Excuses(Len(executions'))
        /\ client' \in [Clients -> Locals(Len(executions'))]
    BY <1>2, <1>3 DEF RequestFrame, AddFrame, CacheFrame
  <2> QED
    BY <2>1, <2>2 DEF TypeOK, AdminLocals, Locals, Spots, Answers, Excuses, Budget
<1>5. Keyed'
  BY <1>2, <1>3 DEF AdmissionInv, Keyed, RequestFrame, AddFrame
<1>6. OwnIds'
  BY DEF AdmissionInv, OwnIds, AddFrame
<1>7. FreshReads'
  BY <1>2, <1>3 DEF AdmissionInv, FreshReads, RequestFrame
<1>8. NoneForgotten'
  <2>1. ASSUME NEW e \in DOMAIN executions
        PROVE  \/ \E j \in jobs' : j.execution = e
               \/ \E d \in Clients : client'[d].pc = "enqueue" /\ client'[d].execution = e
               \/ e \in excuse'.lost
    <3>1. CASE \E j \in jobs : j.execution = e
      BY <3>1 DEF AddFrame
    <3>2. CASE e \in excuse.lost
      BY <3>2 DEF AddFrame
    <3>3. ASSUME NEW d \in Clients, client[d].pc = "enqueue", client[d].execution = e
          PROVE  \/ \E j \in jobs' : j.execution = e
                 \/ client'[d].pc = "enqueue" /\ client'[d].execution = e
                 \/ e \in excuse'.lost
      BY <1>2, <3>3 DEF AddFrame
    <3> QED
      BY <3>1, <3>2, <3>3 DEF AdmissionInv, NoneForgotten, At
  <2> QED
    BY <1>3, <2>1 DEF NoneForgotten, At
<1>9. CacheFollows'
  BY <1>3 DEF AdmissionInv, CacheFollows, CacheFrame
<1>10. ChangesCompose'
  BY <1>3 DEF AdmissionInv, ChangesCompose, AddFrame
<1> QED
  BY <1>4, <1>5, <1>6, <1>7, <1>8, <1>9, <1>10 DEF AdmissionInv

\* The frame of a request that changes nothing but its own locals.
LEMMA Bystander ==
    ASSUME TypeOK, NEW c \in Clients, client[c].pc # "enqueue",
           UNCHANGED <<told, jobs, excuse>>
    PROVE  AddFrame(c)
<1>1. told' = told /\ jobs' = jobs /\ excuse' = excuse
  OBVIOUS
<1> QED
  BY <1>1, Typed DEF AddFrame

LEMMA CacheSame ==
    ASSUME TypeOK, UNCHANGED <<cache, excuse>>
    PROVE  CacheFrame
BY Typed DEF CacheFrame

LEMMA RequestStarts ==
    ASSUME AdmissionInv, NEW c \in Clients, NEW k \in Keys \cup {NoKey}, Request(c, k)
    PROVE  AdmissionInv'
<1> DEFINE x == [Idle EXCEPT !.pc = "lookup", !.key = k]
<1>1. TypeOK /\ client' = [client EXCEPT ![c] = x] /\ client[c].pc = "idle"
  BY DEF AdmissionInv, Request, At
<1>2. UNCHANGED <<tenant, cache, executions, keys, jobs, admin, told, intended, excuse, left>>
  BY DEF Request
<1>3. x \in Locals(Len(executions)) /\ x.pc = "lookup"
  BY <1>1, Defaults, Typed DEF Locals, Spots
<1> HIDE DEF x
<1>4. RequestFrame(c, x)
  BY <1>1, <1>2, <1>3, Typed DEF RequestFrame
<1>5. AddFrame(c) /\ CacheFrame
  BY <1>1, <1>2, Bystander, CacheSame
<1> QED
  BY <1>3, <1>4, <1>5, RequestKeeps

\* What a request's next locals have to be, and that the rest stays.
Advances(c, x) ==
    /\ x \in Locals(Len(executions)) /\ client' = [client EXCEPT ![c] = x]
    /\ x.pc \notin {"enqueue", "find", "fill"}

LEMMA AdvanceFrames ==
    ASSUME TypeOK, NEW c \in Clients, NEW x, Advances(c, x), left' \in Budget,
           UNCHANGED <<tenant, executions, keys, admin, intended>>
    PROVE  RequestFrame(c, x) /\ x \in Locals(Len(executions))
BY DEF Advances, RequestFrame

LEMMA CacheGetKeeps ==
    ASSUME AdmissionInv, NEW c \in Clients, CacheGet(c)
    PROVE  AdmissionInv'
<1> DEFINE x == [client[c] EXCEPT !.pc = "check", !.seen = cache]
           y == [client[c] EXCEPT !.pc = "load"]
<1>1. TypeOK /\ client[c].pc = "lookup" /\ client[c] \in Locals(Len(executions))
  BY Typed DEF AdmissionInv, CacheGet, At
<1>2. UNCHANGED <<tenant, cache, executions, keys, jobs, admin, told, intended, excuse>>
  BY DEF CacheGet
<1>3. left' \in Budget
  BY <1>1, FaultTyped, Typed DEF CacheGet
<1>4. AddFrame(c) /\ CacheFrame
  BY <1>1, <1>2, Bystander, CacheSame
<1>5. CASE client' = [client EXCEPT ![c] = x]
  <2>1. Advances(c, x)
    BY <1>1, <1>5, Typed DEF Advances, Locals, Spots
  <2> HIDE DEF x
  <2> QED
    BY <1>1, <1>2, <1>3, <1>4, <2>1, AdvanceFrames, RequestKeeps
<1>6. CASE client' = [client EXCEPT ![c] = y]
  <2>1. Advances(c, y)
    BY <1>1, <1>6 DEF Advances, Locals, Spots
  <2> HIDE DEF y
  <2> QED
    BY <1>1, <1>2, <1>3, <1>4, <2>1, AdvanceFrames, RequestKeeps
<1> QED
  BY <1>5, <1>6 DEF CacheGet, Goto

LEMMA LoadKeeps ==
    ASSUME AdmissionInv, NEW c \in Clients, Load(c)
    PROVE  AdmissionInv'
<1> DEFINE x == [client[c] EXCEPT !.pc = "fill", !.seen = tenant]
<1>1. TypeOK /\ client[c].pc = "load" /\ client' = [client EXCEPT ![c] = x]
  BY DEF AdmissionInv, Load, At
<1>2. UNCHANGED <<tenant, cache, executions, keys, jobs, admin, told, intended, excuse, left>>
  BY DEF Load
<1>3. x \in Locals(Len(executions)) /\ x.pc = "fill" /\ x.seen = tenant
  BY <1>1, Typed DEF Locals, Spots
<1> HIDE DEF x
<1>4. RequestFrame(c, x)
  BY <1>1, <1>2, <1>3, Typed DEF RequestFrame
<1>5. AddFrame(c) /\ CacheFrame
  BY <1>1, <1>2, Bystander, CacheSame
<1> QED
  BY <1>3, <1>4, <1>5, RequestKeeps

\* What goes to the cache was read from the row, or has been excused.
LEMMA CacheSetKeeps ==
    ASSUME AdmissionInv, NEW c \in Clients, CacheSet(c)
    PROVE  AdmissionInv'
<1> DEFINE x == [client[c] EXCEPT !.pc = "check", !.aged = FALSE]
<1>1. TypeOK /\ client[c].pc = "fill" /\ client' = [client EXCEPT ![c] = x]
      /\ client[c] \in Locals(Len(executions))
  BY Typed DEF AdmissionInv, CacheSet, At
<1>2. UNCHANGED <<tenant, executions, keys, jobs, admin, told, intended>>
  BY DEF CacheSet
<1>3. left' \in Budget
  BY <1>1, FaultTyped, Typed DEF CacheSet
<1>4. RequestFrame(c, x) /\ x \in Locals(Len(executions))
  <2>1. Advances(c, x)
    BY <1>1 DEF Advances, Locals, Spots
  <2> HIDE DEF x
  <2> QED
    BY <1>1, <1>2, <1>3, <2>1, AdvanceFrames
<1> HIDE DEF x
<1>5. CASE UNCHANGED <<cache, excuse>>
  <2>1. AddFrame(c) /\ CacheFrame
    BY <1>1, <1>2, <1>5, Bystander, CacheSame
  <2> QED
    BY <1>4, <2>1, RequestKeeps
<1>6. CASE cache' = client[c].seen /\ excuse' = [excuse EXCEPT !.cache = client[c].aged]
  <2>1. client[c].seen \in Settings \cup {NoSettings} /\ client[c].aged \in BOOLEAN
    BY <1>1 DEF Locals
  <2>2. /\ excuse' \in Excuses(Len(executions)) /\ excuse'.cache = client[c].aged
        /\ excuse'.change = excuse.change /\ excuse'.lost = excuse.lost
    BY <1>1, <1>6, <2>1, Typed DEF Excuses
  <2>3. ~client[c].aged => client[c].seen = tenant
    BY <1>1 DEF AdmissionInv, FreshReads
  <2>4. CacheFrame
    BY <1>6, <2>1, <2>2, <2>3 DEF CacheFrame
  <2>5. told' = told /\ jobs' = jobs
    BY <1>2
  <2>6. AddFrame(c)
    BY <1>1, <2>2, <2>5, Typed DEF AddFrame
  <2> QED
    BY <1>4, <2>4, <2>6, RequestKeeps
<1> QED
  BY <1>5, <1>6 DEF CacheSet

\* A request that is answered or fails before it has made anything.
LEMMA LeavesKeep ==
    ASSUME AdmissionInv, NEW c \in Clients, Leave(c), client[c].pc # "enqueue",
           UNCHANGED <<tenant, cache, executions, keys, jobs, admin, intended, told, excuse>>,
           left' \in Budget
    PROVE  AdmissionInv'
<1>1. TypeOK
  BY DEF AdmissionInv
<1>2. Advances(c, Idle)
  BY <1>1, Defaults, Typed DEF Advances, Leave
<1>3. AddFrame(c) /\ CacheFrame
  BY <1>1, Bystander, CacheSame
<1> QED
  BY <1>1, <1>2, <1>3, AdvanceFrames, RequestKeeps

LEMMA CheckQuotaKeeps ==
    ASSUME AdmissionInv, NEW c \in Clients, CheckQuota(c)
    PROVE  AdmissionInv'
<1> DEFINE p == IF client[c].key = NoKey THEN "create" ELSE "find"
           x == [client[c] EXCEPT !.seen = NoSettings, !.pc = p]
           o == IF client[c].seen.max \in 1..tenant.max THEN Unseen
                ELSE Beyond(tenant.max, Claimed + 1)
<1>1. TypeOK /\ client[c].pc = "check" /\ client[c] \in Locals(Len(executions))
      /\ left' \in Budget
  BY Typed DEF AdmissionInv, CheckQuota, At
<1>2. UNCHANGED <<tenant, cache, executions, keys, jobs, admin, told, intended, left>>
  BY DEF CheckQuota
<1>3. CASE Leave(c) /\ UNCHANGED excuse
  BY <1>1, <1>2, <1>3, LeavesKeep
<1>4. CASE /\ client' = [client EXCEPT ![c] = x]
           /\ excuse' = [excuse EXCEPT !.over = o]
  <2>1. /\ x \in Locals(Len(executions)) /\ x.pc \in {"create", "find"}
        /\ x.pc = "find" => x.key \in Keys
    BY <1>1 DEF Locals, Spots
  <2> HIDE DEF x
  <2>2. RequestFrame(c, x)
    BY <1>1, <1>2, <1>4, <2>1 DEF RequestFrame
  <2>3. o \in Nat
    BY <1>1, Amounts, Typed, AdmissionAssumption DEF Settings
  <2> HIDE DEF o
  <2>4. /\ excuse' \in Excuses(Len(executions)) /\ excuse'.change = excuse.change
        /\ excuse'.lost = excuse.lost /\ excuse'.cache = excuse.cache
    BY <1>1, <1>4, <2>3, Typed DEF Excuses
  <2>5. told' = told /\ jobs' = jobs /\ cache' = cache
    BY <1>2
  <2>6. AddFrame(c) /\ CacheFrame
    BY <1>1, <2>4, <2>5, Typed DEF AddFrame, CacheFrame
  <2> QED
    BY <2>1, <2>2, <2>6, RequestKeeps
<1> QED
  BY <1>3, <1>4 DEF CheckQuota

\* The stored response names the execution of the key.
LEMMA FindKeyKeeps ==
    ASSUME AdmissionInv, NEW c \in Clients, FindKey(c)
    PROVE  AdmissionInv'
<1> DEFINE k == client[c].key
           x == [client[c] EXCEPT !.pc = "create"]
<1>1. TypeOK /\ client[c].pc = "find" /\ client[c] \in Locals(Len(executions))
      /\ left' \in Budget /\ k \in Keys
  BY Typed DEF AdmissionInv, FindKey, At, Keyed
<1>2. UNCHANGED <<tenant, cache, executions, keys, jobs, admin, intended, excuse, left>>
  BY DEF FindKey
<1>3. CacheFrame
  BY <1>1, <1>2, CacheSame
<1>4. CASE /\ keys[k] # 0 /\ Leave(c)
           /\ told' = told \cup {[key |-> k, execution |-> keys[k]]}
  <2>1. keys[k] \in 1..Len(executions) /\ executions[keys[k]].key = k
    BY <1>1, <1>4, Typed DEF AdmissionInv, Keyed
  <2>2. /\ told' \subseteq Answers(Len(executions))
        /\ \A t \in told' \ told : executions[t.execution].key = t.key
    BY <1>1, <1>4, <2>1, Typed DEF Answers
  <2>3. AddFrame(c)
    BY <1>1, <1>2, <2>2, Typed DEF AddFrame
  <2>4. Advances(c, Idle)
    BY <1>1, <1>4, Defaults, Typed DEF Advances, Leave
  <2> QED
    BY <1>1, <1>2, <1>3, <2>3, <2>4, AdvanceFrames, RequestKeeps
<1>5. CASE client' = [client EXCEPT ![c] = x] /\ UNCHANGED told
  <2>1. Advances(c, x)
    BY <1>1, <1>5 DEF Advances, Locals, Spots
  <2> HIDE DEF x
  <2>2. AddFrame(c)
    BY <1>1, <1>2, <1>5, Bystander
  <2> QED
    BY <1>1, <1>2, <1>3, <2>1, <2>2, AdvanceFrames, RequestKeeps
<1> QED
  BY <1>4, <1>5 DEF FindKey, Goto

\* The job queue has the execution then, or its loss is on record.
LEMMA EnqueueKeeps ==
    ASSUME AdmissionInv, NEW c \in Clients, Enqueue(c)
    PROVE  AdmissionInv'
<1> DEFINE e == client[c].execution
           r == [key |-> client[c].key, execution |-> e]
<1>1. /\ TypeOK /\ client[c].pc = "enqueue" /\ client[c] \in Locals(Len(executions))
      /\ e \in 1..Len(executions) /\ executions[e].key = client[c].key
      /\ client[c].key \in Keys \cup {NoKey}
  <2>1. TypeOK /\ client[c].pc = "enqueue" /\ client[c] \in Locals(Len(executions))
    BY Typed DEF AdmissionInv, Enqueue, At
  <2> QED
    BY <2>1, Typed DEF AdmissionInv, Keyed, Locals
<1>2. UNCHANGED <<tenant, cache, executions, keys, admin, intended>>
  BY DEF Enqueue
<1>3. left' \in Budget
  BY <1>1, FaultTyped, Typed DEF Enqueue
<1>4. RequestFrame(c, Idle) /\ Idle \in Locals(Len(executions))
  <2>1. Advances(c, Idle)
    BY <1>1, Defaults, Typed DEF Advances, Leave, Enqueue
  <2> QED
    BY <1>1, <1>2, <1>3, <2>1, AdvanceFrames
<1>5. /\ told' \subseteq Answers(Len(executions))
      /\ \A t \in told' \ told : executions[t.execution].key = t.key
  <2>1. told' = told \cup {r}
    BY DEF Enqueue
  <2>2. r \in Answers(Len(executions)) /\ executions[r.execution].key = r.key
    BY <1>1 DEF Answers
  <2> HIDE DEF r
  <2> QED
    BY <1>1, <2>1, <2>2, Typed
<1>6. CASE jobs' = Add(e) /\ UNCHANGED <<excuse, left>>
  <2>1. /\ jobs \subseteq jobs'
        /\ jobs' \subseteq [id : 1..Len(executions), execution : 1..Len(executions)]
        /\ \A j \in jobs' \ jobs : j.id = j.execution
        /\ \E j \in jobs' : j.execution = e
    <3>1. CASE \E j \in jobs : j.id = e
      BY <1>1, <1>6, <3>1, Typed DEF Add, JobId, AdmissionInv, OwnIds
    <3>2. CASE ~\E j \in jobs : j.id = e
      <4> DEFINE j == [id |-> e, execution |-> e]
      <4>1. jobs' = jobs \cup {j}
        BY <1>6, <3>2 DEF Add, JobId
      <4>2. j \in [id : 1..Len(executions), execution : 1..Len(executions)]
            /\ j.id = e /\ j.execution = e
        BY <1>1
      <4> HIDE DEF j
      <4> QED
        BY <1>1, <4>1, <4>2, Typed
    <3> QED
      BY <3>1, <3>2
  <2>2. AddFrame(c)
    BY <1>1, <1>5, <1>6, <2>1, Typed DEF AddFrame
  <2>3. CacheFrame
    BY <1>1, <1>2, <1>6, CacheSame
  <2> QED
    BY <1>4, <2>2, <2>3, RequestKeeps
<1>7. CASE excuse' = [excuse EXCEPT !.lost = @ \cup {e}] /\ UNCHANGED jobs
  <2>1. /\ excuse' \in Excuses(Len(executions)) /\ excuse'.change = excuse.change
        /\ excuse'.lost = excuse.lost \cup {e} /\ excuse'.cache = excuse.cache
    BY <1>1, <1>7, Typed DEF Excuses
  <2>2. jobs' = jobs /\ cache' = cache
    BY <1>2, <1>7
  <2>3. AddFrame(c) /\ CacheFrame
    BY <1>1, <1>5, <2>1, <2>2, Typed DEF AddFrame, CacheFrame
  <2> QED
    BY <1>4, <2>3, RequestKeeps
<1> QED
  BY <1>6, <1>7 DEF Enqueue

LEMMA StatementFailsKeeps ==
    ASSUME AdmissionInv, NEW c \in Clients, StatementFails(c)
    PROVE  AdmissionInv'
<1>1. left' \in Budget /\ client[c].pc # "enqueue"
  BY FaultTyped DEF AdmissionInv, StatementFails, At
<1> QED
  BY <1>1, LeavesKeep DEF StatementFails

---------------------------------------------------------------------------
(* Executions: their creation and what the worker makes of them.            *)

\* The transaction makes the execution and its key together.
LEMMA CreateKeeps ==
    ASSUME AdmissionInv, NEW c \in Clients, Create(c)
    PROVE  AdmissionInv'
<1> DEFINE k == client[c].key
           n == Len(executions) + 1
           r == [key |-> k, status |-> "CREATED"]
           x == [client[c] EXCEPT !.pc = "enqueue", !.execution = n]
<1>1. /\ TypeOK /\ client[c].pc = "create" /\ client[c] \in Locals(Len(executions))
      /\ k \in Keys \cup {NoKey} /\ Len(executions) \in Nat /\ n \in Nat
  <2>1. TypeOK /\ client[c].pc = "create" /\ client[c] \in Locals(Len(executions))
    BY Typed DEF AdmissionInv, Create, At
  <2> QED
    BY <2>1, Typed DEF Locals
<1>2. /\ tenant' = tenant /\ cache' = cache /\ jobs' = jobs /\ admin' = admin
      /\ told' = told /\ intended' = intended /\ excuse' = excuse /\ left' = left
  BY DEF Create
<1>3. CASE Leave(c) /\ UNCHANGED <<executions, keys>>
  BY <1>1, <1>2, <1>3, LeavesKeep, Typed
<1>4. CASE /\ ~KeyTaken(k) /\ executions' = Append(executions, r)
           /\ keys' = [i \in Keys |-> IF i = k THEN n ELSE keys[i]]
           /\ client' = [client EXCEPT ![c] = x]
  <2>1. r \in Execution /\ r.key = k
    BY <1>1 DEF Execution
  <2> HIDE DEF r
  <2>2. /\ executions' \in Seq(Execution) /\ Len(executions') = n
        /\ DOMAIN executions' = DOMAIN executions \cup {n} /\ n \notin DOMAIN executions
        /\ executions'[n].key = k
        /\ \A e \in DOMAIN executions : executions'[e] = executions[e]
        /\ 1..n = DOMAIN executions \cup {n} /\ DOMAIN executions = 1..Len(executions)
    BY <1>1, <1>4, <2>1, Typed
  <2>3. /\ x \in Locals(n) /\ x.pc = "enqueue" /\ x.execution = n /\ x.key = k
    <3>1. client[c] \in [pc : Spots, key : Keys \cup {NoKey},
                         seen : Settings \cup {NoSettings}, aged : BOOLEAN, execution : Nat]
      BY <1>1 DEF Locals
    <3>2. n \in 0..n
      BY <1>1
    <3> HIDE DEF n
    <3> QED
      BY <3>1, <3>2 DEF Locals, Spots
  <2> HIDE DEF x
  <2>4. Locals(Len(executions)) \subseteq Locals(n)
    BY <1>1 DEF Locals
  <2>5. /\ client' \in [Clients -> Locals(n)] /\ client'[c] = x
        /\ \A d \in Clients \ {c} : client'[d] = client[d]
    BY <1>1, <1>4, <2>3, <2>4, Typed
  <2>6. /\ keys' \in [Keys -> 0..n]
        /\ \A i \in Keys : keys'[i] = IF i = k THEN n ELSE keys[i]
    BY <1>1, <1>4, Typed
  <2>7. k \in Keys => keys[k] = 0
    BY <1>1, <1>4, AdmissionAssumption DEF KeyTaken
  <2> HIDE DEF n, k
  <2>8. TypeOK'
    <3>1. /\ jobs \subseteq [id : 1..n, execution : 1..n] /\ told \subseteq Answers(n)
          /\ excuse \in Excuses(n)
      BY <1>1, <2>2, Typed DEF Answers, Excuses
    <3> QED
      BY <1>1, <1>2, <2>2, <2>5, <2>6, <3>1
      DEF TypeOK, Locals, Spots, Answers, Excuses
  <2>9. Keyed'
    <3>1. ASSUME NEW i \in Keys, keys'[i] # 0
          PROVE  executions'[keys'[i]].key = i
      <4>1. CASE i = k
        BY <2>2, <2>6, <4>1
      <4>2. CASE i # k
        <5>1. keys'[i] = keys[i] /\ keys[i] \in DOMAIN executions
          BY <1>1, <2>2, <2>6, <3>1, <4>2, Typed
        <5> QED
          BY <2>2, <3>1, <5>1 DEF AdmissionInv, Keyed
      <4> QED
        BY <4>1, <4>2
    <3>2. ASSUME NEW e \in DOMAIN executions', executions'[e].key # NoKey
          PROVE  keys'[executions'[e].key] = e
      <4>1. CASE e = n
        BY <1>1, <2>2, <2>6, <3>2, <4>1
      <4>2. CASE e \in DOMAIN executions
        <5>1. /\ executions'[e] = executions[e] /\ executions[e].key \in Keys
              /\ keys[executions[e].key] = e /\ e # 0
          BY <1>1, <2>2, <3>2, <4>2, Typed DEF AdmissionInv, Keyed, Execution
        <5> QED
          BY <2>6, <2>7, <5>1
      <4> QED
        BY <2>2, <4>1, <4>2
    <3>3. \A t \in told' : executions'[t.execution].key = t.key
      <4>1. \A t \in told : t.execution \in DOMAIN executions
        BY <1>1, Typed DEF Answers
      <4> QED
        BY <1>2, <2>2, <4>1 DEF AdmissionInv, Keyed
    <3>4. \A d \in Clients : client'[d].pc = "enqueue" =>
              /\ client'[d].execution \in DOMAIN executions'
              /\ executions'[client'[d].execution].key = client'[d].key
      BY <2>2, <2>3, <2>5 DEF AdmissionInv, Keyed
    <3>5. \A d \in Clients : client'[d].pc = "find" => client'[d].key \in Keys
      BY <2>3, <2>5 DEF AdmissionInv, Keyed
    <3> QED
      BY <3>1, <3>2, <3>3, <3>4, <3>5 DEF Keyed
  <2>10. OwnIds'
    BY <1>2 DEF AdmissionInv, OwnIds
  <2>11. FreshReads'
    BY <1>2, <2>3, <2>5 DEF AdmissionInv, FreshReads
  <2>12. NoneForgotten'
    <3>1. ASSUME NEW e \in DOMAIN executions
          PROVE  \/ \E j \in jobs' : j.execution = e
                 \/ \E d \in Clients : client'[d].pc = "enqueue" /\ client'[d].execution = e
                 \/ e \in excuse'.lost
      <4>1. \/ \E j \in jobs : j.execution = e
            \/ \E d \in Clients : client[d].pc = "enqueue" /\ client[d].execution = e
            \/ e \in excuse.lost
        BY DEF AdmissionInv, NoneForgotten, At
      <4>2. \A d \in Clients : client[d].pc = "enqueue" => d # c
        BY <1>1
      <4> QED
        BY <1>2, <2>5, <4>1, <4>2
    <3> QED
      BY <2>2, <2>3, <2>5, <3>1 DEF NoneForgotten, At
  <2>13. CacheFollows' /\ ChangesCompose'
    BY <1>2 DEF AdmissionInv, CacheFollows, ChangesCompose
  <2> QED
    BY <2>8, <2>9, <2>10, <2>11, <2>12, <2>13 DEF AdmissionInv
<1> QED
  BY <1>3, <1>4 DEF Create

\* The worker moves the status of an execution and nothing else.
LEMMA MoveKeeps ==
    ASSUME AdmissionInv, NEW e \in DOMAIN executions, NEW from,
           NEW to \in {"RUNNING", "WAITING", "CLOSING", "ENDED"}, Move(e, from, to)
    PROVE  AdmissionInv'
<1> DEFINE r == [executions[e] EXCEPT !.status = to]
<1>1. /\ tenant' = tenant /\ cache' = cache /\ jobs' = jobs /\ admin' = admin
      /\ told' = told /\ intended' = intended /\ excuse' = excuse /\ left' = left
      /\ keys' = keys /\ client' = client
  BY DEF Move
<1>2. TypeOK /\ executions' = [executions EXCEPT ![e] = r]
  BY DEF Move, AdmissionInv
<1>3. r \in Execution /\ r.key = executions[e].key
  BY <1>2, Typed DEF Execution
<1> HIDE DEF r
<1>4. /\ executions' \in Seq(Execution) /\ Len(executions') = Len(executions)
      /\ DOMAIN executions' = DOMAIN executions
      /\ \A d \in DOMAIN executions : executions'[d].key = executions[d].key
  BY <1>2, <1>3, Typed
<1>5. TypeOK'
  BY <1>1, <1>2, <1>4 DEF TypeOK
<1>6. Keyed'
  <2>1. \A t \in told : t.execution \in DOMAIN executions
    BY <1>2, Typed DEF Answers
  <2>2. \A k \in Keys : keys[k] # 0 => keys[k] \in DOMAIN executions
    BY <1>2, Typed
  <2> QED
    BY <1>1, <1>4, <2>1, <2>2 DEF AdmissionInv, Keyed
<1>7. OwnIds' /\ FreshReads' /\ CacheFollows' /\ ChangesCompose'
  BY <1>1 DEF AdmissionInv, OwnIds, FreshReads, CacheFollows, ChangesCompose
<1>8. NoneForgotten'
  BY <1>1, <1>4 DEF AdmissionInv, NoneForgotten, At
<1> QED
  BY <1>5, <1>6, <1>7, <1>8 DEF AdmissionInv

---------------------------------------------------------------------------
(* The settings: changes, the cache, and crashes.                           *)

\* Executions, keys, answers and jobs stay, and requests but for their age.
Apart ==
    /\ UNCHANGED <<executions, keys, jobs, told>>
    /\ \A c \in Clients : /\ client'[c].pc = client[c].pc
                          /\ client'[c].key = client[c].key
                          /\ client'[c].execution = client[c].execution
    /\ excuse'.lost = excuse.lost

LEMMA ApartKeeps ==
    ASSUME AdmissionInv, Apart
    PROVE  Keyed' /\ OwnIds' /\ NoneForgotten'
<1>1. executions' = executions /\ keys' = keys /\ jobs' = jobs /\ told' = told
  BY DEF Apart
<1>2. Keyed'
  BY <1>1 DEF AdmissionInv, Keyed, Apart
<1>3. OwnIds' /\ NoneForgotten'
  BY <1>1 DEF AdmissionInv, OwnIds, NoneForgotten, At, Apart
<1> QED
  BY <1>2, <1>3

LEMMA ExpireKeeps ==
    ASSUME AdmissionInv, Expire
    PROVE  AdmissionInv'
<1>1. /\ tenant' = tenant /\ intended' = intended /\ executions' = executions
      /\ keys' = keys /\ jobs' = jobs /\ client' = client /\ admin' = admin
      /\ told' = told /\ left' = left /\ cache' = NoSettings
  BY DEF Expire
<1>2. TypeOK /\ excuse' = [excuse EXCEPT !.cache = FALSE]
  BY DEF Expire, AdmissionInv
<1>3. /\ excuse' \in Excuses(Len(executions)) /\ excuse'.change = excuse.change
      /\ excuse'.lost = excuse.lost
  BY <1>2, Typed DEF Excuses
<1>4. TypeOK'
  BY <1>1, <1>2, <1>3 DEF TypeOK, Excuses
<1>5. Keyed' /\ OwnIds' /\ NoneForgotten'
  BY <1>1, <1>3, ApartKeeps DEF Apart
<1>6. FreshReads' /\ CacheFollows' /\ ChangesCompose'
  BY <1>1, <1>3 DEF AdmissionInv, FreshReads, CacheFollows, ChangesCompose
<1> QED
  BY <1>4, <1>5, <1>6 DEF AdmissionInv

LEMMA ChangeReadKeeps ==
    ASSUME AdmissionInv, NEW a \in Admins, NEW ch \in Change, ChangeRead(a, ch)
    PROVE  AdmissionInv'
<1> DEFINE x == [pc |-> "write", seen |-> tenant, aged |-> FALSE, change |-> ch]
<1>1. /\ tenant' = tenant /\ intended' = intended /\ executions' = executions
      /\ keys' = keys /\ jobs' = jobs /\ client' = client /\ cache' = cache
      /\ told' = told /\ excuse' = excuse
  BY DEF ChangeRead
<1>2. TypeOK /\ admin' = [admin EXCEPT ![a] = x] /\ admin[a].pc = "idle"
  BY DEF ChangeRead, AdmissionInv
<1>3. left' \in Budget
  <2>1. left.changes \in Nat /\ left.changes > 0 /\ left \in Budget
    BY <1>2, Typed DEF ChangeRead, Budget
  <2>2. left.changes - 1 \in Nat
    BY <2>1
  <2> QED
    BY <2>1, <2>2 DEF ChangeRead, Budget
<1>4. x \in AdminLocals /\ x.pc = "write" /\ x.seen = tenant
  BY <1>2, Typed DEF AdminLocals
<1> HIDE DEF x
<1>5. /\ admin' \in [Admins -> AdminLocals] /\ admin'[a] = x
      /\ \A b \in Admins \ {a} : admin'[b] = admin[b]
  BY <1>2, <1>4, Typed
<1>6. TypeOK'
  BY <1>1, <1>2, <1>3, <1>5 DEF TypeOK, AdminLocals, Budget
<1>7. Keyed' /\ OwnIds' /\ NoneForgotten'
  BY <1>1, ApartKeeps DEF Apart
<1>8. FreshReads' /\ CacheFollows' /\ ChangesCompose'
  BY <1>1, <1>2, <1>4, <1>5 DEF AdmissionInv, FreshReads, CacheFollows, ChangesCompose
<1> QED
  BY <1>6, <1>7, <1>8 DEF AdmissionInv

\* A change of one setting, written over what the request has read.
LEMMA MergedSettings ==
    ASSUME NEW s \in Settings, NEW ch \in Change
    PROVE  Merged(s, ch) \in Settings
<1>1. DOMAIN s = {"max", "disabled"} /\ s.max \in Limits /\ s.disabled \in BOOLEAN
  BY DEF Settings
<1>2. CASE ch \in [max : Limits]
  <2>1. DOMAIN ch = {"max"} /\ ch.max \in Limits
    BY <1>2
  <2>2. Merged(s, ch) = [max |-> ch.max, disabled |-> s.disabled]
    BY <1>1, <2>1 DEF Merged
  <2> QED
    BY <1>1, <2>1, <2>2 DEF Settings
<1>3. CASE ch \in [disabled : BOOLEAN]
  <2>1. DOMAIN ch = {"disabled"} /\ ch.disabled \in BOOLEAN
    BY <1>3
  <2>2. Merged(s, ch) = [max |-> s.max, disabled |-> ch.disabled]
    BY <1>1, <2>1 DEF Merged
  <2> QED
    BY <1>1, <2>1, <2>2 DEF Settings
<1>4. CASE ch = <<>>
  <2>1. DOMAIN ch = {}
    BY <1>4
  <2>2. Merged(s, ch) = [max |-> s.max, disabled |-> s.disabled]
    BY <1>1, <2>1 DEF Merged
  <2> QED
    BY <1>1, <2>2 DEF Settings
<1> QED
  BY <1>2, <1>3, <1>4 DEF Change

LEMMA ChangeWriteKeeps ==
    ASSUME AdmissionInv, NEW a \in Admins, ChangeWrite(a)
    PROVE  AdmissionInv'
<1> DEFINE s == admin[a].seen
           ch == admin[a].change
           young == [Calm EXCEPT !.pc = "invalidate"]
<1>1. /\ executions' = executions /\ keys' = keys /\ jobs' = jobs
      /\ cache' = cache /\ told' = told /\ left' = left
      /\ tenant' = Merged(s, ch) /\ intended' = Merged(intended, ch)
  BY DEF ChangeWrite, Merged
<1>2. /\ TypeOK /\ admin[a].pc = "write" /\ admin[a] \in AdminLocals
      /\ s \in Settings /\ ch \in Change /\ admin[a].aged \in BOOLEAN
  <2>1. TypeOK /\ admin[a].pc = "write" /\ admin[a] \in AdminLocals
    BY Typed DEF ChangeWrite, AdmissionInv
  <2> QED
    BY <2>1 DEF AdminLocals
<1>3. tenant' \in Settings /\ intended' \in Settings
  BY <1>1, <1>2, MergedSettings, Typed
<1>4. /\ admin' \in [Admins -> AdminLocals] /\ admin'[a].pc = "invalidate"
      /\ \A b \in Admins \ {a} : /\ admin'[b].pc = admin[b].pc
                                 /\ admin[b].pc = "write" => admin'[b].aged
  <2>1. admin' = [b \in Admins |-> IF b = a THEN young
                                   ELSE [admin[b] EXCEPT !.aged = @ \/ admin[b].pc = "write"]]
    BY DEF ChangeWrite
  <2>2. young \in AdminLocals /\ young.pc = "invalidate"
    BY Defaults DEF AdminLocals
  <2>3. ASSUME NEW b \in Admins
        PROVE  LET y == [admin[b] EXCEPT !.aged = @ \/ admin[b].pc = "write"] IN
               /\ y \in AdminLocals /\ y.pc = admin[b].pc
               /\ admin[b].pc = "write" => y.aged
    <3>1. admin[b] \in AdminLocals
      BY <1>2, Typed
    <3>2. (admin[b].aged \/ admin[b].pc = "write") \in BOOLEAN
      OBVIOUS
    <3> QED
      BY <3>1, <3>2 DEF AdminLocals
  <2> HIDE DEF young
  <2> QED
    BY <2>1, <2>2, <2>3
<1>5. /\ client' \in [Clients -> Locals(Len(executions))]
      /\ \A c \in Clients : /\ client'[c].pc = client[c].pc
                            /\ client'[c].key = client[c].key
                            /\ client'[c].execution = client[c].execution
                            /\ client[c].pc = "fill" => client'[c].aged
  <2>1. client' = [c \in Clients |-> [client[c] EXCEPT !.aged = @ \/ client[c].pc = "fill"]]
    BY DEF ChangeWrite
  <2>2. ASSUME NEW c \in Clients
        PROVE  LET y == [client[c] EXCEPT !.aged = @ \/ client[c].pc = "fill"] IN
               /\ y \in Locals(Len(executions)) /\ y.pc = client[c].pc
               /\ y.key = client[c].key /\ y.execution = client[c].execution
               /\ client[c].pc = "fill" => y.aged
    <3>1. client[c] \in Locals(Len(executions))
      BY <1>2, Typed
    <3>2. (client[c].aged \/ client[c].pc = "fill") \in BOOLEAN
      OBVIOUS
    <3> QED
      BY <3>1, <3>2 DEF Locals
  <2> QED
    BY <2>1, <2>2
<1>6. /\ excuse' \in Excuses(Len(executions)) /\ excuse'.lost = excuse.lost
      /\ excuse'.change = (excuse.change \/ admin[a].aged)
  <2>1. excuse' = [excuse EXCEPT !.change = @ \/ admin[a].aged,
                                 !.over = Beyond(tenant'.max, Claimed)]
    BY DEF ChangeWrite
  <2>2. (excuse.change \/ admin[a].aged) \in BOOLEAN
    OBVIOUS
  <2>3. Beyond(tenant'.max, Claimed) \in Nat
    BY <1>2, <1>3, Amounts, AdmissionAssumption DEF Settings
  <2> QED
    BY <1>2, <2>1, <2>2, <2>3, Typed DEF Excuses
<1> HIDE DEF young
<1>7. TypeOK'
  BY <1>1, <1>2, <1>3, <1>4, <1>5, <1>6
  DEF TypeOK, Locals, Spots, AdminLocals, Excuses
<1>8. Keyed' /\ OwnIds' /\ NoneForgotten'
  BY <1>1, <1>5, <1>6, ApartKeeps DEF Apart
<1>9. FreshReads'
  BY <1>4, <1>5 DEF FreshReads
<1>10. CacheFollows'
  BY <1>4 DEF CacheFollows
<1>11. ChangesCompose'
  <2>1. ASSUME ~excuse.change, ~admin[a].aged
        PROVE  tenant' = intended'
    BY <1>1, <1>2, <2>1 DEF AdmissionInv, ChangesCompose, FreshReads
  <2> QED
    BY <1>6, <2>1 DEF ChangesCompose
<1> QED
  BY <1>7, <1>8, <1>9, <1>10, <1>11 DEF AdmissionInv

LEMMA InvalidateKeeps ==
    ASSUME AdmissionInv, NEW a \in Admins, Invalidate(a)
    PROVE  AdmissionInv'
<1>1. /\ tenant' = tenant /\ intended' = intended /\ executions' = executions
      /\ keys' = keys /\ jobs' = jobs /\ client' = client /\ told' = told
  BY DEF Invalidate
<1>2. TypeOK /\ admin' = [admin EXCEPT ![a] = Calm] /\ left' \in Budget
  BY FaultTyped, Typed DEF Invalidate, AdmissionInv
<1>3. /\ admin' \in [Admins -> AdminLocals] /\ admin'[a].pc = "idle"
      /\ \A b \in Admins \ {a} : admin'[b] = admin[b]
  BY <1>2, Defaults, Typed
<1>4. /\ cache' \in Settings \cup {NoSettings} /\ excuse' \in Excuses(Len(executions))
      /\ excuse'.lost = excuse.lost /\ excuse'.change = excuse.change
      /\ cache' = NoSettings \/ excuse'.cache
  <2>1. CASE cache' = Deleted(cache) /\ excuse' = [excuse EXCEPT !.cache = FALSE]
    BY <1>2, <2>1, Typed DEF Deleted, Excuses
  <2>2. CASE cache' = cache /\ excuse' = [excuse EXCEPT !.cache = cache # NoSettings]
    <3>1. (cache # NoSettings) \in BOOLEAN
      OBVIOUS
    <3> QED
      BY <1>2, <2>2, <3>1, Typed DEF Excuses
  <2> QED
    BY <2>1, <2>2 DEF Invalidate
<1>5. TypeOK'
  BY <1>1, <1>2, <1>3, <1>4 DEF TypeOK, AdminLocals, Budget, Excuses
<1>6. Keyed' /\ OwnIds' /\ NoneForgotten'
  BY <1>1, <1>4, ApartKeeps DEF Apart
<1>7. FreshReads' /\ CacheFollows' /\ ChangesCompose'
  BY <1>1, <1>3, <1>4 DEF AdmissionInv, FreshReads, CacheFollows, ChangesCompose
<1> QED
  BY <1>5, <1>6, <1>7 DEF AdmissionInv

LEMMA CrashKeeps ==
    ASSUME AdmissionInv, Crash
    PROVE  AdmissionInv'
<1>1. /\ tenant' = tenant /\ intended' = intended /\ executions' = executions
      /\ keys' = keys /\ jobs' = jobs /\ cache' = cache /\ told' = told
  BY DEF Crash
<1>2. TypeOK /\ left' \in Budget
  BY FaultTyped DEF Crash, AdmissionInv
<1>3. PICK C \in SUBSET Busy, A \in SUBSET {a \in Admins : admin[a].pc # "idle"} :
          /\ client' = [c \in Clients |-> IF c \in C THEN Idle ELSE client[c]]
          /\ admin' = [a \in Admins |-> IF a \in A THEN Calm ELSE admin[a]]
          /\ excuse' = [excuse EXCEPT
                !.lost = @ \cup {client[c].execution : c \in {d \in C : At(d, "enqueue")}},
                !.cache = @ \/ /\ cache # NoSettings
                               /\ \E a \in A : admin[a].pc = "invalidate"]
  BY DEF Crash
<1> DEFINE L == {client[c].execution : c \in {d \in C : At(d, "enqueue")}}
           b == cache # NoSettings /\ \E a \in A : admin[a].pc = "invalidate"
<1>4. C \subseteq Clients /\ L \subseteq 1..Len(executions)
  BY <1>2, Typed DEF Busy, At, AdmissionInv, Keyed
<1>5. \A c \in C : client[c].pc = "enqueue" => client[c].execution \in L
  BY DEF At
<1>6. /\ excuse' \in Excuses(Len(executions)) /\ excuse'.lost = excuse.lost \cup L
      /\ excuse'.change = excuse.change /\ excuse'.cache = (excuse.cache \/ b)
  <2>1. excuse' = [excuse EXCEPT !.lost = @ \cup L, !.cache = @ \/ b]
    BY <1>3
  <2>2. (excuse.cache \/ b) \in BOOLEAN
    OBVIOUS
  <2> HIDE DEF L, b
  <2> QED
    BY <1>2, <1>4, <2>1, <2>2, Typed DEF Excuses
<1> HIDE DEF L
<1>7. /\ client' \in [Clients -> Locals(Len(executions))]
      /\ \A c \in Clients : client'[c] = IF c \in C THEN Idle ELSE client[c]
  BY <1>2, <1>3, Defaults, Typed
<1>8. /\ admin' \in [Admins -> AdminLocals]
      /\ \A a \in Admins : admin'[a] = IF a \in A THEN Calm ELSE admin[a]
  BY <1>2, <1>3, Defaults, Typed
<1>9. TypeOK'
  BY <1>1, <1>2, <1>6, <1>7, <1>8
  DEF TypeOK, Locals, Spots, AdminLocals, Excuses, Budget
<1>10. Keyed' /\ OwnIds' /\ FreshReads'
  BY <1>1, <1>7, <1>8, Defaults DEF AdmissionInv, Keyed, OwnIds, FreshReads
<1>11. NoneForgotten'
  <2>1. ASSUME NEW e \in DOMAIN executions
        PROVE  \/ \E j \in jobs : j.execution = e
               \/ \E d \in Clients : client'[d].pc = "enqueue" /\ client'[d].execution = e
               \/ e \in excuse'.lost
    <3>1. \/ \E j \in jobs : j.execution = e
          \/ \E d \in Clients : client[d].pc = "enqueue" /\ client[d].execution = e
          \/ e \in excuse.lost
      BY DEF AdmissionInv, NoneForgotten, At
    <3> QED
      BY <1>5, <1>6, <1>7, <3>1
  <2> QED
    BY <1>1, <2>1 DEF NoneForgotten, At
<1>12. CacheFollows'
  <2>1. \A a \in Admins : admin[a].pc = "invalidate" =>
            admin'[a].pc = "invalidate" \/ \E d \in A : admin[d].pc = "invalidate"
    BY <1>8
  <2> QED
    BY <1>1, <1>6, <2>1 DEF AdmissionInv, CacheFollows
<1>13. ChangesCompose'
  BY <1>1, <1>6 DEF AdmissionInv, ChangesCompose
<1> QED
  BY <1>9, <1>10, <1>11, <1>12, <1>13 DEF AdmissionInv

---------------------------------------------------------------------------
(* The invariant and what follows from it.                                  *)

LEMMA AdmissionInit == Init => AdmissionInv
<1> SUFFICES ASSUME Init PROVE AdmissionInv
  OBVIOUS
<1>1. /\ tenant = DefaultSettings /\ intended = DefaultSettings /\ cache = NoSettings
      /\ executions = <<>> /\ jobs = {} /\ told = {} /\ keys = [k \in Keys |-> 0]
      /\ DOMAIN executions = {} /\ Len(executions) = 0
  BY DEF Init
<1>2. client \in [Clients -> Locals(0)] /\ \A c \in Clients : client[c].pc = "idle"
  BY Defaults DEF Init
<1>3. admin \in [Admins -> AdminLocals] /\ \A a \in Admins : admin[a].pc = "idle"
  BY Defaults DEF Init
<1>4. excuse \in Excuses(0) /\ left \in Budget
  BY AdmissionAssumption DEF Init, Excuses, Budget
<1>5. TypeOK
  BY <1>1, <1>2, <1>3, <1>4, Defaults
  DEF TypeOK, Locals, Spots, AdminLocals, Excuses, Budget
<1>6. Keyed /\ OwnIds /\ FreshReads /\ NoneForgotten /\ CacheFollows /\ ChangesCompose
  BY <1>1, <1>2, <1>3
  DEF Keyed, OwnIds, FreshReads, NoneForgotten, CacheFollows, ChangesCompose
<1> QED
  BY <1>5, <1>6 DEF AdmissionInv

LEMMA AdmissionNext == AdmissionInv /\ [Next]_vars => AdmissionInv'
<1> SUFFICES ASSUME AdmissionInv, [Next]_vars PROVE AdmissionInv'
  OBVIOUS
<1>1. CASE UNCHANGED vars
  BY <1>1
  DEF vars, AdmissionInv, TypeOK, Keyed, OwnIds, FreshReads, NoneForgotten, CacheFollows,
      ChangesCompose, At
<1>2. ASSUME NEW c \in Clients,
             \/ \E k \in Keys \cup {NoKey} : Request(c, k)
             \/ Proceed(c) \/ StatementFails(c)
      PROVE  AdmissionInv'
  BY <1>2, RequestStarts, CacheGetKeeps, LoadKeeps, CacheSetKeeps, CheckQuotaKeeps,
     FindKeyKeeps, CreateKeeps, EnqueueKeeps, StatementFailsKeeps DEF Proceed
<1>3. ASSUME NEW e \in DOMAIN executions,
             WorkerStarts(e) \/ Pauses(e) \/ Ends(e)
      PROVE  AdmissionInv'
  BY <1>3, MoveKeeps DEF WorkerStarts, Pauses, Ends
<1>4. ASSUME NEW a \in Admins,
             \/ \E ch \in Change : ChangeRead(a, ch)
             \/ ChangeWrite(a) \/ Invalidate(a)
      PROVE  AdmissionInv'
  BY <1>4, ChangeReadKeeps, ChangeWriteKeeps, InvalidateKeeps
<1> QED
  BY <1>1, <1>2, <1>3, <1>4, ExpireKeeps, CrashKeeps DEF Next

THEOREM AdmissionInvariant == Spec => []AdmissionInv
BY AdmissionInit, AdmissionNext, PTL DEF Spec

\* Rows, cache, requests and answers have their types.
THEOREM AdmissionTypes == Spec => []TypeOK
<1>1. AdmissionInv => TypeOK
  BY DEF AdmissionInv
<1> QED
  BY <1>1, AdmissionInvariant, PTL

\* Requests with one idempotency key make one execution and are told of it.
THEOREM OnePerKey == Spec => []OneExecutionPerKey
<1>1. AdmissionInv => OneExecutionPerKey
  <2> SUFFICES ASSUME AdmissionInv PROVE OneExecutionPerKey
    OBVIOUS
  <2>1. \A t \in told : t.execution \in DOMAIN executions
    BY Typed DEF AdmissionInv, Answers
  <2>2. \A d, e \in DOMAIN executions :
            executions[d].key = executions[e].key /\ executions[d].key # NoKey => d = e
    BY DEF AdmissionInv, Keyed
  <2> QED
    BY <2>1, <2>2 DEF AdmissionInv, Keyed, OneExecutionPerKey
<1> QED
  BY <1>1, AdmissionInvariant, PTL

\* No execution is without a job, but for failures and crashes at the enqueue.
THEOREM NoneIsForgotten == Spec => []NoneForgotten
<1>1. AdmissionInv => NoneForgotten
  BY DEF AdmissionInv
<1> QED
  BY <1>1, AdmissionInvariant, PTL

\* The cached settings follow the row.
THEOREM CacheFollowsRow == Spec => []CacheFollows
<1>1. AdmissionInv => CacheFollows
  BY DEF AdmissionInv
<1> QED
  BY <1>1, AdmissionInvariant, PTL

\* Changes of the settings that do not overlap compose.
THEOREM ChangesAreComposed == Spec => []ChangesCompose
<1>1. AdmissionInv => ChangesCompose
  BY DEF AdmissionInv
<1> QED
  BY <1>1, AdmissionInvariant, PTL
---------------------------------------------------------------------------
(* The quota.  What a check lets pass is not counted before a worker writes *)
(* its status, so the invariant counts from the check on: executions that    *)
(* count or may after the next write, and requests about to enqueue one.     *)

Counting == {e \in DOMAIN executions : executions[e].status \in Counted}
Active   == Counting \cup Pending

\* A request is judged by settings it has read.
Judged == \A c \in Clients : client[c].pc \in {"fill", "check"} => client[c].seen \in Settings

Room == tenant.max # 0 =>
            Cardinality(Active) + Cardinality(Underway) <= tenant.max + excuse.over

QuotaInv == AdmissionInv /\ Judged /\ Room

LEMMA Sizes ==
    ASSUME TypeOK
    PROVE  /\ Active \subseteq DOMAIN executions /\ IsFiniteSet(Active)
           /\ IsFiniteSet(Underway)
           /\ Cardinality(Active) \in Nat /\ Cardinality(Underway) \in Nat
           /\ tenant.max \in Nat /\ excuse.over \in Nat
<1>1. Active \subseteq DOMAIN executions
  BY DEF Active, Counting, Pending
<1>2. IsFiniteSet(Active) /\ Cardinality(Active) \in Nat
  BY <1>1, Countable
<1>3. IsFiniteSet(Underway) /\ Cardinality(Underway) \in Nat
  BY AdmissionAssumption, FS_Subset, FS_CardinalityType DEF Underway
<1>4. tenant.max \in Nat /\ excuse.over \in Nat
  BY Typed, AdmissionAssumption DEF Settings, Excuses
<1> QED
  BY <1>1, <1>2, <1>3, <1>4

\* What is claimed is what is active and under way: nothing is counted twice.
LEMMA ClaimedIsActive ==
    ASSUME TypeOK
    PROVE  Claimed = Cardinality(Active) + Cardinality(Underway)
<1>1. /\ IsFiniteSet(Counting) /\ IsFiniteSet(Pending)
      /\ Cardinality(Counting) \in Nat /\ Cardinality(Pending) \in Nat
  <2>1. Counting \subseteq DOMAIN executions /\ Pending \subseteq DOMAIN executions
    BY DEF Counting, Pending
  <2> QED
    BY <2>1, Countable
<1>2. Counting \cap Pending = {}
  BY DEF Counting, Pending, Counted
<1>3. Cardinality(Counting \cap Pending) = 0
  BY <1>2, FS_EmptySet
<1>4. Cardinality(Active) = Cardinality(Counting) + Cardinality(Pending)
  <2>1. Cardinality(Counting \cup Pending) =
            Cardinality(Counting) + Cardinality(Pending) - Cardinality(Counting \cap Pending)
    BY <1>1, FS_Union
  <2> QED
    BY <1>1, <1>3, <2>1 DEF Active
<1>5. Running = Cardinality(Counting)
  BY DEF Running, Counting
<1> QED
  BY <1>1, <1>4, <1>5, Sizes DEF Claimed, Unseen

\* Fewer executions and fewer requests need no more room.
LEMMA RoomKept ==
    ASSUME TypeOK, Room, tenant'.max = tenant.max, excuse'.over = excuse.over,
           Active' \subseteq Active, Underway' \subseteq Underway
    PROVE  Room'
<1>1. Cardinality(Active') \in Nat /\ Cardinality(Active') <= Cardinality(Active)
  BY Sizes, FS_Subset, FS_CardinalityType
<1>2. Cardinality(Underway') \in Nat /\ Cardinality(Underway') <= Cardinality(Underway)
  BY Sizes, FS_Subset, FS_CardinalityType
<1> QED
  BY <1>1, <1>2, Sizes DEF Room

LEMMA ActiveSame ==
    ASSUME UNCHANGED <<executions, jobs>> PROVE Active' = Active
BY DEF Active, Counting, Pending, HasJob

\* One request moves, and the executions stay.
LEMMA Passing ==
    ASSUME QuotaInv, NEW c \in Clients, NEW x \in Locals(Len(executions)),
           client' = [client EXCEPT ![c] = x],
           x.pc \in {"find", "create", "enqueue"} => c \in Underway,
           x.pc \in {"fill", "check"} => x.seen \in Settings,
           Active' \subseteq Active, tenant' = tenant, excuse'.over = excuse.over
    PROVE  Judged' /\ Room'
<1>1. TypeOK
  BY DEF QuotaInv, AdmissionInv
<1>2. client'[c] = x /\ \A d \in Clients \ {c} : client'[d] = client[d]
  BY <1>1, Moved
<1>3. Underway' \subseteq Underway
  BY <1>2 DEF Underway
<1>4. Judged'
  BY <1>2 DEF QuotaInv, Judged
<1> QED
  BY <1>1, <1>3, <1>4, RoomKept DEF QuotaInv

LEMMA LeavesRoom ==
    ASSUME QuotaInv, NEW c \in Clients, Leave(c), Active' \subseteq Active,
           tenant' = tenant, excuse'.over = excuse.over
    PROVE  Judged' /\ Room'
<1>1. Idle \in Locals(Len(executions)) /\ Idle.pc = "idle"
  BY Defaults, Typed DEF QuotaInv, AdmissionInv
<1> QED
  BY <1>1, Passing DEF Leave

LEMMA ReadsKeepRoom ==
    ASSUME QuotaInv, NEW c \in Clients, CacheGet(c) \/ Load(c) \/ CacheSet(c)
    PROVE  Judged' /\ Room'
<1> DEFINE x == [client[c] EXCEPT !.pc = "check", !.seen = cache]
           y == [client[c] EXCEPT !.pc = "load"]
           z == [client[c] EXCEPT !.pc = "fill", !.seen = tenant]
           w == [client[c] EXCEPT !.pc = "check", !.aged = FALSE]
<1>1. TypeOK /\ client[c] \in Locals(Len(executions)) /\ tenant' = tenant
      /\ Active' \subseteq Active
  BY Typed, ActiveSame DEF QuotaInv, AdmissionInv, CacheGet, Load, CacheSet
<1>2. excuse'.over = excuse.over
  <2>1. CASE CacheSet(c) /\ excuse' = [excuse EXCEPT !.cache = client[c].aged]
    BY <1>1, <2>1, Typed DEF Excuses
  <2> QED
    BY <2>1 DEF CacheGet, Load, CacheSet
<1>3. CASE cache # NoSettings /\ client' = [client EXCEPT ![c] = x]
  <2>1. x \in Locals(Len(executions)) /\ x.pc = "check" /\ x.seen \in Settings
    BY <1>1, <1>3, Typed DEF Locals, Spots
  <2> HIDE DEF x
  <2> QED
    BY <1>1, <1>2, <1>3, <2>1, Passing
<1>4. CASE client' = [client EXCEPT ![c] = y]
  <2>1. y \in Locals(Len(executions)) /\ y.pc = "load"
    BY <1>1 DEF Locals, Spots
  <2> HIDE DEF y
  <2> QED
    BY <1>1, <1>2, <1>4, <2>1, Passing
<1>5. CASE client' = [client EXCEPT ![c] = z]
  <2>1. z \in Locals(Len(executions)) /\ z.pc = "fill" /\ z.seen \in Settings
    BY <1>1, Typed DEF Locals, Spots
  <2> HIDE DEF z
  <2> QED
    BY <1>1, <1>2, <1>5, <2>1, Passing
<1>6. CASE client[c].pc = "fill" /\ client' = [client EXCEPT ![c] = w]
  <2>1. w \in Locals(Len(executions)) /\ w.pc = "check" /\ w.seen \in Settings
    BY <1>1, <1>6 DEF Locals, Spots, QuotaInv, Judged
  <2> HIDE DEF w
  <2> QED
    BY <1>1, <1>2, <1>6, <2>1, Passing
<1>7. CASE CacheGet(c)
  BY <1>3, <1>4, <1>7 DEF CacheGet, Goto
<1>8. CASE Load(c)
  BY <1>5, <1>8 DEF Load
<1>9. CASE CacheSet(c)
  BY <1>6, <1>9 DEF CacheSet, At
<1> QED
  BY <1>7, <1>8, <1>9

\* The request that passes takes one place.  Judged by a limit that is not above
\* the one in force, it has found it among those that count, so that what exceeds
\* the limit is what it could not see.
LEMMA AdmittedHasRoom ==
    ASSUME QuotaInv, NEW c \in Clients, CheckQuota(c)
    PROVE  Judged' /\ Room'
<1> DEFINE p == IF client[c].key = NoKey THEN "create" ELSE "find"
           x == [client[c] EXCEPT !.seen = NoSettings, !.pc = p]
           m == client[c].seen.max
           o == IF m \in 1..tenant.max THEN Unseen ELSE Beyond(tenant.max, Claimed + 1)
<1>1. /\ TypeOK /\ client[c].pc = "check" /\ client[c] \in Locals(Len(executions))
      /\ client[c].seen \in Settings /\ tenant' = tenant /\ Active' = Active
  BY Typed, ActiveSame DEF QuotaInv, AdmissionInv, Judged, CheckQuota, At
<1>2. CASE Leave(c) /\ UNCHANGED excuse
  BY <1>1, <1>2, LeavesRoom
<1>3. CASE /\ Admitted(client[c].seen)
           /\ client' = [client EXCEPT ![c] = x]
           /\ excuse' = [excuse EXCEPT !.over = o]
  <2>1. x \in Locals(Len(executions)) /\ x.pc \in {"create", "find"}
    BY <1>1 DEF Locals, Spots
  <2> HIDE DEF x
  <2>2. client'[c] = x /\ \A d \in Clients \ {c} : client'[d] = client[d]
    BY <1>1, <1>3, <2>1, Moved
  <2>3. excuse'.over = o
    BY <1>1, <1>3, Typed DEF Excuses
  <2>4. Judged'
    BY <2>1, <2>2 DEF QuotaInv, Judged
  <2>5. Cardinality(Underway') = Cardinality(Underway) + 1
    <3>1. Underway' = Underway \cup {c} /\ c \notin Underway
      BY <1>1, <2>1, <2>2 DEF Underway
    <3> QED
      BY <1>1, <3>1, Sizes, FS_AddElement
  <2>6. Claimed = Cardinality(Active) + Cardinality(Underway)
    BY <1>1, ClaimedIsActive
  <2>7. Running \in Nat /\ Unseen \in Nat /\ Claimed = Running + Unseen
    BY <1>1, Amounts DEF Claimed
  <2>8. m \in 1..tenant.max => Running < m
    <3>1. client[c].seen.max \in Nat
      BY <1>1, AdmissionAssumption DEF Settings
    <3>2. m # 0 => ~(Running >= m)
      BY <1>3 DEF Admitted, Exceeds
    <3> QED
      BY <2>7, <3>1, <3>2
  <2> HIDE DEF m
  <2>9. ASSUME tenant.max # 0
        PROVE  Claimed + 1 <= tenant.max + o
    <3>1. CASE m \in 1..tenant.max
      BY <1>1, <2>7, <2>8, <3>1, Sizes
    <3>2. CASE m \notin 1..tenant.max
      BY <1>1, <2>7, <2>9, <3>2, Sizes DEF Beyond
    <3> QED
      BY <3>1, <3>2
  <2> HIDE DEF o
  <2>10. Cardinality(Active') + Cardinality(Underway') = Claimed + 1
    BY <1>1, <2>5, <2>6, Sizes
  <2>11. Room'
    BY <1>1, <2>3, <2>9, <2>10 DEF Room
  <2> QED
    BY <2>4, <2>11
<1> QED
  BY <1>2, <1>3 DEF CheckQuota

LEMMA FindsKeepRoom ==
    ASSUME QuotaInv, NEW c \in Clients, FindKey(c)
    PROVE  Judged' /\ Room'
<1> DEFINE x == [client[c] EXCEPT !.pc = "create"]
<1>1. /\ TypeOK /\ client[c] \in Locals(Len(executions)) /\ Active' \subseteq Active
      /\ tenant' = tenant /\ excuse' = excuse /\ client[c].pc = "find"
  BY Typed, ActiveSame DEF QuotaInv, AdmissionInv, FindKey, At
<1>2. CASE Leave(c)
  BY <1>1, <1>2, LeavesRoom
<1>3. CASE client' = [client EXCEPT ![c] = x]
  <2>1. x \in Locals(Len(executions)) /\ x.pc = "create" /\ c \in Underway
    BY <1>1 DEF Locals, Spots, Underway
  <2> HIDE DEF x
  <2> QED
    BY <1>1, <1>3, <2>1, Passing
<1> QED
  BY <1>2, <1>3 DEF FindKey, Goto

\* An execution without a job does not count, and its request still does.
LEMMA CreatedHasRoom ==
    ASSUME QuotaInv, NEW c \in Clients, Create(c)
    PROVE  Judged' /\ Room'
<1> DEFINE n == Len(executions) + 1
           r == [key |-> client[c].key, status |-> "CREATED"]
           x == [client[c] EXCEPT !.pc = "enqueue", !.execution = n]
<1>1. /\ TypeOK /\ client[c].pc = "create" /\ client[c] \in Locals(Len(executions))
      /\ Len(executions) \in Nat /\ excuse' = excuse /\ tenant' = tenant /\ jobs' = jobs
  BY Typed DEF QuotaInv, AdmissionInv, Create, At
<1>2. CASE Leave(c) /\ UNCHANGED <<executions, keys>>
  BY <1>1, <1>2, ActiveSame, LeavesRoom
<1>3. CASE /\ executions' = Append(executions, r)
           /\ client' = [client EXCEPT ![c] = x]
  <2>1. /\ x.pc = "enqueue" /\ client'[c] = x
        /\ \A d \in Clients \ {c} : client'[d] = client[d]
    BY <1>1, <1>3, Typed DEF Locals
  <2> HIDE DEF x
  <2>2. Judged'
    BY <2>1 DEF QuotaInv, Judged
  <2>3. Underway' \subseteq Underway
    BY <1>1, <2>1 DEF Underway
  <2>4. Active' \subseteq Active
    <3>1. /\ DOMAIN executions' = DOMAIN executions \cup {n}
          /\ executions'[n].status = "CREATED"
          /\ \A e \in DOMAIN executions : executions'[e] = executions[e]
      BY <1>1, <1>3, Typed
    <3>2. \A j \in jobs : j.execution # n
      BY <1>1, Typed
    <3> HIDE DEF n
    <3> QED
      BY <1>1, <3>1, <3>2 DEF Active, Counting, Pending, Counted, HasJob
  <2>5. Room'
    BY <1>1, <2>3, <2>4, RoomKept DEF QuotaInv
  <2> QED
    BY <2>2, <2>5
<1> QED
  BY <1>2, <1>3 DEF Create

\* With its job the execution takes the place of its request.
LEMMA EnqueuesKeepRoom ==
    ASSUME QuotaInv, NEW c \in Clients, Enqueue(c)
    PROVE  Judged' /\ Room'
<1> DEFINE e == client[c].execution
<1>1. TypeOK /\ client[c].pc = "enqueue" /\ executions' = executions /\ tenant' = tenant
      /\ Leave(c)
  BY DEF QuotaInv, AdmissionInv, Enqueue, At
<1>2. excuse'.over = excuse.over
  <2>1. CASE excuse' = [excuse EXCEPT !.lost = @ \cup {e}]
    BY <1>1, <2>1, Typed DEF Excuses
  <2> QED
    BY <2>1 DEF Enqueue
<1>3. client'[c].pc = "idle" /\ \A d \in Clients \ {c} : client'[d] = client[d]
  BY <1>1, Defaults, Typed DEF Leave
<1>4. Judged'
  BY <1>3 DEF QuotaInv, Judged
<1>5. Cardinality(Underway) = Cardinality(Underway') + 1 /\ Cardinality(Underway') \in Nat
  <2>1. Underway' = Underway \ {c} /\ c \in Underway
    BY <1>1, <1>3 DEF Underway
  <2>2. /\ Cardinality(Underway \ {c}) = Cardinality(Underway) - 1
        /\ Cardinality(Underway \ {c}) \in Nat
    BY <1>1, <2>1, Sizes, FS_RemoveElement, FS_CardinalityType
  <2> QED
    BY <1>1, <2>1, <2>2, Sizes
<1>6. Cardinality(Active') <= Cardinality(Active) + 1 /\ Cardinality(Active') \in Nat
  <2>1. \A j \in jobs' \ jobs : j.execution = e
    BY DEF Enqueue, Add
  <2> HIDE DEF e
  <2>2. Active' \subseteq Active \cup {e}
    BY <1>1, <2>1 DEF Active, Counting, Pending, HasJob
  <2>3. /\ IsFiniteSet(Active \cup {e})
        /\ Cardinality(Active \cup {e}) <= Cardinality(Active) + 1
    <3>1. /\ IsFiniteSet(Active \cup {e})
          /\ Cardinality(Active \cup {e}) = IF e \in Active THEN Cardinality(Active)
                                             ELSE Cardinality(Active) + 1
      BY <1>1, Sizes, FS_AddElement
    <3> QED
      BY <1>1, <3>1, Sizes
  <2>4. /\ Cardinality(Active') <= Cardinality(Active \cup {e})
        /\ Cardinality(Active') \in Nat /\ Cardinality(Active \cup {e}) \in Nat
    BY <2>2, <2>3, FS_Subset, FS_CardinalityType
  <2> QED
    BY <1>1, <2>3, <2>4, Sizes
<1>7. Room'
  BY <1>1, <1>2, <1>5, <1>6, Sizes DEF QuotaInv, Room
<1> QED
  BY <1>4, <1>7

LEMMA FailuresKeepRoom ==
    ASSUME QuotaInv, NEW c \in Clients, StatementFails(c)
    PROVE  Judged' /\ Room'
<1>1. Leave(c) /\ Active' \subseteq Active /\ tenant' = tenant /\ excuse' = excuse
  BY ActiveSame DEF StatementFails
<1> QED
  BY <1>1, LeavesRoom

LEMMA RequestsKeepRoom ==
    ASSUME QuotaInv, NEW c \in Clients, NEW k \in Keys \cup {NoKey}, Request(c, k)
    PROVE  Judged' /\ Room'
<1> DEFINE x == [Idle EXCEPT !.pc = "lookup", !.key = k]
<1>1. TypeOK /\ client' = [client EXCEPT ![c] = x] /\ Active' \subseteq Active
      /\ tenant' = tenant /\ excuse' = excuse
  BY ActiveSame DEF QuotaInv, AdmissionInv, Request
<1>2. x \in Locals(Len(executions)) /\ x.pc = "lookup"
  BY <1>1, Defaults, Typed DEF Locals, Spots
<1> HIDE DEF x
<1> QED
  BY <1>1, <1>2, Passing

\* The workers bring nothing to life that was not counted as able to.
LEMMA MovesKeepRoom ==
    ASSUME QuotaInv, NEW e \in DOMAIN executions, WorkerStarts(e) \/ Pauses(e) \/ Ends(e)
    PROVE  Judged' /\ Room'
<1> DEFINE Alive == {"CREATED", "RUNNING", "WAITING", "CLOSING"}
<1>1. PICK from \in SUBSET Alive, to \in {"RUNNING", "WAITING", "CLOSING", "ENDED"} :
          Move(e, from, to) /\ (HasJob(e) \/ to = "ENDED" \/ "CREATED" \notin from)
  <2>1. /\ {"CREATED", "WAITING", "CLOSING"} \in SUBSET Alive
        /\ {"RUNNING", "CLOSING"} \in SUBSET Alive
        /\ {"CREATED", "RUNNING", "WAITING"} \in SUBSET Alive /\ Alive \in SUBSET Alive
    OBVIOUS
  <2>2. CASE WorkerStarts(e)
    BY <2>1, <2>2 DEF WorkerStarts
  <2>3. CASE Pauses(e)
    <3>1. Move(e, {"RUNNING", "CLOSING"}, "WAITING")
      BY <2>3 DEF Pauses
    <3>2. {"RUNNING", "CLOSING"} \in SUBSET Alive /\ "CREATED" \notin {"RUNNING", "CLOSING"}
      BY <2>1
    <3> HIDE DEF Alive
    <3> QED
      BY <3>1, <3>2
  <2>4. CASE Ends(e)
    <3>1. CASE HasJob(e) /\ Move(e, {"CREATED", "RUNNING", "WAITING"}, "CLOSING")
      BY <2>1, <3>1
    <3>2. CASE Move(e, Alive, "ENDED")
      BY <2>1, <3>2
    <3> QED
      BY <2>4, <3>1, <3>2 DEF Ends
  <2> QED
    BY <2>2, <2>3, <2>4
<1>2. /\ TypeOK /\ client' = client /\ excuse' = excuse /\ tenant' = tenant /\ jobs' = jobs
      /\ executions' = [executions EXCEPT ![e].status = to]
      /\ executions[e].status \in {"CREATED", "RUNNING", "WAITING", "CLOSING"}
      /\ executions[e].status \in from
  BY <1>1 DEF QuotaInv, AdmissionInv, Move
<1>3. /\ DOMAIN executions' = DOMAIN executions /\ executions'[e].status = to
      /\ \A d \in DOMAIN executions \ {e} : executions'[d] = executions[d]
  BY <1>2, Typed DEF Execution
<1>4. e \in Active' => e \in Active
  BY <1>1, <1>2, <1>3 DEF Active, Counting, Pending, Counted
<1>5. Active' \subseteq Active
  BY <1>2, <1>3, <1>4 DEF Active, Counting, Pending, HasJob
<1>6. Underway' \subseteq Underway /\ Judged'
  BY <1>2 DEF Underway, QuotaInv, Judged
<1> QED
  BY <1>2, <1>5, <1>6, RoomKept DEF QuotaInv

\* Expiry, crashes and the rest of a change let no request pass.
LEMMA OthersKeepRoom ==
    ASSUME QuotaInv, UNCHANGED <<executions, jobs, tenant>>, excuse'.over = excuse.over,
           \A c \in Clients : \/ client'[c].pc = "idle"
                              \/ /\ client'[c].pc = client[c].pc
                                 /\ client'[c].seen = client[c].seen
    PROVE  Judged' /\ Room'
<1>1. Active' \subseteq Active /\ Underway' \subseteq Underway
  BY ActiveSame DEF Underway
<1>2. Judged'
  BY DEF QuotaInv, Judged
<1>3. TypeOK /\ tenant'.max = tenant.max
  BY DEF QuotaInv, AdmissionInv
<1> QED
  BY <1>1, <1>2, <1>3, RoomKept DEF QuotaInv

LEMMA AdminsKeepRoom ==
    ASSUME QuotaInv, NEW a \in Admins,
           (\E ch \in Change : ChangeRead(a, ch)) \/ Invalidate(a) \/ Expire
    PROVE  Judged' /\ Room'
<1>1. TypeOK /\ UNCHANGED <<executions, jobs, tenant>> /\ client' = client
  BY DEF QuotaInv, AdmissionInv, ChangeRead, Invalidate, Expire
<1>2. excuse'.over = excuse.over
  <2>1. CASE \E b : excuse' = [excuse EXCEPT !.cache = b]
    BY <1>1, <2>1, Typed DEF Excuses
  <2> QED
    BY <2>1 DEF ChangeRead, Invalidate, Expire
<1> QED
  BY <1>1, <1>2, OthersKeepRoom

\* A change finds what is active and under way.
LEMMA ChangesMakeRoom ==
    ASSUME QuotaInv, NEW a \in Admins, ChangeWrite(a)
    PROVE  Judged' /\ Room'
<1>1. TypeOK /\ UNCHANGED <<executions, jobs>> /\ Active' = Active
  BY ActiveSame DEF QuotaInv, AdmissionInv, ChangeWrite
<1>2. \A c \in Clients : client'[c].pc = client[c].pc /\ client'[c].seen = client[c].seen
  <2>1. client' = [c \in Clients |-> [client[c] EXCEPT !.aged = @ \/ client[c].pc = "fill"]]
    BY DEF ChangeWrite
  <2>2. \A c \in Clients : client[c] \in Locals(Len(executions))
    BY <1>1, Typed
  <2> QED
    BY <2>1, <2>2 DEF Locals
<1>3. Underway' = Underway /\ Judged'
  BY <1>2 DEF Underway, QuotaInv, Judged
<1>4. Claimed = Cardinality(Active) + Cardinality(Underway) /\ Claimed \in Nat
  BY <1>1, ClaimedIsActive, Sizes
<1>5. tenant'.max \in Nat
  <2>1. tenant' \in Settings
    BY AdmissionNext DEF QuotaInv, AdmissionInv, TypeOK, Next
  <2> QED
    BY <2>1, AdmissionAssumption DEF Settings
<1>6. excuse'.over = Beyond(tenant'.max, Claimed)
  <2>1. \E b : excuse' = [excuse EXCEPT !.change = b, !.over = Beyond(tenant'.max, Claimed)]
    BY DEF ChangeWrite
  <2> QED
    BY <1>1, <2>1, Typed DEF Excuses
<1>7. Room'
  BY <1>1, <1>3, <1>4, <1>5, <1>6 DEF Room, Beyond
<1> QED
  BY <1>3, <1>7

LEMMA CrashKeepsRoom ==
    ASSUME QuotaInv, Crash
    PROVE  Judged' /\ Room'
<1>1. TypeOK /\ UNCHANGED <<executions, jobs, tenant>>
  BY DEF QuotaInv, AdmissionInv, Crash
<1>2. PICK C \in SUBSET Busy :
          client' = [c \in Clients |-> IF c \in C THEN Idle ELSE client[c]]
  BY DEF Crash
<1>3. excuse'.over = excuse.over
  <2>1. \E l, b : excuse' = [excuse EXCEPT !.lost = l, !.cache = b]
    BY DEF Crash
  <2> QED
    BY <1>1, <2>1, Typed DEF Excuses
<1>4. \A c \in Clients : \/ client'[c].pc = "idle"
                         \/ /\ client'[c].pc = client[c].pc
                            /\ client'[c].seen = client[c].seen
  BY <1>2, Defaults
<1> QED
  BY <1>1, <1>3, <1>4, OthersKeepRoom

LEMMA QuotaInit == Init => QuotaInv
<1> SUFFICES ASSUME Init PROVE QuotaInv
  OBVIOUS
<1>1. AdmissionInv /\ TypeOK
  BY AdmissionInit DEF AdmissionInv
<1>2. \A c \in Clients : client[c].pc = "idle"
  BY Defaults DEF Init
<1>3. Active = {} /\ Underway = {}
  BY <1>2 DEF Init, Active, Counting, Pending, Underway
<1>4. Cardinality(Active) = 0 /\ Cardinality(Underway) = 0
  BY <1>3, FS_EmptySet
<1>5. tenant.max \in Nat /\ excuse.over = 0
  BY <1>1, Sizes DEF Init
<1>6. Room
  BY <1>4, <1>5 DEF Room
<1> QED
  BY <1>1, <1>2, <1>6 DEF QuotaInv, Judged

LEMMA QuotaNext == QuotaInv /\ [Next]_vars => QuotaInv'
<1> SUFFICES ASSUME QuotaInv, [Next]_vars PROVE QuotaInv'
  OBVIOUS
<1>1. AdmissionInv'
  BY AdmissionNext DEF QuotaInv
<1>2. Judged' /\ Room'
  <2>1. CASE UNCHANGED vars
    BY <2>1 DEF vars, QuotaInv, Judged, Room, Active, Counting, Pending, HasJob, Underway
  <2>2. ASSUME NEW c \in Clients,
               \/ \E k \in Keys \cup {NoKey} : Request(c, k)
               \/ Proceed(c) \/ StatementFails(c)
        PROVE  Judged' /\ Room'
    BY <2>2, RequestsKeepRoom, ReadsKeepRoom, AdmittedHasRoom, FindsKeepRoom,
       CreatedHasRoom, EnqueuesKeepRoom, FailuresKeepRoom DEF Proceed
  <2>3. ASSUME NEW e \in DOMAIN executions, WorkerStarts(e) \/ Pauses(e) \/ Ends(e)
        PROVE  Judged' /\ Room'
    BY <2>3, MovesKeepRoom
  <2>4. ASSUME NEW a \in Admins,
               \/ \E ch \in Change : ChangeRead(a, ch)
               \/ ChangeWrite(a) \/ Invalidate(a)
        PROVE  Judged' /\ Room'
    BY <2>4, AdminsKeepRoom, ChangesMakeRoom
  <2>5. CASE Expire
    <3>1. excuse'.over = excuse.over
      BY <2>5, Typed DEF Expire, QuotaInv, AdmissionInv, Excuses
    <3> QED
      BY <2>5, <3>1, OthersKeepRoom DEF Expire
  <2> QED
    BY <2>1, <2>2, <2>3, <2>4, <2>5, CrashKeepsRoom DEF Next
<1> QED
  BY <1>1, <1>2 DEF QuotaInv

\* No more executions run and wait than the limit in force allows, beyond what
\* the last check that let a request pass could not see, and what a change of the
\* limit found; whatever the workers and the cancel route write, in any order.
THEOREM QuotaIsKept == Spec => []QuotaKept
<1>1. QuotaInv => QuotaKept
  <2> SUFFICES ASSUME QuotaInv, tenant.max # 0 PROVE Running <= tenant.max + excuse.over
    BY DEF QuotaKept
  <2>1. TypeOK
    BY DEF QuotaInv, AdmissionInv
  <2>2. Running \in Nat /\ Unseen \in Nat /\ Claimed = Running + Unseen
    BY <2>1, Amounts DEF Claimed
  <2>3. Claimed <= tenant.max + excuse.over
    BY <2>1, ClaimedIsActive DEF QuotaInv, Room
  <2> QED
    BY <2>1, <2>2, <2>3, Sizes
<1> QED
  BY <1>1, QuotaInit, QuotaNext, PTL DEF Spec
=============================================================================
