------------------------------ MODULE Admission ------------------------------
(***************************************************************************)
(* How a message becomes an execution: the route checks the tenant's        *)
(* settings (read through a Redis cache) and its quota, MessagesService     *)
(* looks for the idempotency key, creates message, execution and key in one *)
(* transaction, and enqueues the job outside of it.  Administrators change  *)
(* the settings meanwhile.  One tenant; a request is one of Clients, split  *)
(* at its awaits.  Of what workers and the cancel route do to an execution   *)
(* (the subject of AgentExecution), there are the statuses the quota counts, *)
(* which they write by the id of the execution, whatever it says by then.    *)
(***************************************************************************)
EXTENDS Naturals, Sequences, FiniteSets

CONSTANTS Clients, Admins, Keys,
          NoKey,         \* the request has no Idempotency-Key header
          NoSettings,    \* nothing cached
          Limits,        \* the values maxConcurrentExecutions takes, 0: unlimited
          DefaultLimit,  \* the one of a new tenant
          Budgets        \* bounds: what may be created, changed, and fail

ASSUME AdmissionAssumption ==
    /\ NoKey \notin Keys /\ NoSettings \notin [max : Limits, disabled : BOOLEAN]
    /\ DefaultLimit \in Limits /\ Limits \subseteq Nat
    /\ IsFiniteSet(Clients)
    /\ Budgets \subseteq [executions : Nat, changes : Nat, faults : Nat]

VARIABLES
    tenant,      \* settings column of the Tenant row
    cache,       \* Redis entry cache:tenant:<id>:settings
    executions,  \* Execution rows in the order of their creation
    keys,        \* IdempotencyKey rows: the execution in the stored response, or 0
    jobs,        \* jobs ever added to the execution queue
    client,      \* per request: the await it is at and its locals
    admin,       \* per administrator's request: the same
    told,        \* every 201 response: the key it was asked with, the execution
    intended,    \* settings after every change written, applied one by one
    excuse,      \* what happened that the properties make an exception for
    left         \* of the budget

vars == <<tenant, cache, executions, keys, jobs, client, admin, told,
          intended, excuse, left>>

Settings   == [max : Limits, disabled : BOOLEAN]
\* The settings a request sets: the limit, whether the tenant is disabled, or
\* none when it is for the tenant's name alone.
Change     == [max : Limits] \cup [disabled : BOOLEAN] \cup {<<>>}
\* CLOSING: the row says that the execution has ended, but a run that read the
\* status before is under way and may write it once more.
Execution  == [key : Keys \cup {NoKey},
               status : {"CREATED", "RUNNING", "WAITING", "CLOSING", "ENDED"}]

DefaultSettings == [max |-> DefaultLimit, disabled |-> FALSE]

\* aged: the settings it holds were read before the latest change.
Idle  == [pc |-> "idle", key |-> NoKey, seen |-> NoSettings, aged |-> FALSE,
          execution |-> 0]
Calm  == [pc |-> "idle", seen |-> DefaultSettings, aged |-> FALSE,
          change |-> [disabled |-> FALSE]]

Init ==
    /\ tenant = DefaultSettings /\ intended = DefaultSettings
    /\ cache = NoSettings
    /\ executions = <<>> /\ jobs = {} /\ told = {}
    /\ keys = [k \in Keys |-> 0]
    /\ client = [c \in Clients |-> Idle]
    /\ admin = [a \in Admins |-> Calm]
    /\ excuse = [cache |-> FALSE, over |-> 0, change |-> FALSE, lost |-> {}]
    /\ left \in Budgets

Fault == /\ left.faults > 0
         /\ left' = [left EXCEPT !.faults = @ - 1]

---------------------------------------------------------------------------
(* checkExecutionQuota: the settings, through the cache *)

At(c, p) == client[c].pc = p
Goto(c, p) == client' = [client EXCEPT ![c].pc = p]
Leave(c)   == client' = [client EXCEPT ![c] = Idle]
Busy == {c \in Clients : ~At(c, "idle")}

Request(c, k) ==
    /\ At(c, "idle")
    /\ \/ Len(executions) + Cardinality(Busy) < left.executions
       \/ k # NoKey /\ keys[k] # 0
    /\ client' = [client EXCEPT ![c] = [Idle EXCEPT !.pc = "lookup", !.key = k]]
    /\ UNCHANGED <<tenant, cache, executions, keys, jobs, admin, told, intended,
                   excuse, left>>

\* A failure of Redis is a miss.
CacheGet(c) ==
    /\ At(c, "lookup")
    /\ \/ /\ cache # NoSettings
          /\ client' = [client EXCEPT ![c].pc = "check", ![c].seen = cache]
          /\ UNCHANGED left
       \/ /\ cache = NoSettings
          /\ Goto(c, "load") /\ UNCHANGED left
       \/ /\ Fault /\ Goto(c, "load")
    /\ UNCHANGED <<tenant, cache, executions, keys, jobs, admin, told, intended, excuse>>

Load(c) ==
    /\ At(c, "load")
    /\ client' = [client EXCEPT ![c].pc = "fill", ![c].seen = tenant]
    /\ UNCHANGED <<tenant, cache, executions, keys, jobs, admin, told, intended,
                   excuse, left>>

\* A failure of Redis is logged, and the settings are used all the same.
CacheSet(c) ==
    /\ At(c, "fill")
    /\ client' = [client EXCEPT ![c].pc = "check", ![c].aged = FALSE]
    /\ \/ /\ cache' = client[c].seen
          /\ excuse' = [excuse EXCEPT !.cache = client[c].aged]
          /\ UNCHANGED left
       \/ Fault /\ UNCHANGED <<cache, excuse>>
    /\ UNCHANGED <<tenant, executions, keys, jobs, admin, told, intended>>

\* The entry was set with a time to live.
MutantNoTTL(entry) == FALSE
HasTTL(entry)      == entry # NoSettings

Expire ==
    /\ cache # NoSettings /\ HasTTL(cache)
    /\ cache' = NoSettings /\ excuse' = [excuse EXCEPT !.cache = FALSE]
    /\ UNCHANGED <<tenant, executions, keys, jobs, client, admin, told, intended, left>>

---------------------------------------------------------------------------
(* checkExecutionQuota: the quota *)

MutantRunningOnly == {"RUNNING"}
Counted           == {"RUNNING", "WAITING"}
Running == Cardinality({e \in DOMAIN executions : executions[e].status \in Counted})

Exceeds(s, n) == n >= s.max
Admitted(s)   == ~s.disabled /\ (s.max = 0 \/ ~Exceeds(s, Running))

\* Admitted requests that have yet to give their execution a job, and executions
\* that do not count now but may after the next write of a worker.
Underway == {c \in Clients : client[c].pc \in {"find", "create", "enqueue"}}
HasJob(e) == \E j \in jobs : j.execution = e
Pending  == {e \in DOMAIN executions :
                \/ executions[e].status = "CREATED" /\ HasJob(e)
                \/ executions[e].status = "CLOSING"}

Unseen        == Cardinality(Underway) + Cardinality(Pending)
Claimed       == Running + Unseen
Beyond(n, k)  == IF n = 0 \/ k <= n THEN 0 ELSE k - n

\* The limit the request is judged by may be an older one.
CheckQuota(c) ==
    /\ At(c, "check")
    /\ \/ /\ Admitted(client[c].seen)
          /\ client' = [client EXCEPT ![c].seen = NoSettings,
                ![c].pc = IF client[c].key = NoKey THEN "create" ELSE "find"]
          /\ excuse' = [excuse EXCEPT !.over =
                IF client[c].seen.max \in 1..tenant.max THEN Unseen
                ELSE Beyond(tenant.max, Claimed + 1)]
       \/ /\ ~Admitted(client[c].seen)
          /\ Leave(c) /\ UNCHANGED excuse
    /\ UNCHANGED <<tenant, cache, executions, keys, jobs, admin, told, intended, left>>

---------------------------------------------------------------------------
(* createMessage *)

FindKey(c) ==
    /\ At(c, "find")
    /\ LET e == keys[client[c].key] IN
       \/ /\ e # 0
          /\ told' = told \cup {[key |-> client[c].key, execution |-> e]}
          /\ Leave(c)
       \/ e = 0 /\ Goto(c, "create") /\ UNCHANGED told
    /\ UNCHANGED <<tenant, cache, executions, keys, jobs, admin, intended, excuse, left>>

MutantNoUniqueKey(k) == FALSE
KeyTaken(k)          == k # NoKey /\ keys[k] # 0

\* One transaction: message, execution, key.  The unique index on the key
\* aborts it, and the request fails.
Create(c) ==
    /\ At(c, "create")
    /\ LET k == client[c].key
           e == Len(executions) + 1
       IN \/ KeyTaken(k) /\ Leave(c) /\ UNCHANGED <<executions, keys>>
          \/ /\ ~KeyTaken(k)
             /\ executions' = Append(executions, [key |-> k, status |-> "CREATED"])
             /\ keys' = [i \in Keys |-> IF i = k THEN e ELSE keys[i]]
             /\ client' = [client EXCEPT ![c].pc = "enqueue", ![c].execution = e]
    /\ UNCHANGED <<tenant, cache, jobs, admin, told, intended, excuse, left>>

MutantJobOfTenant(e) == 1
JobId(e)             == e

\* BullMQ ignores the addition of a job whose id it knows.
Add(e) == IF \E j \in jobs : j.id = JobId(e) THEN jobs
          ELSE jobs \cup {[id |-> JobId(e), execution |-> e]}

\* A failure of Redis is logged, and the response says 201 all the same.
Enqueue(c) ==
    /\ At(c, "enqueue")
    /\ LET e == client[c].execution IN
       /\ told' = told \cup {[key |-> client[c].key, execution |-> e]}
       /\ \/ jobs' = Add(e) /\ UNCHANGED <<excuse, left>>
          \/ /\ Fault /\ excuse' = [excuse EXCEPT !.lost = @ \cup {e}]
             /\ UNCHANGED jobs
    /\ Leave(c)
    /\ UNCHANGED <<tenant, cache, executions, keys, admin, intended>>

\* A statement of the database rejects, and the request fails.
StatementFails(c) ==
    /\ \/ \E p \in {"load", "find", "create"} : At(c, p)
       \/ At(c, "check") /\ ~client[c].seen.disabled /\ client[c].seen.max # 0
    /\ Fault /\ Leave(c)
    /\ UNCHANGED <<tenant, cache, executions, keys, jobs, admin, told, intended, excuse>>

---------------------------------------------------------------------------
(* The runs of an execution, one after the other or side by side *)

Move(e, from, to) ==
    /\ executions[e].status \in from
    /\ executions' = [executions EXCEPT ![e].status = to]
    /\ UNCHANGED <<tenant, cache, keys, jobs, client, admin, told, intended,
                   excuse, left>>

\* A run reads the status once, when its job begins, and refuses an execution
\* that has ended; what it writes after that it writes by the id alone.
WorkerStarts(e) == HasJob(e) /\ Move(e, {"CREATED", "WAITING", "CLOSING"}, "RUNNING")
Pauses(e)       == Move(e, {"RUNNING", "CLOSING"}, "WAITING")

\* A run completes or fails, or a cancellation is written, beside other runs or
\* as the last of them.
Ends(e) ==
    \/ HasJob(e) /\ Move(e, {"CREATED", "RUNNING", "WAITING"}, "CLOSING")
    \/ Move(e, {"CREATED", "RUNNING", "WAITING", "CLOSING"}, "ENDED")

---------------------------------------------------------------------------
(* updateMyTenant, disableTenant, enableTenant *)

\* disableTenant refuses to disable twice.
Refused(s, ch) == DOMAIN ch = {"disabled"} /\ ch.disabled /\ s.disabled

ChangeRead(a, ch) ==
    /\ admin[a].pc = "idle" /\ left.changes > 0 /\ ~Refused(tenant, ch)
    /\ admin' = [admin EXCEPT
          ![a] = [pc |-> "write", seen |-> tenant, aged |-> FALSE, change |-> ch]]
    /\ left' = [left EXCEPT !.changes = @ - 1]
    /\ UNCHANGED <<tenant, cache, executions, keys, jobs, client, told, intended, excuse>>

MutantOverDefaults(s, ch) ==
    [f \in DOMAIN DefaultSettings |->
        IF f \in DOMAIN ch THEN ch[f] ELSE DefaultSettings[f]]
Merged(s, ch) == [f \in DOMAIN s |-> IF f \in DOMAIN ch THEN ch[f] ELSE s[f]]

ChangeWrite(a) ==
    /\ admin[a].pc = "write"
    /\ tenant' = Merged(admin[a].seen, admin[a].change)
    /\ intended' = [f \in DOMAIN intended |->
          IF f \in DOMAIN admin[a].change THEN admin[a].change[f] ELSE intended[f]]
    /\ admin' = [b \in Admins |->
          IF b = a THEN [Calm EXCEPT !.pc = "invalidate"]
          ELSE [admin[b] EXCEPT !.aged = @ \/ admin[b].pc = "write"]]
    /\ client' = [c \in Clients |->
          [client[c] EXCEPT !.aged = @ \/ client[c].pc = "fill"]]
    /\ excuse' = [excuse EXCEPT !.change = @ \/ admin[a].aged,
                                !.over = Beyond(tenant'.max, Claimed)]
    /\ UNCHANGED <<cache, executions, keys, jobs, told, left>>

MutantNotDeleted(entry) == entry
MutantEmptied(entry)    == <<>>
Deleted(entry)          == NoSettings

\* A failure of Redis is ignored: the entry stays until it expires.
Invalidate(a) ==
    /\ admin[a].pc = "invalidate"
    /\ admin' = [admin EXCEPT ![a] = Calm]
    /\ \/ /\ cache' = Deleted(cache) /\ UNCHANGED left
          /\ excuse' = [excuse EXCEPT !.cache = FALSE]
       \/ /\ Fault /\ excuse' = [excuse EXCEPT !.cache = cache # NoSettings]
          /\ UNCHANGED cache
    /\ UNCHANGED <<tenant, executions, keys, jobs, client, told, intended>>

\* An API process dies, and with it the requests it was serving.
Crash ==
    /\ Fault
    /\ \E C \in SUBSET Busy, A \in SUBSET {a \in Admins : admin[a].pc # "idle"} :
          /\ C # {} \/ A # {}
          /\ client' = [c \in Clients |-> IF c \in C THEN Idle ELSE client[c]]
          /\ admin' = [a \in Admins |-> IF a \in A THEN Calm ELSE admin[a]]
          /\ excuse' = [excuse EXCEPT
                !.lost = @ \cup {client[c].execution : c \in {d \in C : At(d, "enqueue")}},
                !.cache = @ \/ /\ cache # NoSettings
                               /\ \E a \in A : admin[a].pc = "invalidate"]
    /\ UNCHANGED <<tenant, cache, executions, keys, jobs, told, intended>>

---------------------------------------------------------------------------
Proceed(c) == \/ CacheGet(c) \/ Load(c) \/ CacheSet(c) \/ CheckQuota(c)
              \/ FindKey(c) \/ Create(c) \/ Enqueue(c)

Next ==
    \/ \E c \in Clients : \/ \E k \in Keys \cup {NoKey} : Request(c, k)
                          \/ Proceed(c) \/ StatementFails(c)
    \/ \E e \in DOMAIN executions : WorkerStarts(e) \/ Pauses(e) \/ Ends(e)
    \/ \E a \in Admins : \/ \E ch \in Change : ChangeRead(a, ch)
                         \/ ChangeWrite(a) \/ Invalidate(a)
    \/ Expire \/ Crash

\* Requests proceed, and Redis drops entries whose time is over.  Nothing is
\* assumed of who asks, of the workers, or of what fails.
Fairness == /\ \A c \in Clients : WF_vars(Proceed(c))
            /\ \A a \in Admins : WF_vars(ChangeWrite(a) \/ Invalidate(a))
            /\ WF_vars(Expire)

Spec     == Init /\ [][Next]_vars
FairSpec == Spec /\ Fairness

---------------------------------------------------------------------------
(* Properties *)

TypeOK ==
    /\ tenant \in Settings /\ intended \in Settings
    /\ cache \in Settings \cup {NoSettings}
    /\ executions \in Seq(Execution)
    /\ keys \in [Keys -> 0..Len(executions)]
    /\ jobs \subseteq [id : 1..Len(executions), execution : 1..Len(executions)]
    /\ client \in [Clients ->
          [pc : {"idle", "lookup", "load", "fill", "check", "find", "create", "enqueue"},
           key : Keys \cup {NoKey}, seen : Settings \cup {NoSettings}, aged : BOOLEAN,
           execution : 0..Len(executions)]]
    /\ admin \in [Admins -> [pc : {"idle", "write", "invalidate"}, seen : Settings,
                             aged : BOOLEAN, change : Change]]
    /\ told \subseteq [key : Keys \cup {NoKey}, execution : 1..Len(executions)]
    /\ excuse \in [cache : BOOLEAN, over : Nat, change : BOOLEAN,
                   lost : SUBSET (1..Len(executions))]
    /\ left \in [executions : Nat, changes : Nat, faults : Nat]

\* However requests with one Idempotency-Key race, fail and are repeated, they
\* make one execution, and every 201 given to one of them tells of that one.
OneExecutionPerKey ==
    /\ \A d, e \in DOMAIN executions :
          executions[d].key = executions[e].key /\ executions[d].key # NoKey => d = e
    /\ \A s, t \in told : s.key = t.key /\ s.key # NoKey => s.execution = t.execution

\* An execution is left without a job only while its request is about to
\* enqueue it, or after that call failed or the process died before it.
NoneForgotten ==
    \A e \in DOMAIN executions :
        \/ \E j \in jobs : j.execution = e
        \/ \E c \in Clients : At(c, "enqueue") /\ client[c].execution = e
        \/ e \in excuse.lost

\* The cache disagrees with the row only between a change and the invalidation
\* that follows it, or when that failed, or when a request put back what it had
\* read before the change.
CacheFollows ==
    \/ cache \in {NoSettings, tenant}
    \/ \E a \in Admins : admin[a].pc = "invalidate"
    \/ excuse.cache

\* Changes that did not overlap are all in the row: none of them takes back
\* another one.
ChangesCompose == excuse.change \/ tenant = intended

\* No more executions run and wait than the limit in force allows, beyond what
\* the check could not see when it last let a request pass: the requests and
\* executions already admitted but not yet counted, or a limit changed since it
\* was read; and beyond what a change of the limit found.  Whatever the runs of an
\* execution write over each other, and over its cancellation, adds nothing.
QuotaKept == tenant.max # 0 => Running <= tenant.max + excuse.over

\* The changes come to an end here (Budgets bound them); from some time after it,
\* requests are judged by the settings in the row and nothing else: stale entries
\* are not put back for ever.
SettingsTakeHold ==
    <>[]\A c \in Clients : At(c, "check") => client[c].seen = tenant
=============================================================================
