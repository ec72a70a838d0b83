---------------------------- MODULE EventStream ----------------------------
(***************************************************************************)
(* The event log of one execution and the SSE endpoint that streams it:     *)
(* processes append events and publish them on the execution's channel; a   *)
(* client connects, is replayed what it has not seen, is subscribed to the  *)
(* channel, and reconnects with the id of the last frame it received.       *)
(* Streams share nothing but the log and the channel, so one client is      *)
(* modelled.  Of an event's type only matters whether it is terminal.       *)
(***************************************************************************)
EXTENDS Integers, Sequences, FiniteSets

CONSTANTS Writers,      \* processes that append: API servers and workers
          Api,          \* the API server that also serves the stream
          PageSize,     \* events of a replay page (100 in the code)
          MaxEvents, MaxConnects, MaxFailures   \* bounds

ASSUME StreamAssumption ==
    /\ Api \in Writers
    /\ PageSize \in Nat \ {0}
    /\ {MaxEvents, MaxConnects, MaxFailures} \subseteq Nat

VARIABLES
    log,       \* the Event rows in the order of their commits
    wpc,       \* per writer: idle, or between its read and its insert
    next,      \* per writer: the number it will insert
    outbox,    \* per writer: events committed and not yet published
    conn,      \* where the handler of the connection is
    after,     \* its afterSequence, the client's Last-Event-ID
    cursor,    \* number of the last event of the page it fetched last
    page,      \* rows of that page it has not written yet
    more,      \* whether there was a further page
    high,      \* its highWaterMark
    inbox,     \* messages its subscription received
    wire,      \* ids of the frames written and not yet received
    last,      \* the id the client received last
    seen,      \* ids of all frames the client received
    connects, failures

logVars    == <<log, wpc, next>>
serverVars == <<conn, after, cursor, page, more, high, inbox, wire>>
clientVars == <<last, seen>>
vars == <<logVars, outbox, serverVars, clientVars, connects, failures>>

Event == [seq : Nat, kind : {"step", "end"}]
Rows  == {log[i] : i \in DOMAIN log}

Init ==
    /\ log = <<>>
    /\ wpc = [w \in Writers |-> "idle"] /\ next = [w \in Writers |-> 0]
    /\ outbox = [w \in Writers |-> <<>>]
    /\ conn = "none" /\ after = 0 /\ cursor = 0 /\ page = {} /\ more = FALSE
    /\ high = 0 /\ inbox = <<>> /\ wire = <<>>
    /\ last = 0 /\ seen = <<>>
    /\ connects = 0 /\ failures = 0

---------------------------------------------------------------------------
(* appendEvent *)

Numbers == {e.seq : e \in Rows}
MaxSequence ==
    IF log = <<>> THEN 0
    ELSE CHOOSE m \in Numbers : \A n \in Numbers : n <= m

AppendRead(w) ==
    /\ wpc[w] = "idle" /\ Len(log) < MaxEvents
    /\ next' = [next EXCEPT ![w] = MaxSequence + 1]
    /\ wpc' = [wpc EXCEPT ![w] = "insert"]
    /\ UNCHANGED <<log, outbox, serverVars, clientVars, connects, failures>>

MutantNoUniqueKey(n) == FALSE
Taken(n) == n \in Numbers

\* The insert commits, or the unique key refuses it and the append throws.
AppendInsert(w) ==
    /\ wpc[w] = "insert"
    /\ wpc' = [wpc EXCEPT ![w] = "idle"]
    /\ \/ /\ ~Taken(next[w])
          /\ \E k \in {"step", "end"} :
                LET e == [seq |-> next[w], kind |-> k] IN
                /\ log' = Append(log, e)
                /\ outbox' = [outbox EXCEPT ![w] = Append(@, e)]
       \/ Taken(next[w]) /\ UNCHANGED <<log, outbox>>
    /\ UNCHANGED <<next, serverVars, clientVars, connects, failures>>

Failure == failures < MaxFailures /\ failures' = failures + 1

\* The channel hands a message to whoever is subscribed at that moment.
Publish(w) ==
    /\ outbox[w] # <<>>
    /\ outbox' = [outbox EXCEPT ![w] = Tail(@)]
    /\ inbox' = IF conn = "live" THEN Append(inbox, Head(outbox[w])) ELSE inbox
    /\ UNCHANGED <<logVars, conn, after, cursor, page, more, high, wire,
                   clientVars, connects, failures>>

\* The rejection of a publish is dropped.
PublishFails(w) ==
    /\ Failure /\ outbox[w] # <<>>
    /\ outbox' = [outbox EXCEPT ![w] = Tail(@)]
    /\ UNCHANGED <<logVars, serverVars, clientVars, connects>>

---------------------------------------------------------------------------
(* GET /executions/:executionId/stream *)

MutantNeverTerminal(e) == FALSE
IsTerminal(e) == e.kind = "end"

Connect ==
    /\ conn = "none" /\ connects < MaxConnects
    /\ conn' = "fetch" /\ connects' = connects + 1
    /\ after' = last /\ cursor' = last /\ high' = last
    /\ page' = {} /\ more' = FALSE /\ inbox' = <<>> /\ wire' = <<>>
    /\ UNCHANGED <<logVars, outbox, clientVars, failures>>

Lowest(S, n) == {e \in S : Cardinality({f \in S : f.seq < e.seq}) < n}
Highest(S)   == CHOOSE e \in S : \A f \in S : f.seq <= e.seq
Unread       == {e \in Rows : e.seq > cursor}

MutantCursorBeforePage == Highest(Lowest(Unread, PageSize)).seq - (PageSize + 1)
MutantCursorOfExtra == Highest(Lowest(Unread, PageSize + 1)).seq
NextCursor == Highest(Lowest(Unread, PageSize)).seq

\* One more row than the page takes is fetched to know whether there is more.
Fetch ==
    /\ conn = "fetch"
    /\ conn' = "write"
    /\ page' = Lowest(Unread, PageSize)
    /\ more' = (Cardinality(Unread) > PageSize)
    /\ cursor' = IF Unread = {} THEN cursor ELSE NextCursor
    /\ UNCHANGED <<logVars, outbox, after, high, inbox, wire, clientVars,
                   connects, failures>>

\* Rows are written in their order; a terminal one ends the response.
Replay(e) ==
    /\ conn = "write" /\ e \in page
    /\ \A f \in page : e.seq <= f.seq
    /\ page' = page \ {e}
    /\ wire' = Append(wire, e.seq)
    /\ high' = IF e.seq > high THEN e.seq ELSE high
    /\ conn' = IF IsTerminal(e) THEN "ended" ELSE "write"
    /\ UNCHANGED <<logVars, outbox, after, cursor, more, inbox, clientVars,
                   connects, failures>>

PageDone ==
    /\ conn = "write" /\ page = {}
    /\ conn' = IF more THEN "fetch" ELSE "subscribe"
    /\ UNCHANGED <<logVars, outbox, after, cursor, page, more, high, inbox,
                   wire, clientVars, connects, failures>>

Subscribe ==
    /\ conn = "subscribe"
    /\ conn' = "live"
    /\ UNCHANGED <<logVars, outbox, after, cursor, page, more, high, inbox,
                   wire, clientVars, connects, failures>>

MutantForwardAll(e) == TRUE
IsNew(e) == e.seq > high

\* A live message is forwarded if it is beyond the high-water mark.
Forward ==
    /\ conn = "live" /\ inbox # <<>>
    /\ LET e == Head(inbox) IN
       \/ /\ IsNew(e)
          /\ high' = e.seq
          /\ wire' = Append(wire, e.seq)
          /\ conn' = IF IsTerminal(e) THEN "ended" ELSE "live"
       \/ ~IsNew(e) /\ UNCHANGED <<high, wire, conn>>
    /\ inbox' = Tail(inbox)
    /\ UNCHANGED <<logVars, outbox, after, cursor, page, more, clientVars,
                   connects, failures>>

\* A failed replay, or an error of the subscriber once the stream is live.
StreamFails ==
    /\ Failure /\ conn \in {"fetch", "live"}
    /\ conn' = "ended"
    /\ UNCHANGED <<logVars, outbox, after, cursor, page, more, high, inbox,
                   wire, clientVars, connects>>

---------------------------------------------------------------------------
(* The client *)

Receive ==
    /\ wire # <<>>
    /\ last' = Head(wire) /\ seen' = Append(seen, Head(wire))
    /\ wire' = Tail(wire)
    /\ UNCHANGED <<logVars, outbox, conn, after, cursor, page, more, high,
                   inbox, connects, failures>>

Closed ==
    /\ conn = "ended" /\ wire = <<>>
    /\ conn' = "none"
    /\ UNCHANGED <<logVars, outbox, after, cursor, page, more, high, inbox,
                   wire, clientVars, connects, failures>>

\* The connection breaks, and the frames on their way are lost.
Breaks == conn' = "none" /\ wire' = <<>>

Disconnect ==
    /\ Failure /\ conn # "none"
    /\ Breaks
    /\ UNCHANGED <<logVars, outbox, after, cursor, page, more, high, inbox,
                   clientVars, connects>>

\* A process dies: what it has not inserted or not published is lost, and the
\* stream with it if it is the API server.  An error of the subscriber before
\* the heartbeat exists kills it as well, as cleanup then throws.
ProcessDies(w) ==
    /\ Failure
    /\ wpc' = [wpc EXCEPT ![w] = "idle"]
    /\ outbox' = [outbox EXCEPT ![w] = <<>>]
    /\ IF w = Api /\ conn # "none" THEN Breaks ELSE UNCHANGED <<conn, wire>>
    /\ UNCHANGED <<log, next, after, cursor, page, more, high, inbox,
                   clientVars, connects>>

---------------------------------------------------------------------------
Appending(w) == AppendRead(w) \/ AppendInsert(w) \/ Publish(w) \/ PublishFails(w)

Handler == Fetch \/ (\E e \in page : Replay(e)) \/ PageDone \/ Subscribe \/ Forward

Client == Connect \/ Receive \/ Closed \/ Disconnect

Next ==
    \/ \E w \in Writers : Appending(w) \/ ProcessDies(w)
    \/ Handler \/ StreamFails \/ Client

Spec == Init /\ [][Next]_vars

\* The handler's awaits settle and what it writes arrives.  Nothing makes a
\* process append, or a client connect.
FairSpec == Spec /\ WF_vars(Handler) /\ WF_vars(Receive) /\ WF_vars(Closed)

---------------------------------------------------------------------------
(* Properties *)

TypeOK ==
    /\ log \in Seq(Event)
    /\ wpc \in [Writers -> {"idle", "insert"}] /\ next \in [Writers -> Nat]
    /\ outbox \in [Writers -> Seq(Event)]
    /\ conn \in {"none", "fetch", "write", "subscribe", "live", "ended"}
    /\ after \in Nat /\ cursor \in Nat /\ high \in Nat
    /\ page \subseteq Event /\ more \in BOOLEAN
    /\ inbox \in Seq(Event) /\ wire \in Seq(Nat)
    /\ last \in Nat /\ seen \in Seq(Nat)
    /\ connects \in Nat /\ failures \in Nat

\* Whatever writers race, the number of an event is its place in the order of
\* commits: no number is given twice, and none is visible before a lower one
\* (or a replay could miss it for good).
CommitOrder == \A i \in DOMAIN log : log[i].seq = i

\* Up to the moment it goes live, a connection has been sent everything between
\* the client's Last-Event-ID and its high-water mark, whatever the pages were
\* when they were fetched and however the log grew in between.
ReplayHasNoGaps ==
    conn \in {"fetch", "write", "subscribe"} =>
        \A n \in (after + 1)..high :
            \/ \E i \in DOMAIN seen : seen[i] = n
            \/ \E i \in DOMAIN wire : wire[i] = n

\* The client, over all its connections, is given stored events only, each at
\* most once and in order: no replay or live message, however late or out of
\* order, repeats what came before.
Feed == INSTANCE EventFeed WITH stored <- Len(log), told <- seen
GivenInOrder == Feed!Spec

\* A client that connects to an execution with a terminal event it has not
\* passed gets its stream closed, though others go on appending meanwhile.
EndedStreamsClose ==
    (conn = "fetch" /\ \E e \in Rows : e.kind = "end" /\ e.seq > cursor)
        ~> conn \in {"ended", "none"}

\* Reconnecting resumes without gaps: the ids a client receives are 1, 2, 3...
NoGaps == \A i \in DOMAIN seen : seen[i] = i
=============================================================================
