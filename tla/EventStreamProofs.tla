-------------------------- MODULE EventStreamProofs --------------------------
(***************************************************************************)
(* Proofs about EventStream: the numbers of the log are its commit order,   *)
(* and what the client is given implements EventFeed.                       *)
(***************************************************************************)
EXTENDS EventStream, FiniteSetTheorems, WellFoundedInduction, TLAPS

\* A writer inserts a number that was free when it read, or taken since.
NextNumbers == \A w \in Writers : wpc[w] = "insert" => next[w] \in 1..(Len(log) + 1)

\* All that is on its way to the client is in the log.
Logged ==
    /\ \A w \in Writers : \A i \in DOMAIN outbox[w] :
          outbox[w][i].seq \in 1..Len(log)
    /\ \A i \in DOMAIN inbox : inbox[i].seq \in 1..Len(log)
    /\ \A e \in page : e.seq \in 1..Len(log) /\ e = log[e.seq]
    /\ \A i \in DOMAIN wire : wire[i] \in 1..Len(log)

\* The frames on the wire continue, in order, what the client received.
WireAscends ==
    /\ last <= high
    /\ \A i \in DOMAIN wire : last < wire[i] /\ wire[i] <= high
    /\ \A i, j \in DOMAIN wire : i < j => wire[i] < wire[j]

\* What a replay has still to write is beyond what it wrote.
ReplayAhead ==
    /\ conn \in {"fetch", "write"} => high <= cursor
    /\ conn = "write" => \A e \in page : high < e.seq /\ e.seq <= cursor

LastSeen == last = IF seen = <<>> THEN 0 ELSE seen[Len(seen)]

StreamInv == TypeOK /\ CommitOrder /\ NextNumbers /\ Logged /\ WireAscends
                /\ ReplayAhead /\ LastSeen

---------------------------------------------------------------------------
(* Extrema of sets of events.                                              *)

\* A set of naturals that is not empty has a least element.
LEMMA LeastNumber ==
    ASSUME NEW T, T \subseteq Nat, T # {}
    PROVE  \E n \in T : \A m \in T : n <= m
<1>1. PICK n \in T : \A m \in T : ~(<<m, n>> \in OpToRel(<, Nat))
  BY NatLessThanWellFounded, WFMin
<1>2. ASSUME NEW m \in T PROVE ~(m < n)
  <2>1. <<m, n>> \in Nat \X Nat /\ <<m, n>>[1] = m /\ <<m, n>>[2] = n
    OBVIOUS
  <2> QED
    BY <1>1, <2>1, Zenon DEF OpToRel
<1> QED
  BY <1>2

\* A set of events that is not empty has one with the lowest number.
LEMMA LowestEvent ==
    ASSUME NEW S, S \subseteq Event, S # {}
    PROVE  \E e \in S : \A f \in S : e.seq <= f.seq
<1> DEFINE T == {e.seq : e \in S}
<1>1. T \subseteq Nat /\ T # {}
  BY DEF Event
<1>2. PICK n \in T : \A m \in T : n <= m
  <2> HIDE DEF T
  <2> QED
    BY <1>1, LeastNumber
<1> QED
  BY <1>2

\* A bounded set of events that is not empty has one with the highest number.
LEMMA HighestEvent ==
    ASSUME NEW S, S \subseteq Event, S # {}, NEW b \in Nat,
           \A e \in S : e.seq <= b
    PROVE  Highest(S) \in S /\ \A f \in S : f.seq <= Highest(S).seq
<1> DEFINE T == {b - e.seq : e \in S}
<1>1. T \subseteq Nat /\ T # {}
  BY DEF Event
<1>2. PICK n \in T : \A m \in T : n <= m
  <2> HIDE DEF T
  <2> QED
    BY <1>1, LeastNumber
<1>3. PICK e \in S : n = b - e.seq
  BY <1>2
<1>4. ASSUME NEW f \in S PROVE f.seq <= e.seq
  <2>1. n <= b - f.seq
    BY <1>2
  <2> QED
    BY <1>3, <2>1 DEF Event
<1> QED
  BY <1>4 DEF Highest

\* A page takes at least one of the rows there are, and only of those.
LEMMA PageNotEmpty ==
    ASSUME NEW S, S \subseteq Event, S # {}, NEW n \in Nat \ {0}
    PROVE  Lowest(S, n) \subseteq S /\ Lowest(S, n) # {}
<1>1. PICK e \in S : \A f \in S : e.seq <= f.seq
  BY LowestEvent
<1>2. {f \in S : f.seq < e.seq} = {}
  BY <1>1 DEF Event
<1>3. e \in Lowest(S, n)
  BY <1>2, FS_EmptySet DEF Lowest
<1> QED
  BY <1>3 DEF Lowest

---------------------------------------------------------------------------
(* The log.                                                                *)

\* In a log numbered in commit order the rows are numbered by their places...
LEMMA NumbersAreIndices ==
    ASSUME log \in Seq(Event), CommitOrder
    PROVE  /\ Rows \subseteq Event
           /\ \A e \in Rows : e.seq \in 1..Len(log) /\ e = log[e.seq]
           /\ Numbers = 1..Len(log)
<1>1. \A i \in 1..Len(log) : log[i] \in Event /\ log[i].seq = i
  BY DEF CommitOrder
<1>2. Rows = {log[i] : i \in 1..Len(log)}
  BY DEF Rows
<1> QED
  BY <1>1, <1>2, Zenon DEF Numbers

\* ... and the highest of the numbers is how many there are.
LEMMA MaxIsLength ==
    ASSUME log \in Seq(Event), CommitOrder
    PROVE  MaxSequence = Len(log)
<1>1. CASE log = <<>>
  BY <1>1 DEF MaxSequence
<1>2. CASE log # <<>>
  <2>1. Len(log) \in Nat \ {0}
    BY <1>2
  <2>2. \E m \in 1..Len(log) : \A n \in 1..Len(log) : n <= m
    BY <2>1
  <2>3. Numbers = 1..Len(log)
    BY NumbersAreIndices
  <2> QED
    BY <1>2, <2>1, <2>2, <2>3 DEF MaxSequence
<1> QED
  BY <1>1, <1>2

---------------------------------------------------------------------------
(* The invariant.                                                          *)

LEMMA StreamInit == Init => StreamInv
<1> SUFFICES ASSUME Init PROVE StreamInv
  OBVIOUS
<1>1. TypeOK
  <2>1. outbox \in [Writers -> Seq(Event)] /\ log \in Seq(Event)
    BY DEF Init
  <2>2. inbox \in Seq(Event) /\ wire \in Seq(Nat) /\ seen \in Seq(Nat)
    BY DEF Init
  <2>3. wpc \in [Writers -> {"idle", "insert"}] /\ next \in [Writers -> Nat]
    BY DEF Init
  <2> QED
    BY <2>1, <2>2, <2>3 DEF Init, TypeOK
<1>2. CommitOrder /\ NextNumbers /\ LastSeen
  BY DEF Init, CommitOrder, NextNumbers, LastSeen
<1>3. Logged
  BY DEF Init, Logged
<1>4. WireAscends /\ ReplayAhead
  BY DEF Init, WireAscends, ReplayAhead
<1> QED
  BY <1>1, <1>2, <1>3, <1>4 DEF StreamInv

\* Appending: the unique key keeps the numbers in commit order.
LEMMA AppendKeeps ==
    ASSUME StreamInv, NEW w \in Writers, Appending(w)
    PROVE  StreamInv'
<1> USE DEF logVars, serverVars, clientVars
<1>1. CASE AppendRead(w)
  <2>1. next'[w] = Len(log) + 1 /\ next' \in [Writers -> Nat]
    BY <1>1, MaxIsLength DEF AppendRead, StreamInv, TypeOK
  <2> QED
    BY <1>1, <2>1
       DEF AppendRead, StreamInv, TypeOK, CommitOrder, NextNumbers, Logged,
           WireAscends, ReplayAhead, LastSeen
<1>2. CASE AppendInsert(w)
  <2>1. CASE Taken(next[w])
    BY <1>2, <2>1
       DEF AppendInsert, Taken, StreamInv, TypeOK, CommitOrder, NextNumbers,
           Logged, WireAscends, ReplayAhead, LastSeen
  <2>2. CASE ~Taken(next[w])
    <3>1. next[w] = Len(log) + 1
      BY <1>2, <2>2, NumbersAreIndices
         DEF AppendInsert, Taken, StreamInv, TypeOK, NextNumbers
    <3>2. PICK k \in {"step", "end"} :
             /\ log' = Append(log, [seq |-> Len(log) + 1, kind |-> k])
             /\ outbox' = [outbox EXCEPT ![w] =
                             Append(@, [seq |-> Len(log) + 1, kind |-> k])]
      BY <1>2, <2>2, <3>1 DEF AppendInsert
    <3> DEFINE e == [seq |-> Len(log) + 1, kind |-> k]
    <3>3. e \in Event /\ e.seq = Len(log) + 1
      BY DEF Event, StreamInv, TypeOK
    <3>4. log' = Append(log, e) /\ outbox' = [outbox EXCEPT ![w] = Append(@, e)]
      BY <3>2
    <3> HIDE DEF e
    <3>5. TypeOK' /\ CommitOrder' /\ Len(log') = Len(log) + 1
      BY <1>2, <3>3, <3>4 DEF AppendInsert, StreamInv, TypeOK, CommitOrder
    <3>6. NextNumbers'
      BY <1>2, <3>5 DEF AppendInsert, StreamInv, TypeOK, NextNumbers
    <3>7. Logged'
      <4>1. \A n \in 1..Len(log) : n \in 1..Len(log') /\ log'[n] = log[n]
        BY <3>3, <3>4, <3>5 DEF StreamInv, TypeOK
      <4>2. \A f \in page' : f.seq \in 1..Len(log') /\ f = log'[f.seq]
        BY <1>2, <4>1 DEF AppendInsert, StreamInv, Logged
      <4>3. ASSUME NEW v \in Writers, NEW i \in DOMAIN outbox'[v]
            PROVE  outbox'[v][i].seq \in 1..Len(log')
        <5>1. Len(log) \in Nat /\ outbox[v] \in Seq(Event) /\ outbox[w] \in Seq(Event)
          BY DEF StreamInv, TypeOK
        <5>2. CASE v # w
          BY <3>4, <4>1, <5>1, <5>2 DEF StreamInv, TypeOK, Logged
        <5>3. CASE v = w
          <6>1. outbox'[v] = Append(outbox[v], e)
            BY <3>4, <5>3 DEF StreamInv, TypeOK
          <6>2. i \in 1..Len(outbox[v]) \/ outbox'[v][i] = e
            BY <3>3, <5>1, <6>1
          <6>3. CASE i \in 1..Len(outbox[v])
            BY <3>3, <4>1, <5>1, <6>1, <6>3 DEF StreamInv, Logged
          <6> QED
            BY <3>3, <3>5, <5>1, <6>2, <6>3
        <5> QED
          BY <5>2, <5>3
      <4> QED
        BY <1>2, <4>1, <4>2, <4>3 DEF AppendInsert, StreamInv, Logged
    <3> QED
      BY <1>2, <3>5, <3>6, <3>7
         DEF AppendInsert, StreamInv, WireAscends, ReplayAhead, LastSeen
  <2> QED
    BY <2>1, <2>2
<1>3. CASE Publish(w)
  <2>1. TypeOK'
    BY <1>3 DEF Publish, StreamInv, TypeOK
  <2>2. ASSUME NEW v \in Writers, NEW i \in DOMAIN outbox'[v]
        PROVE  outbox'[v][i].seq \in 1..Len(log)
    BY <1>3 DEF Publish, StreamInv, TypeOK, Logged
  <2>3. Head(outbox[w]).seq \in 1..Len(log)
    BY <1>3 DEF Publish, StreamInv, TypeOK, Logged
  <2>4. \A i \in DOMAIN inbox' : inbox'[i].seq \in 1..Len(log)
    BY <1>3, <2>3 DEF Publish, StreamInv, TypeOK, Logged
  <2>5. Logged'
    BY <1>3, <2>2, <2>4 DEF Publish, StreamInv, Logged
  <2> QED
    BY <1>3, <2>1, <2>5
       DEF Publish, StreamInv, CommitOrder, NextNumbers, WireAscends,
           ReplayAhead, LastSeen
<1>4. CASE PublishFails(w)
  <2>1. TypeOK' /\ Logged'
    BY <1>4, StreamAssumption
       DEF PublishFails, Failure, StreamInv, TypeOK, Logged
  <2> QED
    BY <1>4, <2>1
       DEF PublishFails, StreamInv, CommitOrder, NextNumbers, WireAscends,
           ReplayAhead, LastSeen
<1> QED
  BY <1>1, <1>2, <1>3, <1>4 DEF Appending

\* The handler: what it writes is beyond its high-water mark, and raises it.
LEMMA HandlerKeeps ==
    ASSUME StreamInv, Handler
    PROVE  StreamInv'
<1> USE DEF logVars, serverVars, clientVars
<1>1. CASE Fetch
  <2>1. CASE Unread = {}
    <3>1. Lowest(Unread, PageSize) = {}
      BY <2>1 DEF Lowest
    <3> QED
      BY <1>1, <2>1, <3>1
         DEF Fetch, StreamInv, TypeOK, CommitOrder, NextNumbers, Logged,
             WireAscends, ReplayAhead, LastSeen
  <2>2. CASE Unread # {}
    <3> DEFINE P == Lowest(Unread, PageSize)
    <3>1. Unread \subseteq Event /\ \A e \in Unread : e.seq \in 1..Len(log) /\ e = log[e.seq]
      BY NumbersAreIndices DEF Unread, StreamInv, TypeOK
    <3>2. P \subseteq Unread /\ P # {}
      BY <2>2, <3>1, PageNotEmpty, StreamAssumption
    <3>3. Highest(P) \in P /\ \A f \in P : f.seq <= Highest(P).seq
      <4>1. P \subseteq Event /\ Len(log) \in Nat /\ \A e \in P : e.seq <= Len(log)
        BY <3>1, <3>2 DEF StreamInv, TypeOK
      <4> HIDE DEF P
      <4> QED
        BY <4>1, <3>2, HighestEvent
    <3>4. page' = P /\ cursor' = Highest(P).seq
      BY <1>1, <2>2 DEF Fetch, NextCursor
    <3>5. \A e \in P : /\ e \in Event /\ cursor < e.seq
                        /\ e.seq \in 1..Len(log) /\ e = log[e.seq]
      BY <3>1, <3>2 DEF Unread
    <3> HIDE DEF P
    <3>6. TypeOK' /\ Logged'
      BY <1>1, <3>3, <3>4, <3>5 DEF Fetch, StreamInv, TypeOK, Logged, Event
    <3>7. ReplayAhead'
      BY <1>1, <3>3, <3>4, <3>5 DEF Fetch, StreamInv, TypeOK, ReplayAhead, Event
    <3> QED
      BY <1>1, <3>6, <3>7
         DEF Fetch, StreamInv, CommitOrder, NextNumbers, WireAscends, LastSeen
  <2> QED
    BY <2>1, <2>2
<1>2. ASSUME NEW e \in page, Replay(e) PROVE StreamInv'
  <2>1. /\ e \in Event /\ e.seq \in Nat /\ e.seq \in 1..Len(log)
        /\ high < e.seq /\ e.seq <= cursor
    BY <1>2 DEF Replay, StreamInv, TypeOK, Logged, ReplayAhead
  <2>2. high' = e.seq
    BY <1>2, <2>1 DEF Replay, StreamInv, TypeOK
  <2> DEFINE n == e.seq
  <2>3. n \in Nat /\ n \in 1..Len(log) /\ high < n /\ wire' = Append(wire, n)
        /\ high' = n
    BY <1>2, <2>1, <2>2 DEF Replay
  <2> HIDE DEF n
  <2>4. TypeOK'
    BY <1>2, <2>3 DEF Replay, StreamInv, TypeOK
  <2>5. Logged'
    BY <1>2, <2>3 DEF Replay, StreamInv, TypeOK, Logged
  <2>6. WireAscends'
    BY <1>2, <2>3 DEF Replay, StreamInv, TypeOK, WireAscends
  <2>7. ReplayAhead'
    <3>1. ASSUME NEW f \in page' PROVE e.seq <= f.seq /\ f # e /\ f.seq <= cursor
      BY <1>2, <3>1 DEF Replay, StreamInv, ReplayAhead
    <3>2. ASSUME NEW f \in page' PROVE f.seq \in Nat /\ f.seq # e.seq
      BY <1>2, <2>1, <3>1 DEF Replay, StreamInv, Logged
    <3> QED
      BY <1>2, <2>1, <2>2, <3>1, <3>2 DEF Replay, StreamInv, TypeOK, ReplayAhead
  <2> QED
    BY <1>2, <2>4, <2>5, <2>6, <2>7
       DEF Replay, StreamInv, CommitOrder, NextNumbers, LastSeen
<1>3. CASE PageDone \/ Subscribe
  BY <1>3
     DEF PageDone, Subscribe, StreamInv, TypeOK, CommitOrder, NextNumbers,
         Logged, WireAscends, ReplayAhead, LastSeen
<1>4. CASE Forward
  <2> DEFINE n == Head(inbox).seq
  <2>1. n \in Nat /\ n \in 1..Len(log)
    BY <1>4 DEF Forward, StreamInv, TypeOK, Logged
  <2>2. inbox' \in Seq(Event) /\ \A i \in DOMAIN inbox' : inbox'[i].seq \in 1..Len(log)
    BY <1>4 DEF Forward, StreamInv, TypeOK, Logged
  <2>3. CASE n > high
    <3>1. /\ high < n /\ wire' = Append(wire, n) /\ high' = n
          /\ conn' \in {"ended", "live"} /\ UNCHANGED <<log, outbox, page, last>>
      BY <1>4, <2>3 DEF Forward, IsNew, StreamInv, TypeOK
    <3> HIDE DEF n
    <3>2. TypeOK'
      BY <1>4, <2>1, <2>2, <3>1 DEF Forward, StreamInv, TypeOK
    <3>3. Logged'
      <4>1. \A i \in DOMAIN wire' : wire'[i] \in 1..Len(log)
        <5>1. wire \in Seq(Nat) /\ \A i \in 1..Len(wire) : wire[i] \in 1..Len(log)
          BY DEF StreamInv, TypeOK, Logged
        <5>2. wire' = Append(wire, n)
          BY <3>1
        <5> QED
          BY <2>1, <5>1, <5>2
      <4> QED
        BY <2>2, <3>1, <4>1 DEF StreamInv, Logged
    <3>4. WireAscends'
      BY <2>1, <3>1 DEF StreamInv, TypeOK, WireAscends
    <3> QED
      BY <1>4, <3>1, <3>2, <3>3, <3>4
         DEF Forward, StreamInv, CommitOrder, NextNumbers, ReplayAhead, LastSeen
  <2>4. CASE ~(n > high)
    <3>1. UNCHANGED <<high, wire, conn>>
      BY <1>4, <2>4 DEF Forward, IsNew
    <3> QED
      BY <1>4, <2>2, <3>1
         DEF Forward, StreamInv, TypeOK, CommitOrder, NextNumbers, Logged,
             WireAscends, ReplayAhead, LastSeen
  <2> QED
    BY <2>3, <2>4
<1> QED
  BY <1>1, <1>2, <1>3, <1>4 DEF Handler

\* The client takes the frames in their order; a broken connection loses some.
LEMMA ClientKeeps ==
    ASSUME StreamInv, Client \/ StreamFails
    PROVE  StreamInv'
<1> USE StreamAssumption DEF logVars, serverVars, clientVars
<1>1. CASE Connect
  <2>1. TypeOK'
    <3>1. inbox' \in Seq(Event) /\ wire' \in Seq(Nat) /\ page' \subseteq Event
      BY <1>1 DEF Connect
    <3>2. after' \in Nat /\ cursor' \in Nat /\ high' \in Nat /\ connects' \in Nat
      BY <1>1 DEF Connect, StreamInv, TypeOK
    <3>3. log' = log /\ wpc' = wpc /\ next' = next /\ outbox' = outbox
      BY <1>1 DEF Connect
    <3> QED
      BY <1>1, <3>1, <3>2, <3>3 DEF Connect, StreamInv, TypeOK
  <2>2. Logged' /\ WireAscends' /\ ReplayAhead'
    BY <1>1 DEF Connect, StreamInv, TypeOK, Logged, WireAscends, ReplayAhead
  <2> QED
    BY <1>1, <2>1, <2>2 DEF Connect, StreamInv, CommitOrder, NextNumbers, LastSeen
<1>2. CASE Receive
  <2>1. Head(wire) \in Nat /\ Tail(wire) \in Seq(Nat)
    BY <1>2 DEF Receive, StreamInv, TypeOK
  <2>2. TypeOK'
    BY <1>2, <2>1 DEF Receive, StreamInv, TypeOK
  <2>3. LastSeen'
    <3>1. seen \in Seq(Nat) /\ seen' = Append(seen, Head(wire)) /\ last' = Head(wire)
      BY <1>2 DEF Receive, StreamInv, TypeOK
    <3>2. seen' # <<>> /\ seen'[Len(seen')] = Head(wire)
      BY <2>1, <3>1
    <3> QED
      BY <3>1, <3>2 DEF LastSeen
  <2>4. \A i \in DOMAIN wire' : i + 1 \in DOMAIN wire /\ wire'[i] = wire[i + 1]
    BY <1>2 DEF Receive, StreamInv, TypeOK
  <2>5. 1 \in DOMAIN wire /\ last' = wire[1]
    BY <1>2 DEF Receive, StreamInv, TypeOK
  <2>6. Logged'
    BY <1>2, <2>4 DEF Receive, StreamInv, Logged
  <2>7. WireAscends'
    <3>1. last < wire[1] /\ wire[1] <= high
      BY <2>5 DEF StreamInv, WireAscends
    <3>2. ASSUME NEW i \in DOMAIN wire'
          PROVE  wire[1] < wire'[i] /\ wire'[i] <= high
      <4>1. 1 < i + 1
        BY <1>2, <2>1 DEF Receive
      <4> QED
        BY <2>4, <2>5, <4>1 DEF StreamInv, WireAscends
    <3>3. ASSUME NEW i \in DOMAIN wire', NEW j \in DOMAIN wire', i < j
          PROVE  wire'[i] < wire'[j]
      <4>1. i + 1 < j + 1
        BY <1>2, <2>1, <3>3 DEF Receive
      <4> QED
        BY <2>4, <4>1 DEF StreamInv, WireAscends
    <3> QED
      BY <1>2, <2>5, <3>1, <3>2, <3>3 DEF Receive, WireAscends
  <2> QED
    BY <1>2, <2>6, <2>7, <2>2, <2>3
       DEF Receive, StreamInv, CommitOrder, NextNumbers, ReplayAhead
<1>3. CASE Closed
  BY <1>3
     DEF Closed, StreamInv, TypeOK, CommitOrder, NextNumbers, Logged,
         WireAscends, ReplayAhead, LastSeen
<1>4. CASE Disconnect
  BY <1>4
     DEF Disconnect, Breaks, Failure, StreamInv, TypeOK, CommitOrder,
         NextNumbers, Logged, WireAscends, ReplayAhead, LastSeen
<1>5. CASE StreamFails
  BY <1>5
     DEF StreamFails, Failure, StreamInv, TypeOK, CommitOrder, NextNumbers,
         Logged, WireAscends, ReplayAhead, LastSeen
<1> QED
  BY <1>1, <1>2, <1>3, <1>4, <1>5 DEF Client

\* A process that dies takes its unpublished events along, not the log's.
LEMMA DeathKeeps ==
    ASSUME StreamInv, NEW w \in Writers, ProcessDies(w)
    PROVE  StreamInv'
<1> USE StreamAssumption DEF logVars, serverVars, clientVars
<1>1. TypeOK'
  <2>1. /\ wpc' \in [Writers -> {"idle", "insert"}]
        /\ outbox' \in [Writers -> Seq(Event)]
    BY DEF ProcessDies, StreamInv, TypeOK
  <2>2. /\ conn' \in {"none", "fetch", "write", "subscribe", "live", "ended"}
        /\ wire' \in Seq(Nat) /\ failures' \in Nat
    <3>1. conn' \in {conn, "none"} /\ wire' \in {wire, <<>>} /\ failures' = failures + 1
      BY DEF ProcessDies, Breaks, Failure
    <3>2. <<>> \in Seq(Nat)
      OBVIOUS
    <3>3. failures' \in Nat
      BY <3>1 DEF StreamInv, TypeOK
    <3>4. wire' \in Seq(Nat)
      BY <3>1, <3>2 DEF StreamInv, TypeOK
    <3> QED
      BY <3>1, <3>3, <3>4 DEF StreamInv, TypeOK
  <2> QED
    BY <2>1, <2>2 DEF ProcessDies, StreamInv, TypeOK
<1>2. NextNumbers'
  BY DEF ProcessDies, StreamInv, TypeOK, NextNumbers
<1>3. Logged'
  BY DEF ProcessDies, Breaks, StreamInv, TypeOK, Logged
<1>4. WireAscends' /\ ReplayAhead'
  BY DEF ProcessDies, Breaks, StreamInv, TypeOK, WireAscends, ReplayAhead
<1> QED
  BY <1>1, <1>3, <1>4, <1>2 DEF ProcessDies, StreamInv, CommitOrder, LastSeen

LEMMA StreamStep == StreamInv /\ [Next]_vars => StreamInv'
<1> SUFFICES ASSUME StreamInv, [Next]_vars PROVE StreamInv'
  OBVIOUS
<1>1. CASE UNCHANGED vars
  BY <1>1
     DEF vars, logVars, serverVars, clientVars, StreamInv, TypeOK, CommitOrder,
         NextNumbers, Logged, WireAscends, ReplayAhead, LastSeen
<1> QED
  BY <1>1, AppendKeeps, HandlerKeeps, ClientKeeps, DeathKeeps DEF Next

\* Everything that is ever stored is numbered by its place in the order of the
\* commits: appendEvent's read of the maximum and its insert race, and the
\* unique key decides (CommitOrder).
THEOREM CommitOrderCorrect == Spec => [](TypeOK /\ CommitOrder)
<1>1. StreamInv => TypeOK /\ CommitOrder
  BY DEF StreamInv
<1> QED
  BY <1>1, StreamInit, StreamStep, PTL DEF Spec

\* The log, the connections and the readers have their types.
THEOREM StreamTypes == Spec => []TypeOK
BY CommitOrderCorrect, PTL

---------------------------------------------------------------------------
(* Refinement: the insert of an event stores it, the receipt of its frame    *)
(* tells it; nothing else grows the log or the client's history.             *)

LEMMA FeedInit == Init => Feed!Init
BY DEF Init, Feed!Init

LEMMA FeedStep == StreamInv /\ [Next]_vars => [Feed!Next]_<<Len(log), seen>>
<1> SUFFICES ASSUME StreamInv, [Next]_vars
             PROVE  Feed!Next \/ (Len(log') = Len(log) /\ seen' = seen)
  OBVIOUS
<1> USE DEF logVars, serverVars, clientVars
<1>1. ASSUME NEW w \in Writers, AppendInsert(w)
      PROVE  Feed!Next \/ (Len(log') = Len(log) /\ seen' = seen)
  <2>1. CASE Taken(next[w])
    BY <1>1, <2>1 DEF AppendInsert
  <2>2. CASE ~Taken(next[w])
    <3>1. Len(log') = Len(log) + 1
      BY <1>1, <2>2 DEF AppendInsert, StreamInv, TypeOK
    <3>2. Feed!Store
      BY <1>1, <3>1 DEF AppendInsert, Feed!Store
    <3> QED
      BY <3>2 DEF Feed!Next
  <2> QED
    BY <2>1, <2>2
<1>2. ASSUME NEW w \in Writers,
             AppendRead(w) \/ Publish(w) \/ PublishFails(w) \/ ProcessDies(w)
      PROVE  Len(log') = Len(log) /\ seen' = seen
  BY <1>2 DEF AppendRead, Publish, PublishFails, ProcessDies
<1>3. CASE Handler \/ StreamFails
  BY <1>3 DEF Handler, Fetch, Replay, PageDone, Subscribe, Forward, StreamFails
<1>4. CASE Connect \/ Closed \/ Disconnect
  BY <1>4 DEF Connect, Closed, Disconnect
<1>5. CASE Receive
  <2> DEFINE n == Head(wire)
  <2>1. n \in 1..Len(log) /\ last < n
    <3>1. 1 \in DOMAIN wire /\ n = wire[1]
      BY <1>5 DEF Receive, StreamInv, TypeOK
    <3> QED
      BY <3>1 DEF StreamInv, Logged, WireAscends
  <2>2. Feed!Latest = last
    BY DEF Feed!Latest, StreamInv, LastSeen
  <2>3. Feed!Tell(n)
    BY <1>5, <2>1, <2>2 DEF Receive, Feed!Tell
  <2> QED
    BY <2>1, <2>3 DEF Feed!Next
<1>6. CASE UNCHANGED vars
  BY <1>6 DEF vars
<1> QED
  BY <1>1, <1>2, <1>3, <1>4, <1>5, <1>6 DEF Next, Appending, Client

\* What a client is given, over all its connections, implements EventFeed:
\* stored events only, each at most once, in the order of their commits
\* (GivenInOrder), whatever is replayed, published late or lost on the way.
THEOREM FeedCorrect == Spec => GivenInOrder
BY FeedInit, FeedStep, StreamInit, StreamStep, PTL
   DEF Spec, GivenInOrder, Feed!Spec

---------------------------------------------------------------------------
(* The replay leaves nothing out: a page is the part of the log that follows *)
(* the cursor, and its rows are written one number after the other.          *)

Contiguous ==
    /\ conn = "fetch" => high = cursor
    /\ conn = "write" => \A n \in (high + 1)..cursor : \E e \in page : e.seq = n

ReplayInv == StreamInv /\ Contiguous /\ ReplayHasNoGaps

\* With a row, a page has every unread row below it.
LEMMA PageIsPrefix ==
    ASSUME NEW S, IsFiniteSet(S), S \subseteq Event, NEW n \in Nat,
           NEW e \in Lowest(S, n), NEW f \in S, f.seq <= e.seq
    PROVE  f \in Lowest(S, n)
<1> DEFINE Below(x) == {g \in S : g.seq < x.seq}
<1>1. Below(f) \subseteq Below(e) /\ Below(e) \subseteq S
  BY DEF Lowest, Event
<1>2. IsFiniteSet(Below(e))
  BY <1>1, FS_Subset
<1>3. /\ Cardinality(Below(f)) <= Cardinality(Below(e))
      /\ Cardinality(Below(f)) \in Nat /\ Cardinality(Below(e)) \in Nat
  BY <1>1, <1>2, FS_Subset, FS_CardinalityType
<1>4. Cardinality(Below(e)) < n
  BY DEF Lowest
<1>5. Cardinality(Below(f)) < n
  BY <1>3, <1>4
<1> QED
  BY <1>5 DEF Lowest

LEMMA RowsFinite ==
    ASSUME log \in Seq(Event)
    PROVE  IsFiniteSet(Rows)
<1>1. IsFiniteSet(1..Len(log))
  BY FS_Interval
<1>2. Rows = {log[i] : i \in 1..Len(log)}
  BY DEF Rows
<1> DEFINE f == [i \in 1..Len(log) |-> log[i]]
<1>3. f \in Surjection(1..Len(log), Rows)
  BY <1>2 DEF Surjection
<1> QED
  BY <1>1, <1>3, FS_Surjection

\* A page fetched at the high-water mark has all numbers up to its last one.
LEMMA FetchContiguous ==
    ASSUME StreamInv, Contiguous, Fetch
    PROVE  Contiguous'
<1> USE DEF serverVars
<1>1. conn = "fetch" /\ conn' = "write" /\ high' = high /\ high = cursor
  BY DEF Fetch, Contiguous
<1>2. CASE Unread = {}
  BY <1>1, <1>2 DEF Fetch, Contiguous, StreamInv, TypeOK
<1>3. CASE Unread # {}
  <2> DEFINE P == Lowest(Unread, PageSize)
  <2>1. /\ Unread \subseteq Event
        /\ \A e \in Unread : e.seq \in 1..Len(log)
    BY NumbersAreIndices DEF Unread, StreamInv, TypeOK
  <2>2. P \subseteq Unread /\ P # {}
    BY <1>3, <2>1, PageNotEmpty, StreamAssumption
  <2>3. Highest(P) \in P
    <3>1. P \subseteq Event /\ Len(log) \in Nat /\ \A e \in P : e.seq <= Len(log)
      BY <2>1, <2>2 DEF StreamInv, TypeOK
    <3> HIDE DEF P
    <3> QED
      BY <3>1, <2>2, HighestEvent
  <2>4. page' = P /\ cursor' = Highest(P).seq
    BY <1>3 DEF Fetch, NextCursor
  <2>5. IsFiniteSet(Unread)
    BY RowsFinite, FS_Subset DEF Unread, StreamInv, TypeOK
  <2>6. Highest(P).seq \in 1..Len(log)
    BY <2>1, <2>2, <2>3
  <2>7. ASSUME NEW n \in (cursor + 1)..Highest(P).seq
        PROVE  \E e \in P : e.seq = n
    <3>1. n \in 1..Len(log) /\ cursor < n
      BY <2>6 DEF StreamInv, TypeOK
    <3>2. log[n] \in Unread /\ log[n].seq = n
      BY <3>1 DEF Unread, Rows, StreamInv, CommitOrder
    <3>3. log[n] \in P
      BY <2>1, <2>3, <2>5, <3>2, PageIsPrefix, StreamAssumption
    <3> QED
      BY <3>2, <3>3
  <2> HIDE DEF P
  <2> QED
    BY <1>1, <2>4, <2>7 DEF Contiguous
<1> QED
  BY <1>2, <1>3

\* A row is written right after the high-water mark.
LEMMA ReplayIsNext ==
    ASSUME StreamInv, Contiguous, NEW e \in page, Replay(e)
    PROVE  e.seq = high + 1 /\ high' = high + 1
<1>1. /\ e.seq \in Nat /\ high \in Nat /\ cursor \in Nat
      /\ high < e.seq /\ e.seq <= cursor
  BY DEF Replay, StreamInv, TypeOK, ReplayAhead, Event
<1>2. PICK f \in page : f.seq = high + 1
  BY <1>1 DEF Replay, Contiguous
<1>3. e.seq <= f.seq
  BY DEF Replay
<1> QED
  BY <1>1, <1>2, <1>3 DEF Replay

LEMMA ReplayStep == ReplayInv /\ [Next]_vars => ReplayInv'
<1> SUFFICES ASSUME ReplayInv, [Next]_vars PROVE Contiguous' /\ ReplayHasNoGaps'
  BY StreamStep DEF ReplayInv
<1> USE DEF logVars, serverVars, clientVars, ReplayInv
<1>1. ASSUME NEW w \in Writers, Appending(w)
      PROVE  Contiguous' /\ ReplayHasNoGaps'
  BY <1>1 DEF Appending, AppendRead, AppendInsert, Publish, PublishFails,
              Contiguous, ReplayHasNoGaps
<1>2. ASSUME NEW w \in Writers, ProcessDies(w)
      PROVE  Contiguous' /\ ReplayHasNoGaps'
  BY <1>2 DEF ProcessDies, Breaks, Contiguous, ReplayHasNoGaps
<1>3. CASE Fetch
  BY <1>3, FetchContiguous DEF Fetch, ReplayHasNoGaps
<1>4. ASSUME NEW e \in page, Replay(e)
      PROVE  Contiguous' /\ ReplayHasNoGaps'
  <2>1. e.seq = high + 1 /\ high' = high + 1 /\ high \in Nat /\ after \in Nat
    BY <1>4, ReplayIsNext DEF StreamInv, TypeOK
  <2>2. Contiguous'
    <3>1. ASSUME NEW n \in (high' + 1)..cursor PROVE \E f \in page' : f.seq = n
      <4>1. n \in (high + 1)..cursor /\ n # e.seq
        BY <2>1 DEF StreamInv, TypeOK
      <4>2. PICK f \in page : f.seq = n
        BY <1>4, <4>1 DEF Replay, Contiguous
      <4> QED
        BY <1>4, <4>1, <4>2 DEF Replay
    <3> QED
      BY <1>4, <3>1 DEF Replay, Contiguous
  <2>3. ASSUME NEW n \in (after + 1)..(high + 1)
        PROVE  \/ \E i \in DOMAIN seen : seen[i] = n
               \/ \E i \in DOMAIN wire' : wire'[i] = n
    <3>1. wire \in Seq(Nat) /\ wire' = Append(wire, high + 1)
      BY <1>4, <2>1 DEF Replay, StreamInv, TypeOK
    <3>2. CASE n = high + 1
      BY <2>1, <3>1, <3>2
    <3>3. CASE n # high + 1
      <4>1. n \in (after + 1)..high
        BY <2>1, <3>3
      <4>2. \A i \in DOMAIN wire : i \in DOMAIN wire' /\ wire'[i] = wire[i]
        BY <2>1, <3>1
      <4> QED
        BY <1>4, <4>1, <4>2 DEF Replay, ReplayHasNoGaps
    <3> QED
      BY <3>2, <3>3
  <2> QED
    BY <1>4, <2>1, <2>2, <2>3 DEF Replay, ReplayHasNoGaps
<1>5. CASE PageDone
  <2>1. high = cursor
    <3>1. high \in Nat /\ cursor \in Nat /\ high <= cursor
      BY <1>5 DEF PageDone, StreamInv, TypeOK, ReplayAhead
    <3>2. ~(high + 1 \in (high + 1)..cursor)
      BY <1>5 DEF PageDone, Contiguous
    <3> QED
      BY <3>1, <3>2
  <2> QED
    BY <1>5, <2>1 DEF PageDone, Contiguous, ReplayHasNoGaps
<1>6. CASE Subscribe \/ Forward \/ StreamFails \/ Closed \/ Disconnect
  BY <1>6 DEF Subscribe, Forward, StreamFails, Closed, Disconnect, Breaks,
              Contiguous, ReplayHasNoGaps
<1>7. CASE Connect
  BY <1>7 DEF Connect, Contiguous, ReplayHasNoGaps, StreamInv, TypeOK
<1>8. CASE Receive
  <2>1. /\ wire \in Seq(Nat) /\ wire # <<>> /\ wire' = Tail(wire)
        /\ seen \in Seq(Nat) /\ seen' = Append(seen, wire[1])
    BY <1>8 DEF Receive, StreamInv, TypeOK
  <2>2. \A i \in DOMAIN seen : i \in DOMAIN seen' /\ seen'[i] = seen[i]
    BY <2>1
  <2>3. ASSUME NEW i \in DOMAIN wire
        PROVE  \/ \E j \in DOMAIN seen' : seen'[j] = wire[i]
               \/ \E j \in DOMAIN wire' : wire'[j] = wire[i]
    <3>1. CASE i = 1
      <4>1. Len(seen) + 1 \in DOMAIN seen' /\ seen'[Len(seen) + 1] = wire[1]
        BY <2>1
      <4> QED
        BY <3>1, <4>1
    <3>2. CASE i # 1
      <4>1. i - 1 \in DOMAIN wire' /\ wire'[i - 1] = wire[i]
        BY <2>1, <3>2
      <4> QED
        BY <4>1
    <3> QED
      BY <3>1, <3>2
  <2>4. Contiguous'
    BY <1>8 DEF Receive, Contiguous
  <2>5. conn' = conn /\ after' = after /\ high' = high
    BY <1>8 DEF Receive
  <2>6. ASSUME conn \in {"fetch", "write", "subscribe"}, NEW n \in (after + 1)..high
        PROVE  \/ \E i \in DOMAIN seen' : seen'[i] = n
               \/ \E i \in DOMAIN wire' : wire'[i] = n
    <3>1. \/ \E i \in DOMAIN seen : seen[i] = n
          \/ \E i \in DOMAIN wire : wire[i] = n
      BY <2>6 DEF ReplayHasNoGaps
    <3> HIDE DEF ReplayInv
    <3>2. CASE \E i \in DOMAIN seen : seen[i] = n
      BY <2>2, <3>2
    <3>3. CASE \E i \in DOMAIN wire : wire[i] = n
      BY <2>3, <3>3, Zenon
    <3> QED
      BY <3>1, <3>2, <3>3
  <2> QED
    BY <2>4, <2>5, <2>6 DEF ReplayHasNoGaps
<1>9. CASE UNCHANGED vars
  BY <1>9 DEF vars, Contiguous, ReplayHasNoGaps
<1> QED
  BY <1>1, <1>2, <1>3, <1>4, <1>5, <1>6, <1>7, <1>8, <1>9
     DEF Next, Handler, Client

\* Until it goes live a connection has been sent everything from the client's
\* Last-Event-ID to its high-water mark (ReplayHasNoGaps), whatever the size of
\* the pages and however the log grows between their fetches.
THEOREM ReplayCorrect == Spec => []ReplayHasNoGaps
<1>1. Init => ReplayInv
  BY StreamInit DEF Init, ReplayInv, Contiguous, ReplayHasNoGaps
<1>2. ReplayInv => ReplayHasNoGaps
  BY DEF ReplayInv
<1> QED
  BY <1>1, <1>2, ReplayStep, PTL DEF Spec
=============================================================================
