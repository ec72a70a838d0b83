----------------------------- MODULE EventFeed -----------------------------
(***************************************************************************)
(* What a client of an execution's event stream is promised at the least:   *)
(* events are numbered 1, 2, 3... as they are stored, and the client is     *)
(* told of stored events only, of each at most once, in their order, across *)
(* all its connections.                                                     *)
(***************************************************************************)
EXTENDS Naturals, Sequences

VARIABLES stored,  \* how many events the log holds
          told     \* the sequence numbers the client was given

Latest == IF told = <<>> THEN 0 ELSE told[Len(told)]

Init == stored = 0 /\ told = <<>>

Store == stored' = stored + 1 /\ UNCHANGED told

Tell(n) ==
    /\ Latest < n /\ n <= stored
    /\ told' = Append(told, n)
    /\ UNCHANGED stored

Next == Store \/ \E n \in 1..stored : Tell(n)

Spec == Init /\ [][Next]_<<stored, told>>
=============================================================================
