----------------------------- MODULE MCSessions -----------------------------
(* TLC instances of Sessions. *)
EXTENDS Sessions, TLC

CONSTANTS c1, c2, m1

Interchangeable == Permutations(Clients)
=============================================================================
