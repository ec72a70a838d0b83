---------------------------- MODULE MCEventStream ----------------------------
(* TLC instances of EventStream. *)
EXTENDS EventStream

CONSTANTS api, worker
=============================================================================
