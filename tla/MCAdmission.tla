---------------------------- MODULE MCAdmission ----------------------------
(* TLC instances of Admission. *)
EXTENDS Admission

CONSTANTS c1, c2, a1, a2, k1

Budget(e, c, f) == [executions |-> e, changes |-> c, faults |-> f]
Mixes == {Budget(1, 2, 0), Budget(1, 1, 1), Budget(2, 0, 1), Budget(2, 1, 0)}
=============================================================================
