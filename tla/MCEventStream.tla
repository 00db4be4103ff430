---------------------------- MODULE MCEventStream ----------------------------
(* EventStream with two RPCs at a time; only the client of one is patient. *)
EXTENDS EventStream

CONSTANTS c1, c2

MCCall == {c1, c2}
MCPatient == {c1}
=============================================================================
