---------------------------- MODULE MCSecretStore ----------------------------
(* SecretStore with an engine of two threads, and one of a single thread. *)
EXTENDS SecretStore, TLC

CONSTANTS e1, e2, t1, t2, t3, n1, n2

MCEngine == {e1, e2}
MCThread == {t1, t2, t3}
MChome == [t \in MCThread |-> IF t = t3 THEN e2 ELSE e1]
MCName == {n1, n2}

(* The names are interchangeable, and the threads of one engine. *)
Symmetries == Permutations(MCName) \cup Permutations({t1, t2})
=============================================================================
