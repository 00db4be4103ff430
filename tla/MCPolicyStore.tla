--------------------------- MODULE MCPolicyStore ---------------------------
(* PolicyStore with two relays, on as many blocking threads. *)
EXTENDS PolicyStore

CONSTANTS t1, t2, r1, r2, k1, k2, k3

MCThread == {t1, t2}
MCRelay == {r1, r2}
MCToken == {k1, k2, k3}
=============================================================================
