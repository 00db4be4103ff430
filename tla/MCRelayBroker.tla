--------------------------- MODULE MCRelayBroker ---------------------------
(* RelayBroker on two blocking threads, one relay and a few bearers. *)
EXTENDS RelayBroker

CONSTANTS t1, t2, r1, k1, k2

MCThread == {t1, t2}
MCRelay == {r1}
MCToken == {k1, k2}
MCGiven == {k1}
=============================================================================
