--------------------------- MODULE MCAuditAnchor ---------------------------
(* AuditAnchor on two blocking threads and a handful of rows. *)
EXTENDS AuditAnchor

CONSTANTS t1, t2

MCThread == {t1, t2}
=============================================================================
