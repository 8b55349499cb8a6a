--------------------------- MODULE MCAuditStream ---------------------------
(* Small ledgers: the constants come from the configurations. *)
EXTENDS AuditStream
=============================================================================
