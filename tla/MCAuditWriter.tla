--------------------------- MODULE MCAuditWriter ---------------------------
(* Small numbers of gateway processes for TLC.                             *)
EXTENDS AuditWriter
=============================================================================
