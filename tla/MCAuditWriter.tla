---------------------------- MODULE MCAuditWriter ----------------------------
(* A small instance of AuditWriter for TLC. *)
EXTENDS AuditWriter, TLC
=============================================================================
