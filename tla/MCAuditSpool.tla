---------------------------- MODULE MCAuditSpool ----------------------------
(* AuditSpool with a queue and batches of two events, and two starts.         *)
EXTENDS AuditSpool
=============================================================================
