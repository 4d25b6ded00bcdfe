---------------------------- MODULE MCAuditStore ----------------------------
(* Small instances of AuditStore. *)
EXTENDS AuditStore, TLC

Handlers == Permutations(Clients)
=============================================================================
