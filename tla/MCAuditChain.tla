---------------------------- MODULE MCAuditChain ----------------------------
(* An instance of Maintenance over AuditChain for TLC: two sessions of one *)
(* store, and the maintenance commands.                                    *)
EXTENDS Maintenance

CONSTANTS s1, s2
=============================================================================
