----------------------------- MODULE MCAuditLog -----------------------------
(***************************************************************************)
(* TLC instance of AuditLog: three calls whose entries can be encoded, one *)
(* whose entry cannot, and one rotation among them.                        *)
(***************************************************************************)
EXTENDS AuditLog, TLC

CONSTANTS a1, a2, a3, b

AnyCall == Permutations({a1, a2, a3})
=============================================================================
