--------------------------- MODULE MCSqliteStore ---------------------------
(***************************************************************************)
(* TLC instances of SqliteStore: two savers (a handler and the purge) and  *)
(* a readiness probe on one connection, and two rows, so that a map can be *)
(* half inserted.                                                          *)
(***************************************************************************)
EXTENDS SqliteStore, TLC

CONSTANTS s1, s2, l1, r1, r2

SaversAndRows == Permutations({s1, s2}) \cup Permutations({r1, r2})
=============================================================================
