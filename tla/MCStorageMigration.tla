------------------------ MODULE MCStorageMigration ------------------------
(***************************************************************************)
(* TLC instance of StorageMigration: two tokens, so that one can be carried *)
(* over and one issued before, during or after that, or expire meanwhile.   *)
(***************************************************************************)
EXTENDS StorageMigration, TLC

AnyToken == Permutations(Tokens)
=============================================================================
