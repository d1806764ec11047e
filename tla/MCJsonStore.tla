---------------------------- MODULE MCJsonStore ----------------------------
(***************************************************************************)
(* TLC instances of JsonStore: three token maps, one of them empty, so     *)
(* that two different Saves can be pending on the disk; two probes.        *)
(***************************************************************************)
EXTENDS JsonStore, TLC

CONSTANTS m1, m2, l1, l2

MapsAndLoaders == Permutations({m1, m2}) \cup Permutations({l1, l2})
=============================================================================
