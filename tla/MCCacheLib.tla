----------------------------- MODULE MCCacheLib -----------------------------
(***************************************************************************)
(* CacheLib for TLC: keys and addresses are only compared, so permuting    *)
(* them is sound for safety; the values given to the constants satisfy     *)
(* what the theorems of CacheLibProofs suppose of them.                    *)
(***************************************************************************)
EXTENDS CacheLib

ASSUME OrdinaryUseAssumption == OrdinaryUse

Symmetry == Permutations(Keys) \union Permutations(Buffers)
=============================================================================
