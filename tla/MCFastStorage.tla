--------------------------- MODULE MCFastStorage ----------------------------
(* FastStorage for TLC.                                                    *)
EXTENDS FastStorage, TLC

ValueSymmetry == Permutations(Values)
=============================================================================
