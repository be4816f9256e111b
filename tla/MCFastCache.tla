---------------------------- MODULE MCFastCache -----------------------------
(* FastCache for TLC.  No reader and no value differs from another.        *)
EXTENDS FastCache, TLC

Symmetry == Permutations(Readers) \cup Permutations(Values)
=============================================================================
