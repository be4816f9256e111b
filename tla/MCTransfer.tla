----------------------------- MODULE MCTransfer -----------------------------
(* Transfer of a version of five keys. *)
EXTENDS Transfer

NineNodes == <<0, 0, 1, 0, 0, 0, 1, 2, 3>>

=============================================================================
