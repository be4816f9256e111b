----------------------------- MODULE OrderedMap -----------------------------
(***************************************************************************)
(* What the tree promises to its users: a map from keys to values whose    *)
(* keys are totally ordered, so that every key has an index and every      *)
(* index a key.                                                            *)
(***************************************************************************)
EXTENDS Integers, FiniteSets

CONSTANTS
  Keys,     \* byte strings, as integers in the same order
  Values    \* values that can be stored

VARIABLES
  kv,       \* the map: a function whose domain is the set of present keys
  call,     \* the last call
  answer    \* what it returned

vars == <<kv, call, answer>>

(* The entry of k becomes v, whether or not k was present; the answer      *)
(* tells which.                                                            *)
Put(k, v) ==
  /\ call' = <<"set", k, v>>
  /\ kv' = [x \in DOMAIN kv \cup {k} |-> IF x = k THEN v ELSE kv[x]]
  /\ answer' = <<k \in DOMAIN kv>>

(* The entry of k goes away; the answer is its value, if there was one.    *)
Drop(k) ==
  /\ call' = <<"remove", k>>
  /\ kv' = [x \in DOMAIN kv \ {k} |-> kv[x]]
  /\ answer' = <<IF k \in DOMAIN kv THEN <<kv[k]>> ELSE <<>>, k \in DOMAIN kv>>

(* A tree that is loaded may hold any map.                                 *)
Init == kv \in [DOMAIN kv -> Values] /\ DOMAIN kv \subseteq Keys /\ call = <<>> /\ answer = <<>>

Next == \E k \in Keys : Drop(k) \/ \E v \in Values : Put(k, v)

Spec == Init /\ [][Next]_vars

(* The number of keys of m below k: the index k has, or would have.        *)
Rank(m, k) == Cardinality({x \in DOMAIN m : x < k})
=============================================================================
