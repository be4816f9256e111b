----------------------------- MODULE MCAVLTree ------------------------------
(***************************************************************************)
(* Every tree that Set and Remove can build over a few keys, beginning     *)
(* with one of some trees, compared with the map it stands for.            *)
(***************************************************************************)
EXTENDS AVLTree

CONSTANTS
  Keys,     \* the keys of the trees
  Values,   \* values that can be stored
  Starts    \* where to begin, each with the keys that are set first

VARIABLES
  root,
  call,     \* the last call
  answer,   \* what it returned
  pool      \* the keys and values that Set and Remove are called with

vars == <<root, call, answer, pool>>

Map == INSTANCE OrderedMap WITH kv <- Contents(root)

(* No key, and thirteen in an order that makes the highest tree they can:  *)
(* one removal from it may rotate at two levels.                           *)
EmptyAndSparse ==
  {[first |-> <<>>, keys |-> 1 .. 7, values |-> Values],
   [first |-> <<1, 9, 6, 12, 4, 8, 11, 13, 3, 5, 7, 10, 2>>, keys |-> {2, 4, 5, 8, 10, 12, 13}, values |-> {1}]}

RECURSIVE Inserted(_)
Inserted(ks) ==
  IF ks = <<>> THEN NilNode
  ELSE set(Inserted(SubSeq(ks, 1, Len(ks) - 1)), ks[Len(ks)], 1).node

Init ==
  \E s \in Starts :
    /\ root = Inserted(s.first) /\ call = <<>> /\ answer = <<>>
    /\ pool = [keys |-> s.keys, values |-> s.values]

Set(k, v) ==
  LET r == set(root, k, v)
  IN  root' = r.node /\ call' = <<"set", k, v>> /\ answer' = <<r.updated>> /\ UNCHANGED pool

Remove(k) ==
  LET r == remove(root, k)
  IN  root' = r.node /\ call' = <<"remove", k>> /\ answer' = <<r.value, r.removed>> /\ UNCHANGED pool

Next == \E k \in pool.keys : Remove(k) \/ \E v \in pool.values : Set(k, v)

Spec == Init /\ [][Next]_vars

(* A view: no step depends on the call before it.                          *)
Tree == <<root, pool>>

(* WellFormed: the tree is a balanced search tree.  Heights and sizes in   *)
(* the nodes are those of the subtrees, rotations keep every inner node    *)
(* within one level of balance, and the key of an inner node is the        *)
(* smallest under its right child and exceeds every key under its left     *)
(* child.  Node.has answers TRUE on meeting an inner node with the key.    *)
WellFormed ==
  \A n \in Nodes(root) :
    IF isLeaf(n) THEN n.key \in Keys /\ n.value \in Values /\ n.size = 1
    ELSE /\ n.height = MaxOf(n.left.height, n.right.height) + 1
         /\ n.size = Cardinality(Leaves(n))
         /\ calcBalance(n) \in -1 .. 1
         /\ \E l \in Leaves(n.right) : l.key = n.key
         /\ \A l \in Leaves(n.right) : l.key >= n.key
         /\ \A l \in Leaves(n.left) : l.key < n.key

(* LookupsAgree: has, get and getByIndex answer as the map does, also for  *)
(* absent keys and for indexes past the end.                               *)
LookupsAgree ==
  root # NilNode =>
    LET m == Contents(root)
    IN  /\ \A k \in Keys :
             /\ has(root, k) <=> k \in DOMAIN m
             /\ get(root, k).index = Map!Rank(m, k)
             /\ get(root, k).value = IF k \in DOMAIN m THEN <<m[k]>> ELSE <<>>
        /\ \A i \in 0 .. root.size :
             getByIndex(root, i) =
               IF i = root.size THEN <<>>
               ELSE LET k == CHOOSE k \in DOMAIN m : Map!Rank(m, k) = i
                    IN  <<k, m[k]>>

(* ImplementsMap: every Set and Remove of the tree is a Put or a Drop of   *)
(* the map its leaves hold, and returns what that one returns.             *)
ImplementsMap == Map!Spec
=============================================================================
