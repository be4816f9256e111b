------------------------------ MODULE AVLTree -------------------------------
(***************************************************************************)
(* The working tree of a MutableTree: an AVL+ tree that keeps its values   *)
(* in the leaves and is updated by copying the path from the root to the   *)
(* changed leaf.                                                           *)
(*                                                                         *)
(* A node is a record; its children are inlined, because a persisted node  *)
(* is immutable and getLeftNode/getRightNode return what was saved.        *)
(* nodeKey is NoNodeKey for a node created since the last SaveVersion.     *)
(***************************************************************************)
EXTENDS Integers, Sequences, FiniteSets

NoNodeKey == <<>>

(* The nil *Node.                                                          *)
NilNode == [height |-> -1]

NewNode(k, v) ==
  [key |-> k, value |-> v, height |-> 0, size |-> 1, nodeKey |-> NoNodeKey]

isLeaf(n) == n.height = 0

MaxOf(a, b) == IF a > b THEN a ELSE b

(* An inner node nobody saved yet, with the height and the size that       *)
(* calcHeightAndSize gives it: a clone whose key and children were set.    *)
NewInner(k, l, r) ==
  [key |-> k, left |-> l, right |-> r, nodeKey |-> NoNodeKey,
   height |-> MaxOf(l.height, r.height) + 1, size |-> l.size + r.size]

clone(n) == [n EXCEPT !.nodeKey = NoNodeKey]

calcBalance(n) == n.left.height - n.right.height

rotateRight(n) ==
  NewInner(n.left.key, n.left.left, NewInner(n.key, n.left.right, n.right))

rotateLeft(n) ==
  NewInner(n.right.key, NewInner(n.key, n.left, n.right.left), n.right.right)

(* Mutant: no double rotations.                                            *)
balance_Single(n) ==
  CASE calcBalance(n) > 1 -> rotateRight(n)
    [] calcBalance(n) < -1 -> rotateLeft(n)
    [] OTHER -> n

balance(n) ==
  CASE calcBalance(n) > 1 /\ calcBalance(n.left) >= 0 -> rotateRight(n)
    [] calcBalance(n) > 1 /\ calcBalance(n.left) < 0 ->
         rotateRight([n EXCEPT !.left = rotateLeft(n.left)])
    [] calcBalance(n) < -1 /\ calcBalance(n.right) <= 0 -> rotateLeft(n)
    [] calcBalance(n) < -1 /\ calcBalance(n.right) > 0 ->
         rotateLeft([n EXCEPT !.right = rotateRight(n.right)])
    [] OTHER -> n

-----------------------------------------------------------------------------
(* Set.                                                                    *)

(* Mutant: an existing value is not replaced.                              *)
recursiveSetLeaf_KeepsOld(n, k, v) ==
  CASE k < n.key -> [node |-> NewInner(n.key, NewNode(k, v), n), updated |-> FALSE]
    [] k > n.key -> [node |-> NewInner(k, n, NewNode(k, v)), updated |-> FALSE]
    [] OTHER     -> [node |-> n, updated |-> TRUE]

recursiveSetLeaf(n, k, v) ==
  CASE k < n.key -> [node |-> NewInner(n.key, NewNode(k, v), n), updated |-> FALSE]
    [] k > n.key -> [node |-> NewInner(k, n, NewNode(k, v)), updated |-> FALSE]
    [] OTHER     -> [node |-> NewNode(k, v), updated |-> TRUE]

(* The height and the size of a clone change only when a key was added; an *)
(* update returns before calcHeightAndSize and balance.                    *)
RECURSIVE recursiveSet(_, _, _)
recursiveSet(n, k, v) ==
  IF isLeaf(n) THEN recursiveSetLeaf(n, k, v)
  ELSE LET sub   == recursiveSet(IF k < n.key THEN n.left ELSE n.right, k, v)
           copy  == IF k < n.key THEN [clone(n) EXCEPT !.left = sub.node]
                                 ELSE [clone(n) EXCEPT !.right = sub.node]
       IN  IF sub.updated
           THEN [node |-> copy, updated |-> TRUE]
           ELSE [node |-> balance(NewInner(n.key, copy.left, copy.right)), updated |-> FALSE]

set(root, k, v) ==
  IF root = NilNode THEN [node |-> NewNode(k, v), updated |-> FALSE]
  ELSE recursiveSet(root, k, v)

-----------------------------------------------------------------------------
(* Remove.                                                                 *)

(* node is NilNode when the subtree vanished; newKey, when not empty, is   *)
(* the new smallest key of the subtree, which an ancestor to the left of   *)
(* it takes as its own key; value, when removed, holds the removed value.  *)
RECURSIVE recursiveRemove(_, _)
recursiveRemove(n, k) ==
  IF isLeaf(n)
  THEN IF n.key = k
       THEN [node |-> NilNode, newKey |-> <<>>, value |-> <<n.value>>, removed |-> TRUE]
       ELSE [node |-> n, newKey |-> <<>>, value |-> <<>>, removed |-> FALSE]
  ELSE IF k < n.key
  THEN LET sub == recursiveRemove(n.left, k)
       IN  CASE ~sub.removed -> [sub EXCEPT !.node = n]
             [] sub.removed /\ sub.node = NilNode ->
                  [sub EXCEPT !.node = n.right, !.newKey = <<n.key>>]
             [] OTHER ->
                  [sub EXCEPT !.node = balance(NewInner(n.key, sub.node, n.right))]
  ELSE LET sub == recursiveRemove(n.right, k)
       IN  CASE ~sub.removed -> [sub EXCEPT !.node = n]
             [] sub.removed /\ sub.node = NilNode ->
                  [sub EXCEPT !.node = n.left, !.newKey = <<>>]
             [] OTHER ->
                  LET key == IF sub.newKey = <<>> THEN n.key ELSE sub.newKey[1]
                  IN  [sub EXCEPT !.node = balance(NewInner(key, n.left, sub.node)),
                                  !.newKey = <<>>]

remove(root, k) ==
  IF root = NilNode THEN [node |-> NilNode, value |-> <<>>, removed |-> FALSE]
  ELSE LET r == recursiveRemove(root, k)
       IN  [node |-> IF r.removed THEN r.node ELSE root, value |-> r.value, removed |-> r.removed]

-----------------------------------------------------------------------------
(* Lookups.  A value that was not found is the empty sequence, a value     *)
(* that was found is the sequence that holds it.                           *)

RECURSIVE has(_, _)
has(n, k) ==
  \/ n.key = k
  \/ ~isLeaf(n) /\ has(IF k < n.key THEN n.left ELSE n.right, k)

RECURSIVE get(_, _)
get(n, k) ==
  CASE isLeaf(n) -> [index |-> IF n.key < k THEN 1 ELSE 0,
                     value |-> IF n.key = k THEN <<n.value>> ELSE <<>>]
    [] ~isLeaf(n) /\ k < n.key -> get(n.left, k)
    [] OTHER -> [get(n.right, k) EXCEPT !.index = @ + n.size - n.right.size]

RECURSIVE getByIndex(_, _)
(* Mutant: off by one at the border of the left child.                     *)
getByIndex_OffByOne(n, i) ==
  CASE isLeaf(n) -> IF i = 0 THEN <<n.key, n.value>> ELSE <<>>
    [] ~isLeaf(n) /\ i <= n.left.size -> getByIndex(n.left, i)
    [] OTHER -> getByIndex(n.right, i - n.left.size)

getByIndex(n, i) ==
  CASE isLeaf(n) -> IF i = 0 THEN <<n.key, n.value>> ELSE <<>>
    [] ~isLeaf(n) /\ i < n.left.size -> getByIndex(n.left, i)
    [] OTHER -> getByIndex(n.right, i - n.left.size)

-----------------------------------------------------------------------------
(* What a tree holds.                                                      *)

RECURSIVE Leaves(_)
Leaves(n) ==
  CASE n = NilNode -> {}
    [] n # NilNode /\ isLeaf(n) -> {n}
    [] OTHER -> Leaves(n.left) \cup Leaves(n.right)

RECURSIVE Nodes(_)
Nodes(n) ==
  CASE n = NilNode -> {}
    [] n # NilNode /\ isLeaf(n) -> {n}
    [] OTHER -> {n} \cup Nodes(n.left) \cup Nodes(n.right)

Contents(n) ==
  LET leaves == Leaves(n)
  IN  [k \in {l.key : l \in leaves} |-> (CHOOSE l \in leaves : l.key = k).value]
=============================================================================
