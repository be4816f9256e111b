------------------------------ MODULE StateDiff -----------------------------
(***************************************************************************)
(* extractStateChanges: the changes of a version, found by walking its     *)
(* tree and the tree of the version before it in step, and skipping what   *)
(* the two have in common.                                                 *)
(*                                                                         *)
(* d has the stacks of the two node iterators, the shared node, the new    *)
(* leaves not yet accounted for, and in out the pairs sent to the receiver.*)
(***************************************************************************)
EXTENDS MerkleProofs

Stack(root) == IF root = NilNode THEN <<>> ELSE <<root>>

Put(n) == [key |-> n.key, value |-> <<n.value>>]
Delete(n) == [key |-> n.key, value |-> <<>>]

(* NodeIterator.Next.                                                      *)
Forward(stack, skipped) ==
  LET n    == stack[Len(stack)]
      rest == SubSeq(stack, 1, Len(stack) - 1)
  IN  IF skipped \/ isLeaf(n) THEN rest ELSE rest \o <<n.right, n.left>>

consumeNewLeaves(d) ==
  [d EXCEPT !.out = @ \o [i \in DOMAIN d.new |-> Put(d.new[i])], !.new = <<>>]

(* Mutant: a leaf of an older version counts as new.                       *)
SharedAt_BranchesOnly(n, prevVersion) == n.nodeKey[1] <= prevVersion /\ ~isLeaf(n)
SharedAt(n, prevVersion) == n.nodeKey[1] <= prevVersion

(* The new version up to the next node that it shares.                     *)
Moved(d, n, shared) ==
  [d EXCEPT !.cur = Forward(@, shared),
            !.shared = IF shared THEN n ELSE NilNode,
            !.new = IF ~shared /\ isLeaf(n) THEN Append(@, n) ELSE @]

RECURSIVE Advanced(_, _)
Advanced(d, prevVersion) ==
  IF d.cur = <<>> \/ d.shared /= NilNode THEN d
  ELSE Advanced(Moved(d, d.cur[Len(d.cur)], SharedAt(d.cur[Len(d.cur)], prevVersion)), prevVersion)

advanceSharedNode(d, prevVersion) ==
  Advanced([consumeNewLeaves(d) EXCEPT !.shared = NilNode], prevVersion)

RECURSIVE addOrphanedLeave(_, _)
addOrphanedLeave(d, o) ==
  CASE d.new = <<>> \/ o.key < d.new[1].key -> [d EXCEPT !.out = Append(@, Delete(o))]
    [] d.new /= <<>> /\ o.key > d.new[1].key ->
         addOrphanedLeave([d EXCEPT !.out = Append(@, Put(d.new[1])), !.new = Tail(@)], o)
    [] OTHER -> [d EXCEPT !.out = Append(@, Put(d.new[1])), !.new = Tail(@)]

IsShared(d, n) ==
  d.shared /= NilNode /\ hashWithCount(n, 0) = hashWithCount(d.shared, 0)

(* The loop over the tree of the version before.                           *)
AtPrevious(d, n, shared, prevVersion) ==
  CASE shared -> advanceSharedNode([d EXCEPT !.prev = Forward(@, TRUE)], prevVersion)
    [] ~shared /\ isLeaf(n) -> addOrphanedLeave([d EXCEPT !.prev = Forward(@, FALSE)], n)
    [] OTHER -> [d EXCEPT !.prev = Forward(@, FALSE)]

RECURSIVE Compared(_, _)
Compared(d, prevVersion) ==
  IF d.prev = <<>> THEN consumeNewLeaves(d)
  ELSE Compared(AtPrevious(d, d.prev[Len(d.prev)], IsShared(d, d.prev[Len(d.prev)]), prevVersion), prevVersion)

extractStateChanges(prevVersion, prevRoot, root) ==
  Compared(advanceSharedNode([cur |-> Stack(root), prev |-> Stack(prevRoot), shared |-> NilNode,
                              new |-> <<>>, out |-> <<>>], prevVersion), prevVersion).out

(* The version before the first one that exists has no root.               *)
RootBefore(roots, first, v) == IF v = first THEN NilNode ELSE roots[v - 1]

(* The change sets of the versions from start to end, both included.       *)
traverseStateChanges(roots, first, start, end) ==
  [v \in MaxOf(start, first) .. IF end > Len(roots) THEN Len(roots) ELSE end |->
     extractStateChanges(v - 1, RootBefore(roots, first, v), roots[v])]

-----------------------------------------------------------------------------
(* The new nodes of a tree get the version that is saved.                  *)
RECURSIVE Stamped(_, _)
Stamped(n, v) ==
  CASE n.height < 0 \/ n.nodeKey /= NoNodeKey -> n
    [] n.nodeKey = NoNodeKey /\ isLeaf(n) -> [n EXCEPT !.nodeKey = <<v, 0>>]
    [] OTHER -> [n EXCEPT !.nodeKey = <<v, 0>>, !.left = Stamped(@, v), !.right = Stamped(@, v)]

(* SaveChangeSet: the pairs in their order, then SaveVersion.  A removal   *)
(* of a key that is not there is an error.                                 *)
Refused == [height |-> -2]

Replayed(root, pair) ==
  CASE root = Refused -> root
    [] root /= Refused /\ pair.value /= <<>> -> set(root, pair.key, pair.value[1]).node
    [] OTHER -> IF remove(root, pair.key).removed THEN remove(root, pair.key).node ELSE Refused

RECURSIVE ReplayedAll(_, _)
ReplayedAll(root, pairs) ==
  IF pairs = <<>> THEN root ELSE ReplayedAll(Replayed(root, Head(pairs)), Tail(pairs))

SaveChangeSet(root, pairs, version) == Stamped(ReplayedAll(root, pairs), version)

=============================================================================
