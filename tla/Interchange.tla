---------------------------- MODULE Interchange -----------------------------
(***************************************************************************)
(* A tree as a sequence of nodes and back: export and import, with and     *)
(* without compression, and the snapshots of v2 in both orders.            *)
(***************************************************************************)
EXTENDS Iteration, MerkleProofs

CONSTANT Bytes(_)   \* the bytes of a key, in the order of the keys

ExportNode(n) ==
  [key |-> Bytes(n.key), value |-> IF isLeaf(n) THEN n.value ELSE 0, version |-> n.nodeKey[1], height |-> n.height]

(* ImmutableTree.Export, after the traversal it reads from.                *)
PostOrder(root) == Traversed(newTraversal(root, NoBound, NoBound, TRUE, FALSE, TRUE))

Exported(root) == LET nodes == PostOrder(root) IN [i \in DOMAIN nodes |-> ExportNode(nodes[i])]

-----------------------------------------------------------------------------
(* Import.  A node has its key, and its children in left and right.        *)

Leaf(e, nodeKey) ==
  [key |-> e.key, value |-> e.value, height |-> 0, size |-> 1, nodeKey |-> nodeKey]

Inner(e, nodeKey, l, r) ==
  [key |-> e.key, height |-> e.height, size |-> l.size + r.size, nodeKey |-> nodeKey, left |-> l, right |-> r]

Nonce(nonces, version) == (IF version \in DOMAIN nonces THEN nonces[version] ELSE 0) + 1

Counted(nonces, version) == [v \in DOMAIN nonces \cup {version} |-> IF v = version THEN Nonce(nonces, v) ELSE nonces[v]]

Joins(stack, e) ==
  Len(stack) >= 2 /\ stack[Len(stack)].height < e.height /\ stack[Len(stack) - 1].height < e.height

NodeFor(stack, e, nodeKey) ==
  IF Joins(stack, e) THEN Inner(e, nodeKey, stack[Len(stack) - 1], stack[Len(stack)]) ELSE Leaf(e, nodeKey)

(* Mutant: nonces begin at 1, where the root goes.                         *)
NodeKeyFor_FromOne(i, e) == <<e.version, Nonce(i.nonces, e.version)>>

(* Nonces begin at 2; the root has 1.                                      *)
NodeKeyFor(i, e) == <<e.version, Nonce(i.nonces, e.version) + 1>>

Add(i, e) ==
  [stack |-> Append(SubSeq(i.stack, 1, Len(i.stack) - IF Joins(i.stack, e) THEN 2 ELSE 0),
                    NodeFor(i.stack, e, NodeKeyFor(i, e))),
   nonces |-> Counted(i.nonces, e.version)]

RECURSIVE Added(_, _)
Added(i, es) == IF es = <<>> THEN i ELSE Added(Add(i, Head(es)), Tail(es))

Committed(i) ==
  CASE i.stack = <<>>     -> NilNode
    [] Len(i.stack) = 1   -> [i.stack[1] EXCEPT !.nodeKey[2] = 1]
    [] OTHER              -> "invalid node structure"

Imported(es) == Committed(Added([stack |-> <<>>, nonces |-> <<>>], es))

-----------------------------------------------------------------------------
(* Compression: keys of leaves by what they share with the key before,     *)
(* keys of branches left out, versions of branches as a difference.        *)

SharedOf(a, b) == {i \in 0 .. MaxOf(Len(a), Len(b)) :
                     i <= Len(a) /\ i <= Len(b) /\ SubSeq(a, 1, i) = SubSeq(b, 1, i)}

diffOffset(a, b) == Max(SharedOf(a, b))

deltaEncode(key, last) == <<diffOffset(last, key)>> \o SubSeq(key, diffOffset(last, key) + 1, Len(key))

deltaDecode(key, last) == IF key[1] = 0 THEN Tail(key) ELSE SubSeq(last, 1, key[1]) \o Tail(key)

Popped(stack, x) == Append(SubSeq(stack, 1, Len(stack) - 2), x)
maxVersion(stack) == MaxOf(stack[Len(stack)], stack[Len(stack) - 1])

(* CompressExporter.Next: c has the last key and the stack of versions.    *)
Compress(c, e) ==
  IF e.height = 0
  THEN [last |-> e.key, versions |-> Append(c.versions, e.version),
        out |-> Append(c.out, [e EXCEPT !.key = deltaEncode(e.key, c.last)])]
  ELSE [last |-> c.last, versions |-> Popped(c.versions, e.version),
        out |-> Append(c.out, [e EXCEPT !.key = <<>>, !.version = @ - maxVersion(c.versions)])]

RECURSIVE Compressed(_, _)
Compressed(c, es) == IF es = <<>> THEN c.out ELSE Compressed(Compress(c, Head(es)), Tail(es))

(* Mutant: the smaller key of the two subtrees becomes the key.            *)
MinKey_Left(keys) == keys[Len(keys) - 1]

(* The smallest key of the right subtree is the key of the branch.         *)
MinKey(keys) == keys[Len(keys)]

Decompressed(c, e, key) ==
  [last |-> key, keys |-> Append(c.keys, key), versions |-> Append(c.versions, e.version),
   out |-> Append(c.out, [e EXCEPT !.key = key])]

DecompressedBranch(c, e, version) ==
  [last |-> c.last, keys |-> Rest(c.keys), versions |-> Popped(c.versions, version),
   out |-> Append(c.out, [e EXCEPT !.key = MinKey(c.keys), !.version = version])]

(* CompressImporter.Add.                                                   *)
Decompress(c, e) ==
  IF e.height = 0 THEN Decompressed(c, e, deltaDecode(e.key, c.last))
  ELSE DecompressedBranch(c, e, e.version + maxVersion(c.versions))

RECURSIVE DecompressedAll(_, _)
DecompressedAll(c, es) == IF es = <<>> THEN c.out ELSE DecompressedAll(Decompress(c, Head(es)), Tail(es))

RoundTrip(es) ==
  DecompressedAll([last |-> <<>>, keys |-> <<>>, versions |-> <<>>, out |-> <<>>],
                  Compressed([last |-> <<>>, versions |-> <<>>, out |-> <<>>], es))

-----------------------------------------------------------------------------
(* Snapshots of v2.  A row of the snapshot table has the node without its  *)
(* children and their node keys; leaf rows are in a table of their own.    *)

RECURSIVE postOrderNext(_)
postOrderNext(n) ==
  IF isLeaf(n) THEN <<ExportNode(n)>> ELSE postOrderNext(n.left) \o postOrderNext(n.right) \o <<ExportNode(n)>>

RECURSIVE preOrderNext(_)
preOrderNext(n) ==
  IF isLeaf(n) THEN <<ExportNode(n)>> ELSE <<ExportNode(n)>> \o preOrderNext(n.left) \o preOrderNext(n.right)

(* What is written: rows of the snapshot by ordinal, rows of the leaf      *)
(* table by version and ordinal, rows of the tree table by node key.       *)
NoRows == [snapshot |-> <<>>, leaf |-> <<>>, tree |-> <<>>]

WithRow(rows, k, n) == [i \in DOMAIN rows \cup {k} |-> IF i = k THEN n ELSE rows[i]]

Without(n) == IF isLeaf(n) THEN n ELSE [n EXCEPT !.left = n.left.nodeKey, !.right = n.right.nodeKey]

writeSnapNode(rows, n, ordinal) ==
  [snapshot |-> WithRow(rows.snapshot, ordinal, Without(n)),
   leaf |-> IF isLeaf(n) THEN WithRow(rows.leaf, <<n.nodeKey[1], ordinal>>, n) ELSE rows.leaf,
   tree |-> IF isLeaf(n) THEN rows.tree ELSE WithRow(rows.tree, n.nodeKey, Without(n))]

(* restorePostOrderStep: the ordinal of a row is one more than the         *)
(* sequence in its node key.                                               *)
PostOrderNode(s, e) == NodeFor(s.stack, e, <<e.version, s.ordinal>>)

PostOrderStep(s, e) ==
  [stack |-> Append(SubSeq(s.stack, 1, Len(s.stack) - IF Joins(s.stack, e) THEN 2 ELSE 0), PostOrderNode(s, e)),
   ordinal |-> s.ordinal + 1,
   rows |-> writeSnapNode(s.rows, PostOrderNode(s, e), s.ordinal + 1)]

RECURSIVE restorePostOrder(_, _)
restorePostOrder(s, es) == IF es = <<>> THEN s ELSE restorePostOrder(PostOrderStep(s, Head(es)), Tail(es))

(* restorePreOrderStep: a node is written after its subtrees, with the     *)
(* ordinal it had on arrival, and the ordinal grows by two for each.       *)
Written(s, n, ordinal) ==
  [node |-> n, es |-> s.es, ordinal |-> s.ordinal + 1, rows |-> writeSnapNode(s.rows, n, ordinal)]

Taken(s) == [s EXCEPT !.es = Tail(@), !.ordinal = @ + 1]

AfterRight(e, ordinal, left, s) == Written(s, Inner(e, <<e.version, ordinal>>, left, s.node), ordinal)

RECURSIVE restorePreOrderStep(_)
AfterLeft(e, ordinal, s) == AfterRight(e, ordinal, s.node, restorePreOrderStep(s))

restorePreOrderStep(s) ==
  IF Head(s.es).height = 0
  THEN Written(Taken(s), Leaf(Head(s.es), <<Head(s.es).version, s.ordinal>>), s.ordinal)
  ELSE AfterLeft(Head(s.es), s.ordinal, restorePreOrderStep(Taken(s)))

WriteSnapshotPost(es) == restorePostOrder([stack |-> <<>>, ordinal |-> 0, rows |-> NoRows], es).rows
WriteSnapshotPre(es) ==
  restorePreOrderStep([node |-> NilNode, es |-> es, ordinal |-> 0, rows |-> NoRows]).rows

(* ImportSnapshotFromTable: the rows in the order of the ordinals, or from *)
(* the last one.                                                           *)
RowsBy(rows, ascending) ==
  LET order == Sorted(DOMAIN rows, ascending) IN [i \in DOMAIN order |-> rows[order[i]]]

Grown(n, l, r) == [n EXCEPT !.left = l, !.right = r]

RECURSIVE queryStepPreOrder(_)
QueriedRight(n, left, q) == [node |-> Grown(n, left, q.node), rows |-> q.rows]
QueriedLeft(n, q) == QueriedRight(n, q.node, queryStepPreOrder(q.rows))
queryStepPreOrder(rows) ==
  IF isLeaf(Head(rows)) THEN [node |-> Head(rows), rows |-> Tail(rows)]
  ELSE QueriedLeft(Head(rows), queryStepPreOrder(Tail(rows)))

RECURSIVE queryStepPostOrder(_)
(* Mutant: the rows are read as if the left subtree came first.            *)
QueriedFirst_LeftFirst(n, right, q) == [node |-> Grown(n, right, q.node), rows |-> q.rows]
QueriedFirst(n, right, q) == [node |-> Grown(n, q.node, right), rows |-> q.rows]
QueriedRest(n, q) == QueriedFirst(n, q.node, queryStepPostOrder(q.rows))
queryStepPostOrder(rows) ==
  IF isLeaf(Head(rows)) THEN [node |-> Head(rows), rows |-> Tail(rows)]
  ELSE QueriedRest(Head(rows), queryStepPostOrder(Tail(rows)))

ImportPre(rows) == queryStepPreOrder(RowsBy(rows.snapshot, TRUE)).node
ImportPost(rows) == queryStepPostOrder(RowsBy(rows.snapshot, FALSE)).node

=============================================================================
