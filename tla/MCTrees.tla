------------------------------- MODULE MCTrees ------------------------------
(***************************************************************************)
(* The algorithms that read a tree, checked on every tree that some        *)
(* versions of changes give: version 1 holds whatever Set and Remove       *)
(* build, the versions after it have MaxChanges changes between them.      *)
(***************************************************************************)
EXTENDS StateDiff, Interchange

CONSTANTS
  Keys,        \* the keys that Set and Remove are called with
  MaxVersion,  \* versions that may be saved
  MaxChanges   \* changes after the first version

VARIABLES
  saved,      \* the trees of the versions
  root,       \* the working tree
  additions,  \* unsavedFastNodeAdditions
  removals,   \* unsavedFastNodeRemovals
  changes     \* the number of changes after the first version

vars == <<saved, root, additions, removals, changes>>

(* Five keys as bytes: some are prefixes of others.                        *)
BytesOf == <<<<1>>, <<1, 1>>, <<1, 1, 2>>, <<1, 3>>, <<2, 1, 2>>>>
FewBytes(k) == BytesOf[k]

version == Len(saved)
Last == IF saved = <<>> THEN NilNode ELSE saved[version]

Init == saved = <<>> /\ root = NilNode /\ additions = {} /\ removals = {} /\ changes = 0

Change == saved = <<>> \/ changes < MaxChanges
Changed == changes' = IF saved = <<>> THEN 0 ELSE changes + 1

Set(k) ==
  /\ Change
  /\ root' = set(root, k, version + 1).node
  /\ additions' = additions \cup {k} /\ removals' = removals \ {k}
  /\ Changed /\ UNCHANGED saved

Remove(k) ==
  /\ Change /\ k \in DOMAIN Contents(root)
  /\ root' = remove(root, k).node
  /\ additions' = additions \ {k} /\ removals' = removals \cup {k}
  /\ Changed /\ UNCHANGED saved

SaveVersion ==
  /\ version < MaxVersion
  /\ root' = Stamped(root, version + 1)
  /\ saved' = Append(saved, root')
  /\ additions' = {} /\ removals' = {} /\ UNCHANGED changes

Terminated == version = MaxVersion /\ changes = MaxChanges /\ UNCHANGED vars

Next == SaveVersion \/ Terminated \/ \E k \in Keys : Set(k) \/ Remove(k)

Spec == Init /\ [][Next]_vars

-----------------------------------------------------------------------------
Bounds == Keys \cup {NoBound}
KeysOf(nodes) == [i \in DOMAIN nodes |-> nodes[i].key]
InRangeInclusive(k, start, end) == (start = NoBound \/ start <= k) /\ (end = NoBound \/ k <= end)

(* IterationInOrder: Iterator, IterateRangeInclusive and the iterators of  *)
(* v2 return exactly the keys of the tree that are in the domain, in       *)
(* order, for every domain, bounds that are no keys included.  So does     *)
(* UnsavedFastIterator, which merges the fast index of the last version    *)
(* with the unsaved changes.                                               *)
IterationInOrder ==
  \A start, end \in Bounds, ascending \in BOOLEAN :
    LET keys == DOMAIN Contents(root)
        want == InOrder(keys, start, end, ascending)
    IN  /\ KeysOf(Iterator(root, start, end, ascending)) = want
        /\ Merged(DOMAIN Contents(Last), additions, removals, start, end, ascending) = want
        /\ KeysOf(IF ascending THEN TreeIterator(root, start, end, FALSE) ELSE ReverseIterator(root, start, end)) = want
        /\ LET inclusive == Sorted({k \in keys : InRangeInclusive(k, start, end)}, ascending)
           IN  /\ KeysOf(IterateRangeInclusive(root, start, end, ascending)) = inclusive
               /\ ascending => KeysOf(TreeIterator(root, start, end, TRUE)) = inclusive

(* ProofsVerify (GetMembershipProof,  GetNonMembershipProof): for a key of *)
(* the tree the membership proof leads to the hash that the next           *)
(* SaveVersion gives the tree, for any other key the non-membership proof  *)
(* does, and the path of a key has its index.                              *)
ProofsVerify ==
  root /= NilNode =>
    LET hash == hashWithCount(Stamped(root, version + 1), 0)
    IN  \A k \in Keys :
          IF k \in DOMAIN Contents(root)
          THEN /\ VerifyMembership(createExistenceProof(root, k, version + 1), hash, k, Contents(root)[k])
               /\ Index(pathToLeaf(root, k, version + 1).path) = get(root, k).index
          ELSE VerifyNonMembership(GetNonMembershipProof(root, k, version + 1), hash)

(* The changes that extractStateChanges finds come in the order of the     *)
(* keys, one at most for each, and make the version before into the        *)
(* version.                                                                *)
ChangesAreTheDifference ==
  LET pairs == extractStateChanges(version, Last, Stamped(root, version + 1))
      old   == Contents(Last)
      new   == Contents(root)
  IN  /\ \A i \in 1 .. Len(pairs) - 1 : pairs[i].key < pairs[i + 1].key
      /\ \A k \in Keys :
           LET ps == {i \in DOMAIN pairs : pairs[i].key = k}
           IN  CASE k \in DOMAIN old \ DOMAIN new -> \E i \in ps : pairs[i].value = <<>>
                 [] k \in DOMAIN new /\ (k \notin DOMAIN old \/ old[k] /= new[k]) ->
                      \E i \in ps : pairs[i].value = <<new[k]>>
                 [] OTHER -> ps = {}

Roots == Append(saved, Stamped(root, version + 1))

RECURSIVE SavedFrom(_, _)
SavedFrom(sets, v) ==
  IF v = 0 THEN <<>>
  ELSE LET before == SavedFrom(sets, v - 1)
       IN  Append(before, SaveChangeSet(IF v = 1 THEN NilNode ELSE before[v - 1], sets[v], v))

(* ChangesReplay (extractStateChanges, TraverseStateChanges,               *)
(* SaveChangeSet): the change set of a version is its difference to the    *)
(* version before.  Beginning with an empty tree the change sets give the  *)
(* contents of every version again, and the change sets of what they give  *)
(* are the same.                                                           *)
ChangesReplay ==
  LET sets  == traverseStateChanges(Roots, 1, 0, version + 2)
      again == SavedFrom(sets, version + 1)
  IN  /\ ChangesAreTheDifference
      /\ \A v \in 1 .. version + 1 : again[v] /= Refused /\ Contents(again[v]) = Contents(Roots[v])
      /\ traverseStateChanges(again, 1, 0, version + 2) = sets

RECURSIVE ByteKeys(_)
ByteKeys(n) ==
  IF isLeaf(n) THEN [n EXCEPT !.key = Bytes(@)]
  ELSE [n EXCEPT !.key = Bytes(@), !.left = ByteKeys(@), !.right = ByteKeys(@)]

SameTree(n, m) == hashWithCount(n, 0) = hashWithCount(m, 0)

(* ImportRebuilds: what Importer makes of what Exporter sends, through     *)
(* CompressExporter and CompressImporter, is a tree of the same hash, with *)
(* a node key of its own for every node.                                   *)
ImportRebuilds ==
  root /= NilNode =>
    LET tree     == Stamped(root, version + 1)
        imported == Imported(RoundTrip(Exported(tree)))
    IN  /\ SameTree(imported, ByteKeys(tree))
        /\ RoundTrip(Exported(tree)) = Exported(tree)
        /\ imported.nodeKey = <<tree.nodeKey[1], 1>>
        /\ Cardinality({n.nodeKey : n \in Nodes(imported)}) = 2 * tree.size - 1

Restores(n, rows, tree) ==
  /\ SameTree(n, ByteKeys(tree))
  /\ {Without(m) : m \in Nodes(n)} = {rows.snapshot[i] : i \in DOMAIN rows.snapshot}
  /\ \A m \in Nodes(n) : ~isLeaf(m) => rows.tree[m.nodeKey] = Without(m)

(* SnapshotsRestore: WriteSnapshot of what Tree.Export of v2 sends makes   *)
(* rows that LoadSnapshot makes the tree of, in either order.  The node    *)
(* keys that the rows of branches have for their children are those of the *)
(* children, every branch is in the tree table under its node key, and     *)
(* after a pre-order restore every leaf is in the leaf table under its own.*)
SnapshotsRestore ==
  root /= NilNode =>
    LET tree == Stamped(root, version + 1)
        pre  == WriteSnapshotPre(preOrderNext(tree))
        post == WriteSnapshotPost(postOrderNext(tree))
    IN  /\ Restores(ImportPre(pre), pre, tree)
        /\ Restores(ImportPost(post), post, tree)
        /\ \A l \in Leaves(ImportPre(pre)) : pre.leaf[l.nodeKey] = l

=============================================================================
