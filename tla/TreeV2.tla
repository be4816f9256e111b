------------------------------- MODULE TreeV2 -------------------------------
(***************************************************************************)
(* The v2 tree: nodes that are changed in place and have keys (version,    *)
(* sequence), leaves that every version writes, branches that only         *)
(* checkpoints write and that are evicted from memory then, and loading by *)
(* replaying the change log from the last checkpoint.                      *)
(*                                                                         *)
(* A node in memory has its children in it; a child that is not in memory  *)
(* is a pointer.  Hashes are structural.  The writer loops are in          *)
(* SqlWriter: here a save and a prune are single steps.                    *)
(***************************************************************************)
EXTENDS Integers, Sequences, FiniteSetsExt, Functions, TLC

CONSTANTS
  Keys,           \* byte strings, as numbers > 0 in the same order
  Interval,       \* TreeOptions.CheckpointInterval
  HeightFilter,   \* TreeOptions.HeightFilter: above 0, leaves leave memory
  EvictionDepth,  \* TreeOptions.EvictionDepth
  First,          \* bound: the calls before version 1 set these keys, in this order
  MaxVersion,     \* bound: no later version is saved
  MaxCalls,       \* bound: calls of Set, Remove and Get after version 1
  Hazards         \* the patterns of use, out of HazardNames, that may happen

HazardNames == {"setTwice", "removeChanged", "fewKeys"}

ASSUME KeysAssumption == Keys \subseteq Nat \ {0}
ASSUME OptionsAssumption == Interval \in Nat \ {0} /\ HeightFilter \in Nat /\ EvictionDepth \in Int
ASSUME BoundsAssumption == First \in Seq(Keys) /\ MaxVersion \in Nat /\ MaxCalls \in Nat
ASSUME HazardsAssumption == Hazards \subseteq HazardNames

VARIABLES
  db,       \* the rows of both databases
  tree,     \* the fields of Tree
  kv,       \* history: what the working tree should hold
  saved,    \* history: what each version was saved with
  kept,     \* history: the oldest version that must stay loadable
  calls     \* calls of Set, Remove and Get since version 1

vars == <<db, tree, kv, saved, kept, calls>>

-----------------------------------------------------------------------------
(* Nodes.                                                                  *)

NoHash == <<>>
NoValue == 0
NilNode == [height |-> -2]

isLeaf(n) == n.height = 0

Pointer(nk) == [height |-> -1, nodeKey |-> nk]
InMemory(n) == n.height # -1

(* What is read where a row is missing: a node that no tree has.  The code *)
(* panics.                                                                 *)
LostNode == [key |-> 0, value |-> NoValue, height |-> 0, size |-> 1, nodeKey |-> <<0, 0>>,
             hash |-> <<"lost">>, dirty |-> FALSE]

(* WriteBytes and MakeNode.                                                *)
Row(n) == IF isLeaf(n) THEN [key |-> n.key, value |-> n.value, hash |-> n.hash]
          ELSE [key |-> n.key, height |-> n.height, size |-> n.size, hash |-> n.hash,
                left |-> n.left.nodeKey, right |-> n.right.nodeKey]

MakeLeaf(nk, r) == [key |-> r.key, value |-> r.value, height |-> 0, size |-> 1, nodeKey |-> nk,
                    hash |-> r.hash, dirty |-> FALSE]

MakeBranch(nk, r) == [key |-> r.key, height |-> r.height, size |-> r.size, nodeKey |-> nk,
                      hash |-> r.hash, dirty |-> FALSE,
                      left |-> Pointer(r.left), right |-> Pointer(r.right)]

(* getLeftNode, getRightNode: the child c of a node of height h.  Below    *)
(* height 3 a child may be a leaf, which is tried first.                   *)
Fetch(h, c) ==
  IF InMemory(c) THEN c
  ELSE IF h <= 2 /\ c.nodeKey \in DOMAIN db.leaves THEN MakeLeaf(c.nodeKey, db.leaves[c.nodeKey])
  ELSE IF c.nodeKey \in DOMAIN db.branches THEN MakeBranch(c.nodeKey, db.branches[c.nodeKey])
  ELSE LostNode

Left(n) == Fetch(n.height, n.left)
Right(n) == Fetch(n.height, n.right)

(* writeHashBytes.                                                         *)
LeafHash(version, key, value) == <<version, key, value>>
BranchHash(n, l, r) == <<n.height, n.size, n.nodeKey[1], l.hash, r.hash>>

-----------------------------------------------------------------------------
(* Operations return the tree t they leave, with its counters and lists,   *)
(* and a node n.                                                           *)

nextNodeKey(t) == <<t.version + 1, t.sequence + 1>>
Counted(t) == [t EXCEPT !.sequence = @ + 1]

(* Mutant: without the condition on the version.                           *)
mutateNode_AnyVersion(t, n) ==
  IF n.hash = NoHash THEN [t |-> t, n |-> n]
  ELSE [t |-> Counted(t),
        n |-> [n EXCEPT !.hash = NoHash, !.nodeKey = nextNodeKey(t), !.dirty = TRUE]]

mutateNode(t, n) ==
  IF n.hash = NoHash /\ n.nodeKey[1] = t.version + 1 THEN [t |-> t, n |-> n]
  ELSE [t |-> Counted(t),
        n |-> [n EXCEPT !.hash = NoHash, !.nodeKey = nextNodeKey(t), !.dirty = TRUE]]

Last(vs) == IF vs = {} THEN -1 ELSE Max(vs)
FindPrevious(vs, v) == IF \E c \in vs : c <= v THEN Max({c \in vs : c <= v}) ELSE -1

(* Mutant: only branches of the last checkpoint itself.                    *)
addOrphan_LastOnly(t, n) ==
  CASE n.hash = NoHash -> t
    [] n.hash # NoHash /\ ~isLeaf(n) /\ n.nodeKey[1] = Last(t.checkpoints) ->
         [t EXCEPT !.branchOrphans = @ \cup {n.nodeKey}]
    [] n.hash # NoHash /\ isLeaf(n) /\ ~n.dirty -> [t EXCEPT !.leafOrphans = @ \cup {n.nodeKey}]
    [] OTHER -> t

addOrphan(t, n) ==
  CASE n.hash = NoHash -> t
    [] n.hash # NoHash /\ ~isLeaf(n) /\ n.nodeKey[1] <= Last(t.checkpoints) ->
         [t EXCEPT !.branchOrphans = @ \cup {n.nodeKey}]
    [] n.hash # NoHash /\ isLeaf(n) /\ ~n.dirty -> [t EXCEPT !.leafOrphans = @ \cup {n.nodeKey}]
    [] OTHER -> t

(* A removal is logged unless the leaf is of the version being built.      *)
addDelete(t, n) ==
  IF n.nodeKey[1] = t.version + 1 THEN t
  ELSE [Counted(t) EXCEPT !.deletes = Append(@, [nodeKey |-> nextNodeKey(t), key |-> n.key])]

(* In a replay the value that is set is the hash of the leaf, and the      *)
(* value of the leaf is not known.                                         *)
Valued(t, n, value) ==
  IF t.isReplaying THEN [n EXCEPT !.hash = value]
  ELSE [n EXCEPT !.value = value, !.hash = LeafHash(n.nodeKey[1], n.key, value)]

NewNode(t, key, value) ==
  [t |-> Counted(t),
   n |-> Valued(t, [key |-> key, value |-> NoValue, height |-> 0, size |-> 1,
                    nodeKey |-> nextNodeKey(t), hash |-> NoHash, dirty |-> TRUE], value)]

WithHeightAndSize(n, l, r) ==
  [n EXCEPT !.left = l, !.right = r, !.height = 1 + Max({l.height, r.height}),
            !.size = l.size + r.size]

calcHeightAndSize(n) == WithHeightAndSize(n, Left(n), Right(n))

calcBalance(n) == Left(n).height - Right(n).height

(* addOrphan and mutateNode, which go together.                            *)
Modified(t, n) == mutateNode(addOrphan(t, n), n)

(* The rotation of a, a node, and of b, its child: both have been modified,*)
(* the child last.                                                         *)
RotatedRight(a, b) ==
  [t |-> b.t,
   n |-> calcHeightAndSize([b.n EXCEPT !.right = calcHeightAndSize([a.n EXCEPT !.left = Right(b.n)])])]

RotatedLeft(a, b) ==
  [t |-> b.t,
   n |-> calcHeightAndSize([b.n EXCEPT !.left = calcHeightAndSize([a.n EXCEPT !.right = Left(b.n)])])]

RotateRightOf(a) == RotatedRight(a, Modified(a.t, Left(a.n)))
rotateRight(t, node) == RotateRightOf(Modified(t, node))

(* Mutant: the child that moves up is not changed.                         *)
RotateLeftOf_SameChild(a) == RotatedLeft(a, [t |-> a.t, n |-> Right(a.n)])

RotateLeftOf(a) == RotatedLeft(a, Modified(a.t, Right(a.n)))
rotateLeft(t, node) == RotateLeftOf(Modified(t, node))

(* The second rotation of the left-right and the right-left case: c is     *)
(* what the first one made of the child.                                   *)
ThenRight(n, c) == rotateRight(c.t, [n EXCEPT !.left = c.n])
ThenLeft(n, c) == rotateLeft(c.t, [n EXCEPT !.right = c.n])

(* balance, with the balance of the node and its children.                 *)
Rebalanced(t, n, bal, l, r) ==
  IF bal > 1
  THEN IF calcBalance(l) >= 0 THEN rotateRight(t, n) ELSE ThenRight(n, rotateLeft(t, l))
  ELSE IF bal < -1
  THEN IF calcBalance(r) <= 0 THEN rotateLeft(t, n) ELSE ThenLeft(n, rotateRight(t, r))
  ELSE [t |-> t, n |-> n]

balance(t, n) == Rebalanced(t, n, calcBalance(n), Left(n), Right(n))

(* A leaf becomes a parent of itself and of the new leaf.                  *)
Parent(t, l, r, new) ==
  [t |-> new.t, updated |-> FALSE,
   n |-> [key |-> r.key, height |-> 1, size |-> 2, nodeKey |-> nextNodeKey(t), hash |-> NoHash,
          dirty |-> TRUE, left |-> l, right |-> r]]

Split(t, leaf, new) ==
  IF new.n.key < leaf.key THEN Parent(t, new.n, leaf, new) ELSE Parent(t, leaf, new.n, new)

(* An update returns the modified leaf.                                    *)
Updated(m, value) == [t |-> m.t, n |-> Valued(m.t, m.n, value), updated |-> TRUE]

(* The rest of recursiveSet of a branch n, after the call c for a child.   *)
AfterSet(n, c) ==
  IF c.updated THEN [c EXCEPT !.n = n]
  ELSE balance(c.t, calcHeightAndSize(n)) @@ [updated |-> FALSE]

RECURSIVE recursiveSet(_, _, _, _)
SetLeft(m, c) == AfterSet([m.n EXCEPT !.left = c.n], c)
SetRight(m, c) == AfterSet([m.n EXCEPT !.right = c.n], c)

SetBelow(m, key, value) ==
  IF key < m.n.key THEN SetLeft(m, recursiveSet(m.t, Left(m.n), key, value))
  ELSE SetRight(m, recursiveSet(m.t, Right(m.n), key, value))

recursiveSet(t, node, key, value) ==
  CASE isLeaf(node) /\ key # node.key -> Split(t, node, NewNode(Counted(t), key, value))
    [] isLeaf(node) /\ key = node.key -> Updated(Modified(t, node), value)
    [] ~isLeaf(node) -> SetBelow(Modified(t, node), key, value)

WithRoot(r) == [r.t EXCEPT !.root = r.n]

set(t, key, value) ==
  WithRoot(IF t.root = NilNode THEN NewNode(t, key, value) ELSE recursiveSet(t, t.root, key, value))

(* A node that goes back to the pool is cleared.                           *)
returnNode(n) == [n EXCEPT !.key = 0, !.value = NoValue, !.hash = NoHash, !.dirty = FALSE]

(* The rest of recursiveRemove of a branch, after the call c for a child:  *)
(* the other child takes the place of the branch, or the branch m, which   *)
(* has been modified, keeps it.  newKey is 0 unless the smallest key of    *)
(* the subtree changed.                                                    *)
Collapsed(node, c, other, newKey) ==
  [c EXCEPT !.t = addOrphan(@, node), !.n = other, !.newKey = newKey]

Kept(m, n, c, newKey) == balance(m.t, calcHeightAndSize(n)) @@ [c EXCEPT !.newKey = newKey]

KeptLeft(m, c) == Kept(m, [m.n EXCEPT !.left = c.n], c, c.newKey)
KeptRight(m, c) ==
  Kept(m, [m.n EXCEPT !.right = c.n, !.key = IF c.newKey # 0 THEN c.newKey ELSE @], c, 0)

RemovedLeft(node, c) == IF c.n = NilNode THEN Collapsed(node, c, Right(node), node.key)
                        ELSE KeptLeft(Modified(c.t, node), c)
RemovedRight(node, c) == IF c.n = NilNode THEN Collapsed(node, c, Left(node), 0)
                         ELSE KeptRight(Modified(c.t, node), c)

AfterRemove(t, node, left, c) ==
  IF ~c.removed THEN [c EXCEPT !.t = t, !.n = node]
  ELSE IF left THEN RemovedLeft(node, c) ELSE RemovedRight(node, c)

(* The value that recursiveRemove returns is that of the leaf after it was *)
(* returned to the pool.                                                   *)
RECURSIVE recursiveRemove(_, _, _)
recursiveRemove(t, node, key) ==
  CASE isLeaf(node) /\ key = node.key ->
         [t |-> addDelete(t, node), n |-> NilNode, newKey |-> 0, value |-> returnNode(node).value,
          removed |-> TRUE]
    [] isLeaf(node) /\ key # node.key ->
         [t |-> t, n |-> node, newKey |-> 0, value |-> NoValue, removed |-> FALSE]
    [] ~isLeaf(node) ->
         AfterRemove(t, node, key < node.key,
                     recursiveRemove(t, IF key < node.key THEN Left(node) ELSE Right(node), key))

IfRemoved(t, r) == IF r.removed THEN WithRoot(r) ELSE t

remove(t, key) == IF t.root = NilNode THEN t ELSE IfRemoved(t, recursiveRemove(t, t.root, key))

RECURSIVE get(_, _)
get(n, key) ==
  CASE n = NilNode -> NoValue
    [] n # NilNode /\ isLeaf(n) -> IF n.key = key THEN n.value ELSE NoValue
    [] OTHER -> get(IF key < n.key THEN Left(n) ELSE Right(n), key)

(* The tree that get leaves: the nodes on the way stay in memory.          *)
RECURSIVE walked(_, _)
walked(n, key) ==
  CASE n = NilNode -> n
    [] n # NilNode /\ isLeaf(n) -> n
    [] OTHER -> IF key < n.key THEN [n EXCEPT !.left = walked(Left(n), key)]
                ELSE [n EXCEPT !.right = walked(Right(n), key)]

-----------------------------------------------------------------------------
(* deepHash: hashes what has no hash, collects the leaves of version v and,*)
(* for a checkpoint, the branches in memory, and takes children out of     *)
(* memory.                                                                 *)

(* heightFilter and evictChildren, for a child c of a node at a depth.     *)
(* Mutant: at any save.                                                    *)
Evicted_AnySave(c, depth, want) ==
  IF (HeightFilter > 0 /\ c.height = 0) \/ depth >= EvictionDepth
  THEN Pointer(c.nodeKey) ELSE c

Evicted(c, depth, want) ==
  IF (HeightFilter > 0 /\ c.height = 0) \/ (want /\ depth >= EvictionDepth)
  THEN Pointer(c.nodeKey) ELSE c

Collected(n, leaves, branches) == [n |-> n, leaves |-> leaves, branches |-> branches]

(* A branch whose children gave l and r.                                   *)
BranchHashed(n, l, r, depth, want) ==
  Collected([n EXCEPT !.hash = IF @ = NoHash THEN BranchHash(n, l.n, r.n) ELSE @,
                      !.left = Evicted(l.n, depth, want), !.right = Evicted(r.n, depth, want)],
            l.leaves \cup r.leaves, l.branches \cup r.branches)

Accumulated(c, want) == IF want THEN [c EXCEPT !.branches = @ \cup {c.n}] ELSE c

RECURSIVE deepHash(_, _, _, _)
HashedChild(n, c, depth, v, want) ==
  IF n.hash # NoHash /\ ~InMemory(c) THEN Collected(c, {}, {})
  ELSE deepHash(Fetch(n.height, c), depth + 1, v, want)

deepHash(n, depth, v, want) ==
  CASE isLeaf(n) -> Collected(n, {x \in {n} : x.nodeKey[1] = v}, {})
    [] ~isLeaf(n) /\ n.hash # NoHash /\ ~want -> Collected(n, {}, {})
    [] OTHER -> Accumulated(BranchHashed(n, HashedChild(n, n.left, depth, v, want),
                                         HashedChild(n, n.right, depth, v, want), depth, want), want)

Hashed(root, v, want) ==
  IF root = NilNode THEN Collected(root, {}, {}) ELSE deepHash(root, 0, v, want)

RowsOf(ns) == [nk \in {n.nodeKey : n \in ns} |-> Row(CHOOSE n \in ns : n.nodeKey = nk)]

At(nks, v) == {[nodeKey |-> nk, at |-> v] : nk \in nks}

(* LoadRoot, and loadCheckpointRange.                                      *)
LoadRoot(v) == db.roots[v].node
Checkpoints == {v \in DOMAIN db.roots : db.roots[v].checkpoint}

StoredRoot(n) == CASE n = NilNode -> n
                   [] n # NilNode /\ isLeaf(n) -> MakeLeaf(n.nodeKey, Row(n))
                   [] OTHER -> MakeBranch(n.nodeKey, Row(n))

(* SaveVersion, with saveBranches, SaveRoot and saveLeaves.                *)
WantsCheckpoint(t, v) == v = 1 \/ v - Last(t.checkpoints) >= Interval

SavedRows(t, h, v, want) ==
  [leaves      |-> RowsOf(h.leaves) @@ db.leaves,
   deletes     |-> db.deletes \cup Range(t.deletes),
   leafOrphans |-> db.leafOrphans \cup At(t.leafOrphans, v),
   branches    |-> RowsOf(h.branches) @@ db.branches,
   orphans     |-> db.orphans \cup IF h.branches # {} THEN At(t.branchOrphans, v) ELSE {},
   roots       |-> (v :> [node |-> StoredRoot(h.n), checkpoint |-> want]) @@ db.roots]

SavedTree(t, h, v, want) ==
  [t EXCEPT !.root = h.n, !.version = v, !.sequence = 0, !.leafOrphans = {}, !.deletes = <<>>,
            !.branchOrphans = IF want THEN {} ELSE @,
            !.checkpoints = IF want THEN @ \cup {v} ELSE @]

-----------------------------------------------------------------------------
(* LoadVersion and replayChangelog.                                        *)

LoadedTree(p) ==
  [version |-> p, root |-> LoadRoot(p), sequence |-> 0, checkpoints |-> Checkpoints,
   branchOrphans |-> {}, leafOrphans |-> {}, deletes |-> <<>>, isReplaying |-> TRUE]

(* The rows of the change log after version p and up to v.                 *)
LogRows(p, v) ==
  {[nodeKey |-> nk, leaf |-> TRUE, key |-> db.leaves[nk].key, hash |-> db.leaves[nk].hash] :
     nk \in {nk \in DOMAIN db.leaves : nk[1] \in p + 1 .. v}}
  \cup {[nodeKey |-> d.nodeKey, leaf |-> FALSE, key |-> d.key, hash |-> NoHash] :
     d \in {d \in db.deletes : d.nodeKey[1] \in p + 1 .. v}}

Before(r, s) == \/ r.nodeKey[1] < s.nodeKey[1]
                \/ r.nodeKey[1] = s.nodeKey[1] /\ r.nodeKey[2] < s.nodeKey[2]

(* A row of a later version than the one before it ends that version.      *)
AtVersionOf(t, row) ==
  IF row.nodeKey[1] - 1 = t.version THEN t
  ELSE [t EXCEPT !.version = row.nodeKey[1] - 1, !.sequence = 0, !.leafOrphans = {}, !.deletes = <<>>]

(* One row: set or remove its key, and compare the sequence numbers.       *)
LeafReplayed(t, row) == [t |-> t, ok |-> t.sequence = row.nodeKey[2]]
DeleteReplayed(t, row) ==
  [t |-> t, ok |-> t.deletes # <<>> /\ t.deletes[Len(t.deletes)].nodeKey[2] = row.nodeKey[2]]

ReplayRow(t, row) == IF row.leaf THEN LeafReplayed(set(t, row.key, row.hash), row)
                     ELSE DeleteReplayed(remove(t, row.key), row)

FirstRow(rows) == CHOOSE r \in rows : \A s \in rows \ {r} : Before(r, s)

RECURSIVE ReplayRows(_, _)
ReplayRows(r, rows) ==
  IF rows = {} \/ ~r.ok THEN r
  ELSE ReplayRows(ReplayRow(AtVersionOf(r.t, FirstRow(rows)), FirstRow(rows)), rows \ {FirstRow(rows)})

HashOf(n) == IF n = NilNode THEN NoHash ELSE n.hash

(* The end of the replay to version v: the hashes are computed at last.    *)
Replayed(r, h, v) ==
  [ok |-> r.ok /\ HashOf(h.n) = HashOf(LoadRoot(v)),
   t  |-> [r.t EXCEPT !.root = h.n, !.version = v, !.sequence = 0, !.leafOrphans = {},
                      !.deletes = <<>>, !.isReplaying = FALSE]]

Rehashed(r, v) == Replayed(r, Hashed(r.t.root, r.t.version, FALSE), v)

replayChangelog(t, v) == Rehashed(ReplayRows([t |-> t, ok |-> TRUE], LogRows(t.version, v)), v)

(* LoadVersion of a version whose root and a checkpoint before it exist.   *)
LoadedFrom(p, v) == IF v > p THEN replayChangelog(LoadedTree(p), v)
                    ELSE [ok |-> TRUE, t |-> [LoadedTree(p) EXCEPT !.isReplaying = FALSE]]

Loaded(v) == LoadedFrom(FindPrevious(Checkpoints, v), v)

-----------------------------------------------------------------------------
(* The steps.                                                              *)

Empty == [k \in Keys |-> NoValue]

Init ==
  /\ db = [leaves |-> <<>>, deletes |-> {}, leafOrphans |-> {}, branches |-> <<>>, orphans |-> {},
           roots |-> <<>>]
  /\ tree = [version |-> 0, root |-> NilNode, sequence |-> 0, checkpoints |-> {},
             branchOrphans |-> {}, leafOrphans |-> {}, deletes |-> <<>>, isReplaying |-> FALSE]
  /\ kv = Empty /\ saved = <<>> /\ kept = 0
  /\ calls = 0

(* A call, within the bounds.                                              *)
Size(m) == Cardinality({k \in Keys : m[k] # NoValue})

Call(k) ==
  /\ tree.version < MaxVersion
  /\ IF tree.version = 0 THEN Size(kv) < Len(First) /\ k = First[Size(kv) + 1] /\ calls' = calls
     ELSE calls < MaxCalls /\ calls' = calls + 1

(* The value that is set is the version that is being built.               *)
Set(k) ==
  /\ Call(k)
  /\ kv[k] = tree.version + 1 => "setTwice" \in Hazards
  /\ tree' = set(tree, k, tree.version + 1)
  /\ kv' = [kv EXCEPT ![k] = tree.version + 1]
  /\ UNCHANGED <<db, saved, kept>>

Remove(k) ==
  /\ IF kv[k] = NoValue THEN calls' = calls ELSE Call(k)
  /\ kv[k] = tree.version + 1 => "removeChanged" \in Hazards
  /\ tree' = remove(tree, k)
  /\ kv' = [kv EXCEPT ![k] = NoValue]
  /\ UNCHANGED <<db, saved, kept>>

Get(k) ==
  /\ tree.version > 0 /\ Call(k)
  /\ tree' = [tree EXCEPT !.root = walked(@, k)]
  /\ UNCHANGED <<db, kv, saved, kept>>

(* force: SetShouldCheckpoint was called, or the memory limit is reached.  *)
SaveVersion(force) ==
  LET v    == tree.version + 1
      want == force \/ WantsCheckpoint(tree, v)
      h    == Hashed(tree.root, v, want)
  IN  /\ v <= MaxVersion
      /\ v = 1 => Size(kv) = Len(First)
      /\ Size(kv) < 2 => "fewKeys" \in Hazards
      /\ db' = SavedRows(tree, h, v, want)
      /\ tree' = SavedTree(tree, h, v, want)
      /\ saved' = (v :> kv) @@ saved
      /\ UNCHANGED <<kv, kept, calls>>

(* DeleteVersionsTo, with all the steps of both prunes.                    *)
DueOrphans(os, p) == {o.nodeKey : o \in {o \in os : o.at <= p}}

DeleteVersionsTo(v) ==
  LET p == FindPrevious(tree.checkpoints, v)
  IN  /\ p > kept /\ v <= tree.version
      /\ db' = [leaves      |-> Restrict(db.leaves, DOMAIN db.leaves \ DueOrphans(db.leafOrphans, p)),
                deletes     |-> {d \in db.deletes : d.nodeKey[1] >= p},
                leafOrphans |-> {o \in db.leafOrphans : o.at > p},
                branches    |-> Restrict(db.branches, DOMAIN db.branches \ DueOrphans(db.orphans, v)),
                orphans     |-> {o \in db.orphans : o.at > v},
                roots       |-> Restrict(db.roots, {u \in DOMAIN db.roots : u >= p})]
      /\ kept' = p
      /\ UNCHANGED <<tree, kv, saved, calls>>

(* The process ends, and the next one loads the latest version.            *)
LoadVersion ==
  /\ tree.version > 0
  /\ tree' = Loaded(tree.version).t
  /\ kv' = saved[tree.version]
  /\ UNCHANGED <<db, saved, kept, calls>>

Next == \/ \E k \in Keys : Set(k) \/ Remove(k) \/ Get(k)
        \/ \E force \in BOOLEAN : SaveVersion(force)
        \/ \E v \in 1 .. MaxVersion : DeleteVersionsTo(v)
        \/ LoadVersion

Spec == Init /\ [][Next]_vars

-----------------------------------------------------------------------------
(* Properties.                                                             *)

(* The nodes of a tree, those that are not in memory included.             *)
RECURSIVE NodesOf(_)
NodesOf(n) == CASE n = NilNode -> {}
                [] n # NilNode /\ isLeaf(n) -> {n}
                [] OTHER -> {n} \cup NodesOf(Left(n)) \cup NodesOf(Right(n))

BranchKeys(n) == {m.nodeKey : m \in {m \in NodesOf(n) : ~isLeaf(m)}}

(* The fields of the tree and the rows have the shape the code gives them, *)
(* and no two nodes of the working tree have the same key.                 *)
TypeOK ==
  /\ tree.version \in 0 .. MaxVersion /\ tree.sequence \in Nat /\ ~tree.isReplaying
  /\ tree.checkpoints \subseteq 1 .. tree.version
  /\ DOMAIN db.leaves \cap DOMAIN db.branches = {}
  /\ kv \in [Keys -> 0 .. MaxVersion] /\ kept \in 0 .. MaxVersion
  /\ LET ns == NodesOf(tree.root)
     IN  Cardinality({n.nodeKey : n \in ns}) = Cardinality(ns)

(* Get of the working tree is Get of a map: after any changes, saves,      *)
(* evictions, prunes and restarts every key has the value last set, and    *)
(* every node on the way to it is in memory or in the database.            *)
ReadsAgree == \A k \in Keys : get(tree.root, k) = kv[k]

(* LoadVersion works for every version since the last prune: the replay of *)
(* its change log from the checkpoint before it gives the same sequence    *)
(* numbers and the same root hash, and the tree it builds has the values   *)
(* that were saved, although replayed leaves have no values in memory.     *)
SavedVersionsLoad ==
  \A v \in DOMAIN saved : v >= kept =>
    LET l == Loaded(v) IN l.ok /\ \A k \in Keys : get(l.t.root, k) = saved[v][k]

(* The branches in the database are those of the checkpoints since the     *)
(* last prune: none is missing, and the orphans recorded by addOrphan, in  *)
(* the process that made the change or in one that replayed it, are enough *)
(* for DeleteVersionsTo to delete all the others.                          *)
BranchesExact ==
  DOMAIN db.branches = UNION {BranchKeys(LoadRoot(c)) : c \in Checkpoints}

(* recursiveRemove returns, as its comment says, "the removed value", which*)
(* Remove passes on to its caller.                                         *)
RemoveReturnsTheValue ==
  \A k \in Keys : kv[k] # NoValue => recursiveRemove(tree, tree.root, k).value = kv[k]
=============================================================================
