------------------------------- MODULE NodeDB -------------------------------
(***************************************************************************)
(* The versions of a MutableTree on disk: how SaveVersion writes the nodes *)
(* that a version adds, how DeleteVersionsTo deletes the nodes that only   *)
(* pruned versions used, and how a new process finds out which versions    *)
(* there are.                                                              *)
(*                                                                         *)
(* A node is stored under its node key <<version, nonce>>.  The key        *)
(* <<v, 1>> is special: it is the root of version v, or stands for it.     *)
(* Only reformatted roots have the nonce 0.  The database has no legacy    *)
(* nodes, and node caches are not modelled: they hold what is on disk.     *)
(***************************************************************************)
EXTENDS AVLTree, TLC

CONSTANTS
  Keys,         \* byte strings, as numbers > 0 in the same order
  Starts,       \* sets of keys that version 1 may have from the beginning
  MaxVersion,   \* bound: no later version is saved
  MaxChanges,   \* bound: calls of Set and Remove
  Hazards       \* the patterns of use, out of HazardNames, that may happen

HazardNames == {"leafRoot", "pruneLoaded", "overwriteZero"}

ASSUME KeysAssumption == Keys \subseteq Nat \ {0} /\ Starts \subseteq SUBSET Keys
ASSUME BoundsAssumption == MaxVersion \in Nat /\ MaxChanges \in Nat
ASSUME HazardsAssumption == Hazards \subseteq HazardNames

VARIABLES
  disk,            \* the database: a function from node keys to entries
  firstVersion,    \* nodeDB.firstVersion, 0 if not known
  latestVersion,   \* nodeDB.latestVersion, 0 if not known
  loaded,          \* whether this process has loaded a version
  version,         \* the version of the working tree
  root,            \* the root of the working tree
  lastSaved,       \* the root of the version loaded or saved last
  changes,         \* calls of Set and Remove so far
  saved            \* history: the contents and the nodes each version was saved with

vars == <<disk, firstVersion, latestVersion, loaded, version, root, lastSaved,
          changes, saved>>

-----------------------------------------------------------------------------
(* Entries of the database.                                                *)

RootKey(v) == <<v, 1>>

(* What a child pointer to a reformatted root is: a hash, which is looked  *)
(* up among the legacy nodes.                                              *)
LegacyKey == <<0, 0>>

ChildKey(n) == IF n.nodeKey[2] # 0 THEN n.nodeKey ELSE LegacyKey

(* Node.writeBytes.                                                        *)
NodeEntry(n) ==
  IF isLeaf(n)
  THEN [kind |-> "leaf", key |-> n.key, value |-> n.value]
  ELSE [kind |-> "inner", key |-> n.key, height |-> n.height, size |-> n.size,
        left |-> ChildKey(n.left), right |-> ChildKey(n.right)]

EmptyRoot == [kind |-> "empty"]

ReferenceRoot(nk) == [kind |-> "ref", to |-> nk]

IsNode(d, nk) == nk \in DOMAIN d /\ d[nk].kind \in {"leaf", "inner"}

(* The tree under a node key, as far as it can be read: a node that is     *)
(* missing is a leaf that no tree has.                                     *)
LostNode == [key |-> 0, value |-> 0, height |-> 0, size |-> 1, nodeKey |-> LegacyKey]

RECURSIVE GetNode(_, _)
GetNode(d, nk) ==
  CASE ~IsNode(d, nk) -> LostNode
    [] IsNode(d, nk) /\ d[nk].kind = "leaf" ->
         [key |-> d[nk].key, value |-> d[nk].value, height |-> 0, size |-> 1, nodeKey |-> nk]
    [] OTHER ->
         [key |-> d[nk].key, left |-> GetNode(d, d[nk].left), right |-> GetNode(d, d[nk].right),
          nodeKey |-> nk, height |-> d[nk].height, size |-> d[nk].size]

(* hasVersion.                                                             *)
hasVersion(d, v) == RootKey(v) \in DOMAIN d

(* GetRoot: the key of the root of version v, NoNodeKey for an empty tree, *)
(* NoRoot if the version does not exist.  A reference to a root that is    *)
(* gone means the reformatted root.  References are those SaveRoot writes; *)
(* the form without a nonce, of releases before lazy pruning, is left out. *)
NoRoot == <<0>>

GetRoot(d, v) ==
  IF ~hasVersion(d, v) THEN NoRoot
  ELSE LET e == d[RootKey(v)]
       IN  CASE e.kind = "empty" -> NoNodeKey
             [] e.kind = "ref" ->
                  CASE e.to \in DOMAIN d -> e.to
                    [] e.to \notin DOMAIN d /\ <<e.to[1], 0>> \in DOMAIN d -> <<e.to[1], 0>>
                    [] OTHER -> NoRoot
             [] OTHER -> RootKey(v)

(* The contents of a tree, as a function of every key; a lost node shows.  *)
NoValue == 0

Total(n) ==
  LET leaves == Leaves(n)
  IN  [k \in Keys \cup {l.key : l \in leaves} |->
         IF \E l \in leaves : l.key = k
         THEN (CHOOSE l \in leaves : l.key = k).value ELSE NoValue]

(* What is remembered of a tree when it is saved.  A root that is          *)
(* reformatted later is still the node it was.                             *)
NodeAt(nk) == IF nk[2] = 0 THEN RootKey(nk[1]) ELSE nk

Recorded(n) ==
  [holds |-> Total(n), nodes |-> {NodeAt(m.nodeKey) : m \in Nodes(n)},
   root |-> IF n = NilNode THEN LegacyKey ELSE NodeAt(n.nodeKey)]

(* The tree of version v.                                                  *)
VersionTree(d, v) ==
  LET nk == GetRoot(d, v) IN IF nk = NoNodeKey THEN NilNode ELSE GetNode(d, nk)

(* getLatestVersion of a new process: the version of the largest node key. *)
FindLatest(d) ==
  IF DOMAIN d = {} THEN 0 ELSE CHOOSE v \in {nk[1] : nk \in DOMAIN d} :
                                 \A nk \in DOMAIN d : nk[1] <= v

(* getFirstVersion of a new process: a binary search for the smallest      *)
(* version that has a root, between lo and hi.                             *)
RECURSIVE FindFirst(_, _, _)
FindFirst(d, lo, hi) ==
  IF lo >= hi THEN hi
  ELSE LET mid == (lo + hi) \div 2
       IN  IF hasVersion(d, mid) THEN FindFirst(d, lo, mid) ELSE FindFirst(d, mid + 1, hi)

VersionExists(v) == firstVersion <= v /\ v <= latestVersion

(* Batches: sequences of writes and deletions.                             *)
Put(nk, e) == [key |-> nk, entry |-> <<e>>]
Del(nk) == [key |-> nk, entry |-> <<>>]

(* The database d after a batch: the last operation on a key counts.       *)
Written(d, batch) ==
  LET touched  == {batch[i].key : i \in DOMAIN batch}
      last(nk) == batch[CHOOSE i \in DOMAIN batch :
                          /\ batch[i].key = nk
                          /\ \A j \in DOMAIN batch : batch[j].key = nk => j <= i].entry
  IN  [nk \in (DOMAIN d \ touched) \cup {nk \in touched : last(nk) # <<>>} |->
         IF nk \in touched THEN last(nk)[1] ELSE d[nk]]

-----------------------------------------------------------------------------
(* The working tree.                                                       *)

WorkingVersion == version + 1

Set(k) ==
  /\ loaded /\ changes < MaxChanges /\ version < MaxVersion
  /\ root' = set(root, k, WorkingVersion).node
  /\ changes' = changes + 1
  /\ UNCHANGED <<disk, firstVersion, latestVersion, loaded, version, lastSaved, saved>>

Remove(k) ==
  /\ loaded /\ changes < MaxChanges /\ version < MaxVersion
  /\ remove(root, k).removed
  /\ root' = remove(root, k).node
  /\ changes' = changes + 1
  /\ UNCHANGED <<disk, firstVersion, latestVersion, loaded, version, lastSaved, saved>>

(* Mutant: the tree of the latest version, not of the one last saved.      *)
Rollback_Latest ==
  /\ loaded
  /\ root' = IF latestVersion > 0 THEN VersionTree(disk, latestVersion) ELSE NilNode
  /\ UNCHANGED <<disk, firstVersion, latestVersion, loaded, version, lastSaved, changes, saved>>

Rollback ==
  /\ loaded
  /\ root' = IF version > 0 THEN lastSaved ELSE NilNode
  /\ UNCHANGED <<disk, firstVersion, latestVersion, loaded, version, lastSaved, changes, saved>>

-----------------------------------------------------------------------------
(* SaveVersion.                                                            *)

(* recursiveAssignKey: new nodes get nonces in pre-order, after nonce.     *)
RECURSIVE AssignKeys(_, _, _)
AssignKeys(n, v, nonce) ==
  CASE n.nodeKey # NoNodeKey -> [node |-> n, nonce |-> nonce]
    [] n.nodeKey = NoNodeKey /\ isLeaf(n) ->
         [node |-> [n EXCEPT !.nodeKey = <<v, nonce + 1>>], nonce |-> nonce + 1]
    [] OTHER ->
         LET l == AssignKeys(n.left, v, nonce + 1)
             r == AssignKeys(n.right, v, l.nonce)
         IN  [node |-> [n EXCEPT !.nodeKey = <<v, nonce + 1>>, !.left = l.node, !.right = r.node],
              nonce |-> r.nonce]

(* The nodes of version v under n, in post-order, are written.             *)
RECURSIVE NodeWrites(_, _)
NodeWrites(n, v) ==
  CASE n.nodeKey[1] # v -> <<>>
    [] n.nodeKey[1] = v /\ isLeaf(n) -> <<Put(n.nodeKey, NodeEntry(n))>>
    [] OTHER -> NodeWrites(n.left, v) \o NodeWrites(n.right, v)
                  \o <<Put(n.nodeKey, NodeEntry(n))>>

(* What SaveVersion leaves in tree.root and in the batch.                  *)
SavedRoot == IF root = NilNode THEN NilNode ELSE AssignKeys(root, WorkingVersion, 0).node

SaveBatch ==
  CASE root = NilNode -> <<Put(RootKey(WorkingVersion), EmptyRoot)>>
    [] root # NilNode /\ root.nodeKey # NoNodeKey ->
         <<Put(RootKey(WorkingVersion), ReferenceRoot(root.nodeKey))>>
    [] OTHER -> NodeWrites(SavedRoot, WorkingVersion)

SaveNewVersion ==
  /\ loaded
  /\ version < MaxVersion
  /\ ~VersionExists(WorkingVersion)
  /\ root # NilNode /\ isLeaf(root) /\ root.nodeKey = NoNodeKey => "leafRoot" \in Hazards
  /\ disk' = Written(disk, SaveBatch)
  /\ latestVersion' = WorkingVersion
  /\ firstVersion' = IF firstVersion = 0 THEN FindFirst(disk', 0, WorkingVersion) ELSE firstVersion
  /\ version' = WorkingVersion
  /\ root' = SavedRoot /\ lastSaved' = SavedRoot
  /\ saved' = [v \in DOMAIN saved \cup {WorkingVersion} |->
                 IF v = WorkingVersion THEN Recorded(SavedRoot) ELSE saved[v]]
  /\ UNCHANGED <<loaded, changes>>

(* The hash of a node, without hash collisions.  The version of a node     *)
(* that is not saved yet is v.                                             *)
RECURSIVE Hash(_, _)
Hash(n, v) ==
  LET ver == IF n.nodeKey = NoNodeKey THEN v ELSE n.nodeKey[1]
  IN  IF isLeaf(n) THEN [key |-> n.key, value |-> n.value, version |-> ver]
      ELSE [left |-> Hash(n.left, v), right |-> Hash(n.right, v), version |-> ver]

SameHash(m, n, v) ==
  IF m = NilNode \/ n = NilNode THEN m = n ELSE Hash(m, v) = Hash(n, v)

SaveExistingVersion ==
  /\ loaded
  /\ VersionExists(WorkingVersion)
  /\ GetRoot(disk, WorkingVersion) # NoRoot
  /\ LET existing == VersionTree(disk, WorkingVersion)
     IN  /\ SameHash(existing, root, WorkingVersion)
         /\ root' = existing /\ lastSaved' = existing
  /\ version' = WorkingVersion
  /\ UNCHANGED <<disk, firstVersion, latestVersion, loaded, changes, saved>>

-----------------------------------------------------------------------------
(* Loading.                                                                *)

Load(target) ==
  LET v == IF target = 0 THEN latestVersion ELSE target
  IN  IF firstVersion = 0
      THEN target = 0 /\ UNCHANGED <<version, root, lastSaved>>
      ELSE /\ VersionExists(v)
           /\ GetRoot(disk, v) # NoRoot
           /\ version' = v
           /\ root' = VersionTree(disk, v) /\ lastSaved' = root'

LoadVersion(target) ==
  /\ Load(target)
  /\ loaded' = TRUE
  /\ UNCHANGED <<disk, firstVersion, latestVersion, changes, saved>>

(* LoadVersionForOverwriting: every node of a later version is deleted.    *)
LoadVersionForOverwriting(target) ==
  /\ Load(target)
  /\ target = 0 => "overwriteZero" \in Hazards
  /\ loaded' = TRUE
  /\ disk' = [nk \in {nk \in DOMAIN disk : nk[1] <= target} |-> disk[nk]]
  /\ latestVersion' = IF latestVersion > target THEN target ELSE latestVersion
  /\ saved' = [v \in {v \in DOMAIN saved : v <= target} |-> saved[v]]
  /\ UNCHANGED <<firstVersion, changes>>

(* The process ends, and another one opens the database.                   *)
Restart ==
  /\ latestVersion' = FindLatest(disk')
  /\ firstVersion' = FindFirst(disk', 0, FindLatest(disk'))
  /\ loaded' = FALSE
  /\ version' = 0 /\ root' = NilNode /\ lastSaved' = NilNode /\ UNCHANGED changes

Crash == UNCHANGED <<disk, saved>> /\ Restart

-----------------------------------------------------------------------------
(* DeleteVersionsTo.                                                       *)

(* The subtrees of n that were not changed after version prev, in the      *)
(* order in which the iterator over the current tree meets them.           *)
RECURSIVE Unchanged(_, _)
(* Mutant: the nodes of version prev itself count as changed.              *)
Unchanged_Strict(n, prev) ==
  CASE n = NilNode -> <<>>
    [] n # NilNode /\ n.nodeKey[1] < prev -> <<n>>
    [] n # NilNode /\ n.nodeKey[1] >= prev /\ isLeaf(n) -> <<>>
    [] OTHER -> Unchanged(n.left, prev) \o Unchanged(n.right, prev)

Unchanged(n, prev) ==
  CASE n = NilNode -> <<>>
    [] n # NilNode /\ n.nodeKey[1] <= prev -> <<n>>
    [] n # NilNode /\ n.nodeKey[1] > prev /\ isLeaf(n) -> <<>>
    [] OTHER -> Unchanged(n.left, prev) \o Unchanged(n.right, prev)

(* The walk over the previous tree: a node with the hash of the next       *)
(* unchanged subtree is skipped, with all that is under it; any other node *)
(* is an orphan.                                                           *)
RECURSIVE OrphanWalk(_, _)
OrphanWalk(n, unchanged) ==
  CASE n = NilNode -> [orphans |-> <<>>, unchanged |-> unchanged]
    [] n # NilNode /\ unchanged # <<>> /\ SameHash(n, Head(unchanged), 0) ->
         [orphans |-> <<>>, unchanged |-> Tail(unchanged)]
    [] n # NilNode /\ isLeaf(n) /\ ~(unchanged # <<>> /\ SameHash(n, Head(unchanged), 0)) ->
         [orphans |-> <<n>>, unchanged |-> unchanged]
    [] OTHER -> LET l == OrphanWalk(n.left, unchanged)
                    r == OrphanWalk(n.right, l.unchanged)
                IN  [orphans |-> <<n>> \o l.orphans \o r.orphans, unchanged |-> r.unchanged]

traverseOrphans(d, prev, cur) ==
  OrphanWalk(VersionTree(d, prev), Unchanged(VersionTree(d, cur), prev)).orphans

(* Mutant: a root that stands for another one is not deleted.              *)
Deletions_KeepsReference(d, v, orphans) ==
  LET orphanKey(n) == IF n.nodeKey[2] = 1 /\ n.nodeKey[1] < v
                      THEN <<n.nodeKey[1], 0>> ELSE n.nodeKey
      reformatted == IF GetRoot(d, v + 1) # RootKey(v) THEN <<>>
                     ELSE <<Del(RootKey(v)), Put(<<v, 0>>, d[RootKey(v)])>>
  IN  [i \in 1 .. Len(orphans) |-> Del(orphanKey(orphans[i]))] \o reformatted

(* Mutant: an orphan that the same batch has moved is deleted where it     *)
(* was.                                                                    *)
Deletions_Unmoved(d, v, orphans) ==
  LET reference == IF GetRoot(d, v) # RootKey(v) THEN <<Del(RootKey(v))>> ELSE <<>>
      reformatted == IF GetRoot(d, v + 1) # RootKey(v) THEN <<>>
                     ELSE <<Del(RootKey(v)), Put(<<v, 0>>, d[RootKey(v)])>>
  IN  [i \in 1 .. Len(orphans) |-> Del(orphans[i].nodeKey)] \o reference \o reformatted

(* deleteVersion(v), reading the database d.  The root of version v may    *)
(* have been moved by an earlier part of the batch, and if the next        *)
(* version has it too, it is moved now.                                    *)
Deletions(d, v, orphans) ==
  LET orphanKey(n) == IF n.nodeKey[2] = 1 /\ n.nodeKey[1] < v
                      THEN <<n.nodeKey[1], 0>> ELSE n.nodeKey
      reference == IF GetRoot(d, v) # RootKey(v) THEN <<Del(RootKey(v))>> ELSE <<>>
      reformatted == IF GetRoot(d, v + 1) # RootKey(v) THEN <<>>
                     ELSE <<Del(RootKey(v)), Put(<<v, 0>>, d[RootKey(v)])>>
  IN  [i \in 1 .. Len(orphans) |-> Del(orphanKey(orphans[i]))] \o reference \o reformatted

deleteVersion(d, v) == Deletions(d, v, traverseOrphans(d, v, v + 1))

(* The versions from..to are deleted with one batch, so that each of them  *)
(* reads the database as it was before.                                    *)
RECURSIVE PruneBatch(_, _, _)
PruneBatch(d, from, to) ==
  IF from > to THEN <<>> ELSE deleteVersion(d, from) \o PruneBatch(d, from + 1, to)

(* The nodes that deleteVersion gives the nonce 0 may or may not be the    *)
(* ones that the working tree holds: it depends on the node cache.         *)
RECURSIVE Renonced(_, _)
Renonced(n, nks) ==
  LET nk(m) == IF m.nodeKey \in nks THEN <<m.nodeKey[1], 0>> ELSE m.nodeKey
  IN  CASE n = NilNode -> NilNode
        [] n # NilNode /\ isLeaf(n) -> [n EXCEPT !.nodeKey = nk(n)]
        [] OTHER -> [n EXCEPT !.nodeKey = nk(n), !.left = Renonced(n.left, nks),
                              !.right = Renonced(n.right, nks)]

ReformattedKeys(batch) ==
  {RootKey(nk[1]) : nk \in {batch[i].key : i \in DOMAIN batch} \cap {<<v, 0>> : v \in 1 .. MaxVersion}}

(* All the roots it needs are there, or it fails.                          *)
DeleteVersionsTo(to) ==
  LET batch == PruneBatch(disk, firstVersion, to)
      renonced == ReformattedKeys(batch)
  IN  /\ loaded
      /\ 0 < firstVersion /\ firstVersion <= to /\ to < latestVersion
      /\ to >= version => "pruneLoaded" \in Hazards
      /\ \A v \in firstVersion .. to + 1 : GetRoot(disk, v) # NoRoot
      /\ disk' = Written(disk, batch)
      /\ firstVersion' = to + 1
      /\ \E aliased \in {{}, renonced} :
           root' = Renonced(root, aliased) /\ lastSaved' = Renonced(lastSaved, aliased)
      /\ saved' = [v \in {v \in DOMAIN saved : v > to} |-> saved[v]]
      /\ UNCHANGED <<latestVersion, loaded, version, changes>>

-----------------------------------------------------------------------------
(* A batch that passes the flush threshold writes itself out, and starts   *)
(* again, before the next write or deletion is added to it.  The process   *)
(* ends when some but not all of a batch is on disk.                       *)

CrashInSave ==
  /\ loaded
  /\ version < MaxVersion
  /\ ~VersionExists(WorkingVersion)
  /\ \E n \in 1 .. Len(SaveBatch) - 1 : disk' = Written(disk, SubSeq(SaveBatch, 1, n))
  /\ Restart
  /\ UNCHANGED saved

CrashInPrune ==
  LET batch == deleteVersion(disk, firstVersion)
  IN  /\ loaded
      /\ 0 < firstVersion /\ firstVersion < latestVersion /\ firstVersion < version
      /\ \E n \in 1 .. Len(batch) - 1 : disk' = Written(disk, SubSeq(batch, 1, n))
      /\ Restart
      /\ saved' = [v \in DOMAIN saved \ {firstVersion} |-> saved[v]]

(* The iterator over the current tree fails to load the children of a      *)
(* changed node, which ends it, and nobody asks it for its error: the      *)
(* unchanged subtrees after that node are not met.                         *)
RECURSIVE UnchangedBeforeError(_, _)
UnchangedBeforeError(n, prev) ==
  IF n = NilNode \/ n.nodeKey[1] <= prev \/ isLeaf(n) THEN {}
  ELSE {<<>>} \cup UnchangedBeforeError(n.left, prev)
         \cup {Unchanged(n.left, prev) \o s : s \in UnchangedBeforeError(n.right, prev)}

PruneWithReadError ==
  LET prev == firstVersion
  IN  /\ loaded
      /\ 0 < prev /\ prev < latestVersion /\ prev < version
      /\ GetRoot(disk, prev) # NoRoot /\ GetRoot(disk, prev + 1) # NoRoot
      /\ \E unchanged \in UnchangedBeforeError(VersionTree(disk, prev + 1), prev) :
           disk' = Written(disk, Deletions(disk, prev,
                     OrphanWalk(VersionTree(disk, prev), unchanged).orphans))
      /\ firstVersion' = prev + 1
      /\ saved' = [v \in DOMAIN saved \ {prev} |-> saved[v]]
      /\ UNCHANGED <<latestVersion, loaded, version, root, lastSaved, changes>>

-----------------------------------------------------------------------------
(* The tree that setting the keys in ks in ascending order builds.         *)
RECURSIVE Ascending(_)
Ascending(ks) ==
  IF ks = {} THEN NilNode
  ELSE LET last == CHOOSE k \in ks : \A x \in ks : x <= k
       IN  set(Ascending(ks \ {last}), last, 1).node

(* A new process and a database that is empty or has version 1.            *)
Init ==
  /\ \E keys \in Starts :
       LET tree == AssignKeys(Ascending(keys), 1, 0).node
       IN  IF keys = {}
           THEN disk = <<>> /\ saved = <<>> /\ latestVersion = 0
           ELSE /\ disk = Written(<<>>, NodeWrites(tree, 1))
                /\ saved = <<Recorded(tree)>> /\ latestVersion = 1
  /\ firstVersion = latestVersion
  /\ loaded = FALSE /\ version = 0 /\ changes = 0
  /\ root = NilNode /\ lastSaved = NilNode

Next ==
  \/ \E k \in Keys : Set(k) \/ Remove(k)
  \/ Rollback \/ SaveNewVersion \/ SaveExistingVersion \/ Crash
  \/ \E v \in 0 .. MaxVersion :
       LoadVersion(v) \/ LoadVersionForOverwriting(v) \/ DeleteVersionsTo(v)

Spec == Init /\ [][Next]_vars

(* As Spec, with batches that pass the flush threshold.                    *)
SaveSplitSpec == Init /\ [][Next \/ CrashInSave]_vars
PruneSplitSpec == Init /\ [][Next \/ CrashInPrune]_vars

(* As Spec, with a read error while a version is pruned.                   *)
ReadErrorSpec == Init /\ [][Next \/ PruneWithReadError]_vars

-----------------------------------------------------------------------------
(* TypeOK: the database has nodes under their keys and the working tree is *)
(* one that could be saved.                                                *)
TypeOK ==
  /\ \A nk \in DOMAIN disk :
       /\ nk[1] \in 1 .. MaxVersion /\ nk[2] \in Nat
       /\ disk[nk].kind \in {"leaf", "inner", "empty", "ref"}
  /\ firstVersion \in 0 .. MaxVersion /\ latestVersion \in 0 .. MaxVersion
  /\ version \in 0 .. MaxVersion /\ changes \in 0 .. MaxChanges
  /\ loaded \in BOOLEAN
  /\ DOMAIN saved \subseteq 1 .. MaxVersion

(* VersionsReadable: every version that was saved and neither pruned nor   *)
(* overwritten can be read from disk, with the contents and the nodes that *)
(* it was saved with.                                                      *)
VersionsReadable ==
  \A v \in DOMAIN saved :
    /\ GetRoot(disk, v) # NoRoot
    /\ Recorded(VersionTree(disk, v)) = saved[v]

(* VersionsFound: a process that opened the database now would find the    *)
(* versions that exist, no fewer and no more: getLatestVersion, which      *)
(* looks for the largest node key, and getFirstVersion, which searches for *)
(* a root, are not misled by nodes that older versions left behind.        *)
VersionsFound ==
  LET latest == FindLatest(disk)
      first  == FindFirst(disk, 0, latest)
  IN  {v \in first .. latest : v > 0} = DOMAIN saved

(* Stray nodes: keys in the database that no version needs.                *)
NoStrayNodes ==
  DOMAIN disk \subseteq
    UNION {{n.nodeKey : n \in Nodes(VersionTree(disk, v))} \cup {RootKey(v)} : v \in DOMAIN saved}

(* The walk that compares two consecutive versions finds the nodes of the  *)
(* first that the second does not have, each one once.                     *)
OrphansExact ==
  \A v \in DOMAIN saved : v + 1 \in DOMAIN saved =>
    LET orphans  == traverseOrphans(disk, v, v + 1)
        hashes(w) == {Hash(n, 0) : n \in Nodes(VersionTree(disk, w))}
    IN  /\ {Hash(orphans[i], 0) : i \in DOMAIN orphans} = hashes(v) \ hashes(v + 1)
        /\ Len(orphans) = Cardinality(hashes(v) \ hashes(v + 1))
=============================================================================
