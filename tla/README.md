# IAVL in TLA+

A verification development for the IAVL+ tree: a versioned, self-balancing
Merkle tree over a key-value store, and its second version over SQLite. TLC
model-checks the modules on small instances; TLAPS proves the central safety
properties for every value of the constants.

## The system

Version 1 (the root package). A `MutableTree` changes its working tree in
memory. `SaveVersion` gives the new nodes keys `(version, nonce)` and writes
them, the root key `(version, 1)` and the changes of the fast index in one
batch. A new process finds the versions from the node keys. `DeleteVersionsTo`
compares each version with the next one and deletes what only the older one has;
a root that lives on moves to `(version, 0)`. Reads go to the unsaved changes, to
the fast index (through a cache) or to the tree, depending on the version and on
the storage version label. A database may begin with versions in an older
format, whose nodes are stored under their hashes and which a goroutine deletes
when they are pruned. Versions can be exported, imported, compared and proved.

Version 2 (`v2/`). A tree changes nodes in place, writes leaves to a change log
in every version and branches only in checkpoints, and rebuilds other versions by
replaying the log. Two background loops write and prune. A multi tree saves many
trees concurrently.

| part | source | modules |
| --- | --- | --- |
| working tree: insertion, removal, rotation, lookups | `mutable_tree.go`, `node.go` | `AVLTree`, `MCAVLTree`, `OrderedMap` |
| versions: `SaveVersion`, `LoadVersion`, `LoadVersionForOverwriting`, `Rollback` | `mutable_tree.go`, `nodedb.go` | `NodeDB`, `VersionedMap` |
| pruning: `DeleteVersionsTo`, `deleteVersion`, `traverseOrphans` | `nodedb.go`, `iterator.go` | `NodeDB`, `Pruning` |
| old format and its deletion in the background | `nodedb.go`, `mutable_tree.go` | `Legacy` |
| fast index: fast nodes, storage version, unsaved changes | `mutable_tree.go`, `immutable_tree.go`, `nodedb.go` | `FastStorage` |
| cache of fast nodes, shared by a writer and readers | `cache/cache.go`, `nodedb.go` | `FastCache` |
| exporter, version readers, importer | `export.go`, `import.go`, `nodedb.go` | `Transfer` |
| iterators, merge with unsaved changes | `iterator.go`, `fast_iterator.go`, `unsaved_fast_iterator.go`, `v2/iterator.go` | `Iteration` |
| ICS 23 proofs | `proof*.go` | `MerkleProofs` |
| state changes between versions | `diff.go` | `StateDiff` |
| what is in an export, compression, snapshots | `import.go`, `compress.go`, `v2/snapshot.go` | `Interchange` |
| v2 tree: changes in place, checkpoints, replay, eviction | `v2/tree.go`, `v2/node.go`, `v2/sqlite.go` | `TreeV2` |
| v2 writer loops, pruning, crashes | `v2/sqlite_writer.go`, `v2/sqlite.go` | `SqlWriter` |
| v2 multi tree | `v2/multitree.go` | `MultiTree` |

The batch that writes itself out at a threshold (`batch.go`) is in the modules
that write with one: as batches cut by a crash in `NodeDB` and `FastStorage`, and
as an early commit in `Legacy`.

Not modelled: options, logging, dot graphs, metrics, the command line tools,
migrations, and the adapters to key-value stores, which hold no state of the
tree; the bytes of keys and nodes, of which the models keep what is stored and
not how; connections and settings of SQLite; generated code.

## The modules

Operators keep the names of the functions they model. `PROJECT.json` maps each
definition to its lines. Operators named `Name_Bug` are mutants: definitions that
a plausible slip would leave in the place of `Name`. Nothing uses them; each one
breaks the property it is paired with in `PROJECT.json`.

* `AVLTree`: trees as records; `set`, `remove`, `balance`, the rotations and the
  lookups as operators. `MCAVLTree` is the state machine of `Set` and `Remove`,
  `OrderedMap` what it promises. `call` records each call with its answer, so that
  a lost update is not mistaken for a step that changes nothing.
* `NodeDB`: `disk` is the database, a function from node keys to entries as
  `Node.writeBytes` leaves them. One action per call of `MutableTree`; a call that
  fails changes nothing and is no action. `saved` is a history variable: what each
  version was saved with. Batches are sequences of writes, so that they can be cut
  (`CrashInSave`, `CrashInPrune`). Hashes are structural: no collisions.
  `MCNodeDB` has the refinements. `VersionedMap` is the promise of a
  `MutableTree`: a working map and an interval of immutable versions.
* `Pruning`: the keys of the database only. A version is the set of its nodes.
  `MCNodeDB!ImplementsPruning` says that `NodeDB` does to its keys what this
  module says, and `PruningProofs` is about this module.
* `Legacy`: a database that began with versions in the old format. A tree is the
  set of old nodes it uses, and which of them it finds under a rewritten key: an
  unchanged version refers to the copy, while a changed one that keeps the node as
  a leaf finds it by its hash. A deletion may meet such a leaf in the node cache,
  as the object that `SaveVersion` changed, and then deletes both keys.
  `deleteLegacyVersions` is a goroutine that fills the batch of the writer record
  by record; the process may end at any time. The history variable `clean` says
  that no process ended, and no call pruned exactly up to the last old version,
  before the deletion of old versions was done and committed.
* `FastStorage`: versions, index, label and unsaved changes, with a tree reduced
  to what it holds. A call that commits several times is several actions
  (`phase`), and a process may end between them or inside a rebuild.
* `FastCache`: the same index with its LRU cache, and readers of immutable trees
  beside the writer. Each step is what happens under one hold of `ndb.mtx`.
* `Transfer`: the goroutine of an `Exporter` with its channel, `DeleteVersionsTo`
  beside it, and an `Importer` whose batches are written by goroutines and may
  fail. The nodes of the version are numbers in post-order.
* `Iteration`, `MerkleProofs`, `StateDiff`, `Interchange`: algorithms on trees as
  operators; `MCTrees` builds trees by `Set`, `Remove` and `SaveVersion` and
  compares each algorithm with a definition of what it is for.
* `TreeV2`: the v2 tree in memory (with nodes that are loaded when needed), the
  two databases, `SaveVersion`, `LoadVersion` with its replay, pruning, restarts.
  `MCTreeV2` runs the tree of version 1 beside it and compares hashes.
* `SqlWriter`: the two loops, their unbuffered channels and transactions, at the
  grain of one row for pruning and of what is committed together for saving: a
  save whose rows reach the batch size commits in parts (`SaveSomeLeaves`,
  `SaveSomeBranches`), at any place here. What is written and what is committed
  are separate variables, and a crash keeps the latter.
* `MultiTree`: goroutines per tree, `doneCh` and `errorCh`, and the collecting
  loops of the four concurrent calls.

### Hazards as a constant

Some patterns of use break the code (see the findings below). `Hazards` says
which of them a behaviour may contain. The passing runs have `Hazards = {}`, and
so have the theorems about these modules; the results say nothing about uses
with these patterns.

| module | hazard | what it allows |
| --- | --- | --- |
| `NodeDB` | `leafRoot` | saving a version whose root is a new leaf, that is, a tree of one key |
| `NodeDB` | `pruneLoaded` | pruning the version the working tree is based on |
| `NodeDB` | `overwriteZero` | `LoadVersionForOverwriting(0)` |
| `Legacy` | `gap` | a rollback over old versions that the older release had pruned |
| `Legacy` | `rewritten` | a rollback below a version that rewrote an old root |
| `Legacy` | `sameVersion` | two old nodes of one version written again under the same key |
| `FastStorage` | `upgradeOld` | an upgrade of the index while an older version is loaded |
| `FastStorage` | `restamp` | a process without the index makes the labelled version the latest again |
| `FastStorage` | `reload` | `LoadVersion` with unsaved changes |
| `FastCache` | `unsettled` | a read that goes to the index for a key that the save under way changes |
| `FastCache` | `overwrite` | `LoadVersionForOverwriting` while a `Get` is under way |
| `Transfer` | `lateExport` | an export that begins between the check for readers and the deletion |
| `SqlWriter` | `memoryCheckpoint` | a checkpoint that was decided by memory use, which a replay does not repeat |
| `SqlWriter` | `rootAhead` | loading a version while the tree database has the root of a later one |
| `SqlWriter` | `emptyCheckpoint` | a checkpoint of an empty tree |
| `SqlWriter` | `lowerPrune` | a prune to a lower version than the one before |
| `SqlWriter` | `revertUnsharded` | `Revert` of a database without shards to a version that a checkpoint followed |
| `TreeV2` | `setTwice` | setting a key twice in a version |
| `TreeV2` | `removeChanged` | removing a key that was set in the same version |
| `TreeV2` | `fewKeys` | versions with fewer than two keys |
| `MultiTree` | `MayFail` | calls, out of four, that may fail for a tree; the run and the theorems have `{"snapshot"}` |

A database that never held a single key by itself is a real restriction: a tree
that grows from nothing avoids it only by setting two keys before the first
`SaveVersion`. Batches that pass the flush threshold and read errors in the
orphan walk are likewise excluded from `Spec` of `NodeDB`; they are in
`SaveSplitSpec`, `PruneSplitSpec` and `ReadErrorSpec`, and in `SplitSpec` of
`FastStorage`. The exception is a rebuild of the fast index, whose partial
batches are in `Spec`.

## The runs

| run | module | bounds | checks |
| --- | --- | --- | --- |
| `avl` | `MCAVLTree` | 7 of 13 keys, 2 values, from an empty tree and from the sparsest tree of thirteen keys | `LookupsAgree`, `WellFormed`, refinement of `OrderedMap` |
| `nodedb` | `MCNodeDB` | 5 keys, 4 versions, 2 changes, from an empty database and from version 1 with two to four keys | `VersionsReadable`, `VersionsFound`, `PruningExact`, refinement of `VersionedMap`, step simulation of `Pruning` |
| `pruning` | `Pruning` | 4 versions, 3 nonces | `NothingLost`, `NothingLeaked`, `RootsMarkVersions` |
| `legacy` | `MCLegacy` | 2 old versions, 4 in all, trees of two leaves | `VersionsReadable`, `LegacyGone`, `CallsAreRight` |
| `fast` | `MCFastStorage` | 2 keys, 2 values (symmetric), 3 versions | `IndexIsLive`, `ReadsAgree`, `GetVersionedAgrees` |
| `fast_cache` | `MCFastCache` | 2 keys, 2 values, 3 versions, cache of one, 2 readers (symmetric) | `CacheIsIndex`, `ReadsAreTrue` |
| `writer` | `SqlWriter` | 2 keys, 4 versions that change one key or none (`MaxChanges`), checkpoint interval 2, 2 prunes or crashes | `ReturnedVersionsLoadable`, `WorkingTreeReadable`, `BranchesAccountedFor`, `ComesToRest` |
| `v2tree` | `MCTreeV2` | 5 keys, 4 versions, interval 3, 2 calls after version 1 | `ReadsAgree`, `SavedVersionsLoad`, `BranchesExact`, `SameHashAsV1` |
| `multitree` | `MultiTree` | 3 trees, 4 calls, interval 3 | `CallsJoin`, `ResultsAreTrue`, `CheckpointsTogether`, `CallsReturn` |
| `transfer` | `MCTransfer` | nine nodes, channel of two, batches of two or three | `ExportIsWhole`, `NothingDeletedUnderAReader`, `OneBatchAtMostMissing`, `TransferEnds` |
| `trees` | `MCTrees` | 5 keys with shared prefixes, 2 versions, 2 changes after the first | `IterationInOrder`, `ProofsVerify`, `ChangesReplay`, `ImportRebuilds`, `SnapshotsRestore` |
| `leaf_root_lost` | `MCNodeDB` | 3 keys, 4 versions, `Hazards = {"leafRoot"}` | `VersionsReadable`, which is violated |

Each module also has its `TypeOK`. The runs leave it out where it says no more
than types; it can be added to any of the configurations.

Why the bounds are enough to be interesting. The tree of thirteen keys that `avl`
begins with is the highest of its size; removing its largest key rotates at two
levels, which no smaller tree does. Four versions allow a root to be shared by
two versions, moved by one deletion and orphaned by a later one in the same
batch. Three nonces allow a version with a new root and other new nodes. Two old
versions and two new ones let an old root be rewritten, shared and outlived by
its copy, with the goroutine at any point of its two loops. Two keys in the index
let a rebuild be cut between them, and two values make an entry stale while its
key is present; a cache of one evicts on every second key. Interval 2 with four
versions gives a checkpoint to prune, a version to replay and a prune that the
next save interrupts; two events give a prune and a crash, or two of either. A
version that changes both keys is beyond the five minutes of `writer` with four
versions; with three versions and `MaxChanges = 2` TLC finds no error, and the
theorems are for any number. In
`v2tree`, interval 3 puts a replay of more than one version between checkpoints,
and all branches leave memory. Nine nodes fill the channel and more than two
batches, and two batches that fail are more than one. `MaxChanges`, `MaxCalls` and
`MaxEvents` bound nothing but the changes and calls they name. The run of `MCAVLTree` uses the tree as its view: states that differ only
in `call` count once. That is sound because no step reads `call`, and every step,
with its answer, is still compared with the map.

Fairness is weak fairness of goroutines, which the scheduler of Go gives to a
goroutine that can run: `TreeStep` and `LeafStep` of `SqlWriter`, `RoutineStep` and
`CallStep` of `MultiTree`, and the exporter, the consumer, the pruner and the
writing of batches in `Transfer`. Of callers two things are assumed, both in
`Transfer`: whoever reads an export goes on reading or gives up, and whoever calls
`DeleteVersionsTo` and is refused because of a reader calls again, since
`TransferEnds` says that the version can be deleted in the end. No save, other
prune, crash or giving up has to happen. `ComesToRest`, `CallsReturn` and `TransferEnds`
say that what was begun ends.

### Findings

The run `leaf_root_lost` expects a violation: a leaf root is moved by a prune while
a later version points to it. `docs/overview.md` says that an orphaned node stays
as long as a version contains it.

The models show more of the same kind. To see one, give the configuration in the
table, or the run of the module with the change. The counterexamples are TLC's;
none was replayed against the Go code.

| configuration or change | violated | what happens |
| --- | --- | --- |
| `MCNodeDB` with `Hazards = {"leafRoot"}` | `VersionsFound`, `PruningExact` | a pruned version with a single key is found again by the next process; a leaf that was once a root is never deleted |
| `MCNodeDB` with `Hazards = {"pruneLoaded"}`, `Starts = {{1, 2}}` | `ImplementsVersionedMap` | a version that exists is saved over |
| `MCNodeDB` with `Hazards = {"overwriteZero"}`, `Starts = {{1, 2}}` | `VersionsReadable` | the nodes of the tree just loaded are deleted |
| `NodeDBSaveSplit.cfg` | `VersionsFound` | part of a version is taken for the version |
| `NodeDBReadError.cfg` | `VersionsReadable` | a failed read lets shared nodes be deleted |
| `MCNodeDB` with `SPECIFICATION PruneSplitSpec`, `Starts = {{1, 2}}` | `VersionsReadable` | a root is deleted and not yet written to its new place |
| `MCLegacy` with `Hazards = {"gap"}`, `LegacyVersions = 3`, `MaxVersion = 5` | `LegacyGone` | nodes of old versions below the rollback stay in the database |
| `MCLegacy` with `Hazards = {"rewritten"}` | `VersionsReadable`, `CallsAreRight` | a copy of an old root that a rollback left behind is taken for the latest version |
| `MCLegacy` with `Hazards = {"sameVersion"}` | `VersionsReadable` | one rewritten root replaces another at `(version, 0)` |
| `MCLegacy` with the conjunct `clean` removed from the property | `CallsAreRight`, `LegacyGone` | a process that ends before the deletion of old versions is committed leaves roots behind, and `DeleteVersionsTo` fails from then on |
| `MCLegacy` with the exception for kept roots removed from `LegacyGone` | `LegacyGone` | version 3 has only the last old leaf as its root, which is rewritten; version 4 keeps the leaf and finds it by its hash; `DeleteVersionsTo(3)` deletes neither, and the copy of the root is never deleted |
| `FastUpgradeOld.cfg` | `IndexIsLive` | the index of an old version is labelled as the latest |
| `FastRestamp.cfg` | `ReadsAgree` | a stale index has the right label |
| `MCFastStorage` with `Hazards = {"reload"}` | `ReadsAgree` | unsaved changes outlive the tree they belong to |
| `MCFastStorage` with `SPECIFICATION SplitSpec` | `ReadsAgree` | part of an index has the label of the version before |
| `FastCacheRace.cfg` | `ReadsAreTrue` | a `Get` of an older version, between the commit of a removal and the update of `latestVersion`, returns nil; or an entry that is being replaced is put back into the cache |
| `SqlWriter` with `Hazards = {"memoryCheckpoint"}` | `ReturnedVersionsLoadable` | a version is pruned that a later one needs for its replay |
| `SqlWriter` with `Hazards = {"rootAhead"}` | `WorkingTreeReadable` | the next save finds a root of a version that was given up |
| `SqlWriter` with `Hazards = {"emptyCheckpoint"}` | `BranchesAccountedFor` | branches stay in the database for ever |
| `SqlWriter` with `Hazards = {"revertUnsharded"}` | `BranchesAccountedFor` | `Revert` deletes roots and orphans after the version and no branches (`v2/sqlite.go:829` is an empty case), so that they stay for ever |
| `MCTreeV2` with `RemoveReturnsTheValue` | itself | the removed value is lost if the leaf was loaded without it (the comment at `v2/tree.go:483` promises it) |
| `MCTreeV2` with one of its hazards | `SavedVersionsLoad` | the replay of the version refuses the sequence of a leaf or finds another hash |
| `MultiTree` with `MayFail = {"save"}`, `{"warm"}` or `{"import"}` | `CallsJoin`, `ResultsAreTrue` | a call leaves goroutines or messages behind for the next one |
| `ImportAborted.cfg` | `AbortedImportInvisible` | an import that was given up leaves nodes that make the database unreadable (the comment at `import.go:106` says they are not visible) |
| `ImportFlush.cfg` | `CommitFlushesEverything` | `Commit` returns no error although the last batch was not written, as `Close` drops its error (the comment at `import.go:188` says that it flushes any outstanding nodes) |
| `ImportIndex.cfg` | `CommitIndexesEverything` | the fast index is built while the last batch is still being written |
| `MCTransfer` with `Hazards = {"lateExport"}` | `NothingDeletedUnderAReader` | an export begins after the check for readers |

An import can thus end with its root in the database and nodes missing, because
the process ends, or a write fails, while the root is written and the batch before
it is not. `OneBatchAtMostMissing` is what holds at all times without exception: one
batch is all that can be missing.

## The theorems

TLAPS proves the following for every value of the constants that satisfies the
named assumptions of the modules, and under the assumption given here. The bounds
of the runs (`MaxVersion` and the like) are constants too: the theorems hold for
each of them. Every theorem is reduced to an inductive invariant, which the
property alone is not; each was checked with TLC, as an invariant of the run of
its module (with three versions for `SqlWriter`), before it was proved.

| module | assumed | proved |
| --- | --- | --- |
| `PruningProofs` | that no changed version keeps the root of the one before as a leaf: the guard `n[2] # 1` of `SaveNewNodes` has the exclusion of `leafRoot` built in | `NothingLost`, `NothingLeaked`, `RootsMarkVersions` |
| `FastStorageProofs` | `Hazards = {}` | `IndexIsLive`, `ReadsAgree`, `GetVersionedAgrees`, and that `FastStorage` implements `VersionedMap` |
| `FastCacheProofs` | `Hazards = {}` | `CacheIsIndex`, `ReadsAreTrue` |
| `MultiTreeProofs` | `MayFail` has no call but `snapshot` | `CallsJoin`, `ResultsAreTrue`, `CheckpointsTogether` |
| `TransferProofs` | `Hazards = {}` | `NothingDeletedUnderAReader`, `ExportIsWhole`, `OneBatchAtMostMissing`, `CommitFindsRoot` |
| `SqlWriterRows`, `SqlWriterSteps`, `SqlWriterProofs` | `Hazards = {}` | `TypeOK`, `ReturnedVersionsLoadable`, `WorkingTreeReadable`, `BranchesAccountedFor` |

* `PruningProofs`. What makes it safe to look at two adjacent versions only is
  `SharedSinceCreation`: a node is in every version from the one that created it
  to the last that has it. `OneRoot` keeps moved roots apart from other nodes, and
  `KeysExact` says which keys the database has, by their kind; the three
  properties follow from it. That the calls of `NodeDB` take only steps of
  `Pruning` is checked by TLC (`ImplementsPruning`), step by step; deleting
  several versions in one batch is not a step of `Pruning`, and `PruningExact`
  covers it.
* `FastStorageProofs`. The invariant says what a label promises (`ExactInv`: the
  values of the index are those of the latest version, and each has been the same
  since the version noted beside it), where the working tree is in each phase, and
  that the unsaved changes are exactly the difference between the working tree and
  its version. The refinement maps the working map to what `Get` returns and the
  versions to what `GetVersioned` returns; `SeenIsHeld` makes that the contents of
  the trees, and `Simulation` has one step per action. TLC agrees on the instance
  of the run `fast`, but needs ten minutes for it, so that it is not among the
  properties of the run.
* `FastCacheProofs`. The invariant separates the keys that the call under way has
  written from the others. For the others, the cache holds the entry of the index
  or none, and the entry is true for all versions from the one noted in it;
  `Saved` and `Rebuilt` say what is known of the rest during a save and a rebuild.
  `Reading` carries what a reader has found across the steps of the writer.
* `MultiTreeProofs`. `Counting` equates the goroutines and messages of a call with
  the messages its loop still waits for, which takes the theorems on finite sets.
  `Together` and `Checkpoints` say that a tree that has not run yet is one version
  behind, and that the wish for a checkpoint reaches every goroutine. The theorem is
  about the checkpoints that the `MultiTree` wants when a save begins; a tree may
  checkpoint on its own as well.
* `TransferProofs`. The nodes are numbers in post-order, and `TreeAssumption` says
  that the heights are those of a binary tree. The exporter's stack is a chain: what
  it still has to visit is exactly the numbers after those it has sent
  (`Ordered`), so an export is the sequence from one to the root. The importer's
  stack is a chain of adjacent subtrees that cover what was added (`Stacked`), so
  that `Commit` finds one node. `Accounted` follows every node from the stack to
  the batch, to the batch in flight, to the disk; the root is the last of them, so
  that what is missing below it is in the batch in flight. `Sized` bounds that one
  with the theorems on finite sets: `writeNode` hands a batch over as soon as it is
  full.
* `SqlWriterRows`, `SqlWriterSteps` and `SqlWriterProofs`. Without the hazards the
  checkpoints are known beforehand (`Scheduled`: every `Interval`-th version), and
  a replay repeats them; each hazard is a way out of that schedule, or a prune that
  does not go forward, and TLC shows with the hazard that the property then fails.
  `Scripts` says how the contents of successive versions are related: a subtree is
  in all versions from the one that wrote it up to any that has it. The rest of
  `IInv` compares the rows with the contents. Every row is true; the rows that the
  versions from `kept` to the last one written need are there, where the last one
  written differs for leaves, branches and roots while a save is under way
  (`LeafTop`, `BranchTop`, `RootTop`); and all of this holds of the committed rows
  as well as of those in an open transaction, since the process may end at any
  time. `Passed` is why a prune, however late it runs, meets no row that is needed:
  no checkpoint lies between the oldest version kept and the one pruned. `Stock`
  accounts for every branch of an unsharded database, also those of a checkpoint
  whose save did not end or was reverted before it left rows. `SqlWriterRows` proves that `IInv` holds at the start and
  what each way of writing does to the rows, `SqlWriterSteps` that the steps of the
  two loops keep `IInv`, and `SqlWriterProofs` the same for the caller's calls and
  for restarts, and that the properties follow; for `ReturnedVersionsLoadable` this
  takes the proof that the replay of a true and complete log from the last
  checkpoint gives the contents of the version. That property has an exception: a
  save that falls into a prune writes its root in the transaction of the prune, so
  the latest versions are lost if the process ends before the prune commits.

### What only TLC checks

* Liveness: `ComesToRest`, `CallsReturn`, `TransferEnds`. They need fairness.
* The algorithms on trees (`AVLTree`, `Iteration`, `MerkleProofs`, `StateDiff`,
  `Interchange`) and the modules built on them (`NodeDB`, `TreeV2`). What they
  compute takes induction over trees, and they use recursive operators.
* `Legacy`, for which no inductive invariant has been worked out.

## Abstractions to know about

* A value in `NodeDB` is the version that wrote it: two versions never write the
  same value for different reasons, and a leaf that is written again is a new leaf.
* `NodeDB` has no `InitialVersion` option and no `SaveVersion` on a tree that was
  never loaded.
* The node cache of version 1 is left out. Where it matters, both outcomes are
  allowed: the node of a moved root that the working tree refers to may be the
  object that the deletion changed, or another one.
* A batch below the flush threshold is atomic, and so is a call that only reads,
  except where a module says otherwise.
* Old and new nodes of `Legacy` are sets without structure; a new node matters only
  through the old ones below it.
* In `SqlWriter` a key stands for a subtree with one branch and its leaves. Rows
  are sets: the sequence numbers of node keys, and rows written twice because the
  index of a tree table is not unique, are left out.
* In `MCTrees` a value is the version that wrote it, so `Set` of the value a key
  already has does not occur there, and `ChangesReplay` says nothing of it.
* Hashes are functions of the tree. That `node.go` keeps them in the node with the
  version current at the time, and that `SetInitialVersion` after `WorkingHash` can
  leave an old one, is not modelled.
* `Transfer` moves a version with nodes whose root is its own. The empty version and
  the reference to the root of an earlier version, which `Commit` writes beside the
  nodes, are left out, and `NodeDB` has no references in the form used before lazy
  pruning.
* `WriteSnapshot` in post-order stores a leaf in the leaf table under the sequence
  of its node key plus one; `SnapshotsRestore` therefore asks for leaves under their
  own keys in pre-order only.
* Errors of the databases are modelled where the code does something other than
  return them: in the orphan walk of `NodeDB`, in the batches of an import, and as
  the calls of `MultiTree` that may fail.
