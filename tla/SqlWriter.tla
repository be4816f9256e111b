----------------------------- MODULE SqlWriter -----------------------------
(***************************************************************************)
(* The writer of the v2 tree.  SaveVersion hands its work to two           *)
(* goroutines over unbuffered channels: treeLoop writes branches, orphans  *)
(* and roots to one database, leafLoop writes leaves, deletions and leaf   *)
(* orphans (the change log) to another.  Both also prune in the            *)
(* background, a row at a time, and are interrupted by the next save.  The *)
(* process may end at any point; the next one loads the last checkpoint    *)
(* and replays the change log.                                             *)
(*                                                                         *)
(* A key of this module stands for a subtree with one branch and its       *)
(* leaves, and <<v, k>> for the nodes of k that version v wrote.  The      *)
(* root row holds the root itself.  Sequence numbers are in TreeV2.        *)
(***************************************************************************)
EXTENDS Integers, FiniteSetsExt

CONSTANTS
  Keys,
  Interval,     \* TreeOptions.CheckpointInterval
  MaxVersion,   \* bound: no later version is saved
  MaxChanges,   \* bound: keys that one version changes
  MaxEvents,    \* bound: calls of DeleteVersionsTo, and times the process ends
  Hazards       \* the patterns of use, out of HazardNames, that may happen

HazardNames == {"memoryCheckpoint", "rootAhead", "emptyCheckpoint", "lowerPrune", "revertUnsharded"}

ASSUME IntervalAssumption == Interval \in Nat \ {0}
ASSUME BoundsAssumption == MaxVersion \in Nat \ {0} /\ MaxChanges \in Nat /\ MaxEvents \in Nat
ASSUME HazardsAssumption == Hazards \subseteq HazardNames

VARIABLES
  shardTrees,   \* SqliteDbOptions.ShardTrees
  treeDb,       \* the tree database as its writer sees it
  treeDisk,     \* what of it is committed
  leafDb,       \* the change log as its writer sees it
  leafDisk,     \* what of it is committed
  pc,           \* where the caller of SaveVersion or DeleteVersionsTo is
  tree,         \* the fields of Tree that outlive a call
  sig,          \* the saveSignal or pruneSignal under way
  treeLoop,     \* the local variables of treeLoop
  leafLoop,     \* the local variables of leafLoop
  script,       \* history: the content of every version that was attempted
  returned,     \* history: the last version whose SaveVersion returned
  kept,         \* history: the oldest version that must stay loadable
  events        \* calls of DeleteVersionsTo, and ends of the process, so far

dbs == <<treeDb, treeDisk, leafDb, leafDisk>>
history == <<script, returned, kept, events, shardTrees>>
vars == <<dbs, pc, tree, sig, treeLoop, leafLoop, history>>

-----------------------------------------------------------------------------
(* VersionRange, as the set of its versions.                               *)

FindPrevious(vs, v) == IF \E c \in vs : c <= v THEN Max({c \in vs : c <= v}) ELSE -1
Find(vs, v) == IF \E c \in vs : c >= v THEN Min({c \in vs : c >= v}) ELSE -1
Last(vs) == IF vs = {} THEN -1 ELSE Max(vs)

(* The rows f after INSERT OR REPLACE of the row of v.                     *)
Insert(f, v, row) == [u \in DOMAIN f \cup {v} |-> IF u = v THEN row ELSE f[u]]

(* loadCheckpointRange.                                                    *)
Checkpoints(db) == {v \in DOMAIN db.roots : db.roots[v].checkpoint}

(* Trees: for each key the version that wrote its nodes, 0 if it is absent.*)
Contents == [Keys -> 0 .. MaxVersion]
Present(c) == {k \in Keys : c[k] # 0}
Nodes(c, ks) == {<<c[k], k>> : k \in ks}

(* getShard: the shard in which a branch of version v is looked up.        *)
getShard(db, v) == IF shardTrees THEN Find(db.shards, v) ELSE Max(db.shards)

HasBranch(db, n) == <<getShard(db, n[1]), n>> \in db.branches

(* replayChangelog, for one key: what the rows after version p and up to v *)
(* make of it.                                                             *)
Replayed(ldb, c, p, v, k) ==
  LET us == {u \in p + 1 .. v : <<u, k>> \in ldb.leaves \cup ldb.deletes}
  IN  IF us = {} THEN c[k] ELSE IF <<Max(us), k>> \in ldb.leaves THEN Max(us) ELSE 0

(* LoadVersion succeeds and yields a tree all of whose nodes can be read.  *)
Loadable(tdb, ldb, v) ==
  LET p == FindPrevious(Checkpoints(tdb), v)
  IN  /\ v \in DOMAIN tdb.roots /\ p # -1
      /\ LET c == tdb.roots[p].content
         IN  /\ \A n \in Nodes(c, Present(c)) : HasBranch(tdb, n)
             /\ tdb.roots[v].content = [k \in Keys |-> Replayed(ldb, c, p, v, k)]
      /\ LET c == tdb.roots[v].content IN Nodes(c, Present(c)) \subseteq ldb.leaves

-----------------------------------------------------------------------------
(* The process, from a fresh database whose version 1 has been saved.      *)

NoSignal == [kind |-> "none"]

IdleLoop == [pc |-> "select", prune |-> 0, next |-> 0, checkpoints |-> {}, tx |-> FALSE,
             err |-> FALSE]

First == [k \in Keys |-> 1]

Init ==
  /\ shardTrees \in BOOLEAN
  /\ treeDb = [roots |-> [v \in {1} |-> [content |-> First, checkpoint |-> TRUE]],
               branches |-> {<<1, n>> : n \in Nodes(First, Keys)}, orphans |-> {}, shards |-> {1}]
  /\ leafDb = [leaves |-> Nodes(First, Keys), deletes |-> {}, orphans |-> {}]
  /\ treeDisk = treeDb /\ leafDisk = leafDb
  /\ pc = "idle" /\ sig = NoSignal
  /\ tree = [version |-> 1, content |-> First, checkpoints |-> {1}, branchOrphans |-> {}]
  /\ treeLoop = IdleLoop /\ leafLoop = IdleLoop
  /\ script = [v \in {1} |-> First] /\ returned = 1 /\ kept = 1
  /\ events = 0

(* The writes of a loop: committed at once unless a transaction is open.   *)
WriteTree(db, tx) == treeDb' = db /\ treeDisk' = IF tx THEN treeDisk ELSE db
WriteLeaf(db, tx) == leafDb' = db /\ leafDisk' = IF tx THEN leafDisk ELSE db

-----------------------------------------------------------------------------
(* The caller.                                                             *)

(* addOrphan, over all the changes of a version: branches that the last    *)
(* checkpoint or an earlier one wrote.                                     *)
Orphaned(c, changed) == {n \in Nodes(c, changed \cap Present(c)) : n[1] <= Last(tree.checkpoints)}

(* addOrphan, for leaves: those that the version replaces.  A leaf that is *)
(* removed is no orphan.                                                   *)
(* Mutant: also the leaves next to them.                                   *)
LeafOrphaned_Siblings(c, upd) == Nodes(c, Present(c))
LeafOrphaned(c, upd) == Nodes(c, upd \cap Present(c))

(* shouldCheckpoint at the beginning of SaveVersion.                       *)
WantsCheckpoint(v) == v = 1 \/ v - Last(tree.checkpoints) >= Interval

(* SaveVersion, up to its call of saveTree: upd are the keys set and rem   *)
(* the keys removed since the version before.  A version that was under    *)
(* way when the process ended is executed again with the same changes.     *)
SaveVersion(upd, rem) ==
  LET v  == tree.version + 1
      c  == [k \in Keys |-> IF k \in upd THEN v ELSE IF k \in rem THEN 0 ELSE tree.content[k]]
      bo == tree.branchOrphans \cup Orphaned(tree.content, upd \cup rem)
  IN  /\ pc = "idle" /\ v <= MaxVersion
      /\ v \in DOMAIN script => c = script[v]
      /\ \E want \in {WantsCheckpoint(v)} \cup IF "memoryCheckpoint" \in Hazards THEN {TRUE} ELSE {} :
           /\ want /\ Present(c) = {} => "emptyCheckpoint" \in Hazards
           /\ sig' = [kind |-> "save", version |-> v, content |-> c, checkpoint |-> want,
                      leaves |-> Nodes(c, upd), deletes |-> {<<v, k>> : k \in rem},
                      leafOrphans |-> LeafOrphaned(tree.content, upd),
                      branches |-> IF want THEN Nodes(c, Present(c)) ELSE {}, branchOrphans |-> bo]
      /\ tree' = [tree EXCEPT !.version = v, !.content = c, !.branchOrphans = bo]
      /\ script' = Insert(script, v, c)
      /\ pc' = "treeCh"
      /\ UNCHANGED <<dbs, treeLoop, leafLoop, returned, kept, events, shardTrees>>

(* DeleteVersionsTo: a signal to each loop, with a copy of the checkpoints.*)
DeleteVersionsTo(v) ==
  /\ pc = "idle" /\ events < MaxEvents
  /\ v < kept => "lowerPrune" \in Hazards
  /\ sig' = [kind |-> "prune", version |-> v, checkpoints |-> tree.checkpoints]
  /\ kept' = Max({kept, FindPrevious(tree.checkpoints, v)})
  /\ events' = events + 1
  /\ pc' = "treePruneCh"
  /\ UNCHANGED <<dbs, tree, treeLoop, leafLoop, script, returned, shardTrees>>

-----------------------------------------------------------------------------
(* treeLoop.                                                               *)

(* A save, received between two prune steps or when idle.  Only a          *)
(* checkpoint commits the prune; any other root is written inside it.      *)
TreeReceivesSave ==
  /\ pc = "treeCh" /\ treeLoop.pc = "select"
  /\ pc' = "leafCh"
  /\ treeLoop' = [treeLoop EXCEPT !.pc = IF sig.branches # {} THEN "shard" ELSE "root",
                                  !.tx = @ /\ ~sig.checkpoint, !.err = FALSE]
  /\ treeDisk' = IF sig.checkpoint THEN treeDb ELSE treeDisk
  /\ UNCHANGED <<treeDb, leafDb, leafDisk, tree, sig, leafLoop, history>>

(* nextShard: creating a table that exists is an error.                    *)
NextShard ==
  /\ treeLoop.pc = "shard"
  /\ IF shardTrees /\ sig.version \in treeDb.shards
     THEN /\ treeLoop' = [treeLoop EXCEPT !.pc = "result", !.err = TRUE]
          /\ UNCHANGED <<treeDb, treeDisk>>
     ELSE /\ treeLoop' = [treeLoop EXCEPT !.pc = "branches"]
          /\ WriteTree([treeDb EXCEPT !.shards = @ \cup IF shardTrees THEN {sig.version} ELSE {}], FALSE)
  /\ UNCHANGED <<leafDb, leafDisk, pc, tree, sig, leafLoop, history>>

(* treeMaybeCommit: whenever size rows are written, saveBranches commits   *)
(* and goes on; the orphans follow the branches.                           *)
SaveSomeBranches ==
  /\ treeLoop.pc = "branches"
  /\ \E bs \in SUBSET sig.branches, os \in SUBSET sig.branchOrphans :
       /\ os # {} => bs = sig.branches
       /\ WriteTree([treeDb EXCEPT !.branches = @ \cup ({Max(treeDb.shards)} \X bs),
                                   !.orphans = @ \cup {<<n, sig.version>> : n \in os}], FALSE)
  /\ UNCHANGED <<leafDb, leafDisk, pc, tree, sig, treeLoop, leafLoop, history>>

(* saveBranches to its last commit.                                        *)
SaveBranches ==
  /\ treeLoop.pc = "branches"
  /\ WriteTree([treeDb EXCEPT !.branches = @ \cup ({Max(treeDb.shards)} \X sig.branches),
                              !.orphans = @ \cup {<<n, sig.version>> : n \in sig.branchOrphans}], FALSE)
  /\ treeLoop' = [treeLoop EXCEPT !.pc = "root"]
  /\ UNCHANGED <<leafDb, leafDisk, pc, tree, sig, leafLoop, history>>

SaveRoot ==
  /\ treeLoop.pc = "root"
  /\ WriteTree([treeDb EXCEPT !.roots = Insert(@, sig.version, [content |-> sig.content,
                                                               checkpoint |-> sig.checkpoint])],
               treeLoop.tx)
  /\ treeLoop' = [treeLoop EXCEPT !.pc = "result"]
  /\ UNCHANGED <<leafDb, leafDisk, pc, tree, sig, leafLoop, history>>

(* beginPruneBatch of a prune that was interrupted.                        *)
Resumed(loop) == [loop EXCEPT !.pc = "select", !.tx = loop.prune # 0]

(* The result goes to the caller, and a prune that was interrupted begins  *)
(* its next transaction.                                                   *)
SendTreeResult ==
  /\ treeLoop.pc = "result" /\ pc = "treeResult"
  /\ pc' = "leafResult"
  /\ treeLoop' = Resumed(treeLoop)
  /\ UNCHANGED <<dbs, tree, sig, leafLoop, history>>

TreeReceivesPrune ==
  /\ pc = "treePruneCh" /\ treeLoop.pc = "select"
  /\ pc' = "leafPruneCh"
  /\ treeLoop' = IF treeLoop.prune # 0
                 THEN [treeLoop EXCEPT !.next = sig.version, !.checkpoints = sig.checkpoints]
                 ELSE [treeLoop EXCEPT !.prune = sig.version, !.checkpoints = sig.checkpoints,
                                       !.tx = TRUE]
  /\ UNCHANGED <<dbs, tree, sig, leafLoop, history>>

(* The default case of the select: taken only if no sender is waiting.     *)
TreePruning ==
  treeLoop.pc = "select" /\ treeLoop.prune # 0 /\ pc \notin {"treeCh", "treePruneCh"}

DueOrphans(db, v) == {o \in db.orphans : o[2] <= v}

(* stepPruning with a row: a batch of pruneBatchSize rows may be complete. *)
TreePruneRow(o) ==
  /\ TreePruning /\ o \in DueOrphans(treeDb, treeLoop.prune)
  /\ \E committed \in BOOLEAN :
       WriteTree([treeDb EXCEPT !.branches = @ \ {<<getShard(treeDb, o[1][1]), o[1]>>},
                                !.orphans = @ \ {o}], ~committed)
  /\ UNCHANGED <<leafDb, leafDisk, pc, tree, sig, treeLoop, leafLoop, history>>

(* stepPruning without a row: commit, and then delete the roots before the *)
(* checkpoint that remains.                                                *)
TreePruneCommit ==
  /\ TreePruning /\ DueOrphans(treeDb, treeLoop.prune) = {}
  /\ treeDisk' = treeDb
  /\ treeLoop' = [treeLoop EXCEPT !.pc = "end", !.tx = FALSE]
  /\ UNCHANGED <<treeDb, leafDb, leafDisk, pc, tree, sig, leafLoop, history>>

(* Mutant: nextPruneVersion is not reset.                                  *)
TreePruneNext_Again(loop) ==
  [loop EXCEPT !.pc = "select", !.prune = loop.next, !.tx = loop.next # 0]

TreePruneNext(loop) ==
  [loop EXCEPT !.pc = "select", !.prune = loop.next, !.next = 0, !.tx = loop.next # 0]

TreePruneEnd ==
  /\ treeLoop.pc = "end"
  /\ LET p == FindPrevious(treeLoop.checkpoints, treeLoop.prune)
     IN  WriteTree([treeDb EXCEPT !.roots = [v \in {u \in DOMAIN @ : u >= p} |-> @[v]]], FALSE)
  /\ treeLoop' = TreePruneNext(treeLoop)
  /\ UNCHANGED <<leafDb, leafDisk, pc, tree, sig, leafLoop, history>>

-----------------------------------------------------------------------------
(* leafLoop.                                                               *)

LeafReceivesSave ==
  /\ pc = "leafCh" /\ leafLoop.pc = "select"
  /\ pc' = "treeResult"
  /\ leafDisk' = leafDb
  /\ leafLoop' = [leafLoop EXCEPT !.pc = "leaves", !.tx = FALSE]
  /\ UNCHANGED <<treeDb, treeDisk, leafDb, tree, sig, treeLoop, history>>

(* changelogMaybeCommit: the same for the leaves, the deletions and the    *)
(* leaf orphans, in this order.                                            *)
SaveSomeLeaves ==
  /\ leafLoop.pc = "leaves"
  /\ \E ls \in SUBSET sig.leaves, ds \in SUBSET sig.deletes, os \in SUBSET sig.leafOrphans :
       /\ ds # {} => ls = sig.leaves
       /\ os # {} => ls = sig.leaves /\ ds = sig.deletes
       /\ WriteLeaf([leaves  |-> leafDb.leaves \cup ls, deletes |-> leafDb.deletes \cup ds,
                     orphans |-> leafDb.orphans \cup {<<n, sig.version>> : n \in os}], FALSE)
  /\ UNCHANGED <<treeDb, treeDisk, pc, tree, sig, treeLoop, leafLoop, history>>

SaveLeaves ==
  /\ leafLoop.pc = "leaves"
  /\ WriteLeaf([leaves  |-> leafDb.leaves \cup sig.leaves,
                deletes |-> leafDb.deletes \cup sig.deletes,
                orphans |-> leafDb.orphans \cup {<<n, sig.version>> : n \in sig.leafOrphans}], FALSE)
  /\ leafLoop' = [leafLoop EXCEPT !.pc = "result"]
  /\ UNCHANGED <<treeDb, treeDisk, pc, tree, sig, treeLoop, history>>

(* The second result, and the rest of SaveVersion.                         *)
SendLeafResult ==
  /\ leafLoop.pc = "result" /\ pc = "leafResult"
  /\ leafLoop' = Resumed(leafLoop)
  /\ IF treeLoop.err
     THEN pc' = "failed" /\ UNCHANGED <<tree, returned>>
     ELSE /\ pc' = "idle" /\ returned' = sig.version
          /\ tree' = IF sig.checkpoint
                     THEN [tree EXCEPT !.branchOrphans = {}, !.checkpoints = @ \cup {sig.version}]
                     ELSE tree
  /\ sig' = NoSignal
  /\ UNCHANGED <<dbs, treeLoop, script, kept, events, shardTrees>>

(* startPrune of the leaves, to a checkpoint; with none, nothing is done.  *)
(* Mutant: to the version that was asked for.                              *)
LeafStart_AnyVersion(loop, v) == [loop EXCEPT !.prune = v, !.tx = TRUE]

LeafStart(loop, v) ==
  LET p == FindPrevious(loop.checkpoints, v)
  IN  IF p = -1 THEN loop ELSE [loop EXCEPT !.prune = p, !.tx = TRUE]

LeafReceivesPrune ==
  /\ pc = "leafPruneCh" /\ leafLoop.pc = "select"
  /\ pc' = "idle" /\ sig' = NoSignal
  /\ leafLoop' = LET l == [leafLoop EXCEPT !.checkpoints = sig.checkpoints]
                 IN  IF leafLoop.prune # 0 THEN [l EXCEPT !.next = sig.version]
                                           ELSE LeafStart(l, sig.version)
  /\ UNCHANGED <<dbs, tree, treeLoop, history>>

LeafPruning ==
  leafLoop.pc = "select" /\ leafLoop.prune # 0 /\ pc \notin {"leafCh", "leafPruneCh"}

LeafPruneRow(o) ==
  /\ LeafPruning /\ leafLoop.tx /\ o \in DueOrphans(leafDb, leafLoop.prune)
  /\ \E committed \in BOOLEAN :
       WriteLeaf([leafDb EXCEPT !.leaves = @ \ {o[1]}, !.orphans = @ \ {o}], ~committed)
  /\ UNCHANGED <<treeDb, treeDisk, pc, tree, sig, treeLoop, leafLoop, history>>

LeafPruneCommit ==
  /\ LeafPruning /\ leafLoop.tx /\ DueOrphans(leafDb, leafLoop.prune) = {}
  /\ leafDisk' = leafDb
  /\ leafLoop' = [leafLoop EXCEPT !.pc = "end", !.tx = FALSE]
  /\ UNCHANGED <<treeDb, treeDisk, leafDb, pc, tree, sig, treeLoop, history>>

(* The next prune begins with what was asked for in the meantime.  If that *)
(* is nothing to prune, pruneVersion keeps its value and there is no       *)
(* query to step: the process ends in stepPruning.                         *)
LeafPruneEnd ==
  /\ leafLoop.pc = "end"
  /\ WriteLeaf([leafDb EXCEPT !.deletes = {d \in @ : d[1] >= leafLoop.prune}], FALSE)
  /\ leafLoop' = LET l == [leafLoop EXCEPT !.pc = "select", !.next = 0]
                 IN  IF leafLoop.next # 0 THEN LeafStart(l, leafLoop.next) ELSE [l EXCEPT !.prune = 0]
  /\ UNCHANGED <<treeDb, treeDisk, pc, tree, sig, treeLoop, history>>

-----------------------------------------------------------------------------
(* The end of a process, by a crash or by Close, and the next one.         *)

(* Revert: rows of later versions are deleted, and their shards dropped.   *)
RevertedTree(db, w) ==
  LET ss == IF \E s, t \in db.shards : s # t THEN {s \in db.shards : s <= w} ELSE db.shards
  IN  [roots |-> [v \in {u \in DOMAIN db.roots : u <= w} |-> db.roots[v]],
       branches |-> {b \in db.branches : b[1] \in ss},
       orphans |-> {o \in db.orphans : o[2] <= w}, shards |-> ss]

RevertedLeaf(db, w) ==
  [leaves |-> {n \in db.leaves : n[1] <= w}, deletes |-> {d \in db.deletes : d[1] <= w},
   orphans |-> {o \in db.orphans : o[2] <= w}]

(* The replay of content c to content cw collects the branches that were   *)
(* orphaned since the checkpoint.                                          *)
(* Mutant: they are reset with the leaves and the deletions.               *)
ReplayedOrphans_Reset(c, cw) == {}
ReplayedOrphans(c, cw) == Nodes(c, {k \in Present(c) : cw[k] # c[k]})

(* The next process loads version w, with or without a Revert to it.       *)
LoadVersion(w, tdb, ldb) ==
  LET cps == Checkpoints(tdb)
      c   == tdb.roots[FindPrevious(cps, w)].content
      cw  == tdb.roots[w].content
  IN  /\ Loadable(tdb, ldb, w)
      /\ tree' = [version |-> w, content |-> cw, checkpoints |-> cps,
                  branchOrphans |-> ReplayedOrphans(c, cw)]

(* A checkpoint after version w has left rows that Revert does not undo:   *)
(* of a tree without shards it deletes the orphans but no branch.          *)
CheckpointAfter(db, w) ==
  \/ \E o \in db.orphans : o[2] > w
  \/ \E b \in db.branches : b[2][1] > FindPrevious(Checkpoints(db), w)

(* The open transactions are lost.  The caller goes on from a version that *)
(* SaveVersion returned.  Without Revert, a root of a later version must   *)
(* not be there.                                                           *)
Restart(w, revert) ==
  LET tdb == IF revert THEN RevertedTree(treeDisk, w) ELSE treeDisk
      ldb == IF revert THEN RevertedLeaf(leafDisk, w) ELSE leafDisk
  IN  /\ events < MaxEvents
      /\ w \in kept .. returned
      /\ revert /\ ~shardTrees /\ CheckpointAfter(treeDisk, w) => "revertUnsharded" \in Hazards
      /\ (\E v \in DOMAIN tdb.roots : v > w) => "rootAhead" \in Hazards
      /\ LoadVersion(w, tdb, ldb)
      /\ treeDb' = tdb /\ treeDisk' = tdb /\ leafDb' = ldb /\ leafDisk' = ldb
      /\ pc' = "idle" /\ sig' = NoSignal
      /\ treeLoop' = IdleLoop /\ leafLoop' = IdleLoop
      /\ returned' = w
      /\ script' = IF revert THEN [v \in {u \in DOMAIN script : u <= w} |-> script[v]] ELSE script
      /\ events' = events + 1
      /\ UNCHANGED <<kept, shardTrees>>

(* At the bounds, and after an error, the caller stops; both loops wait.   *)
Terminated ==
  /\ pc = "failed" \/ (pc = "idle" /\ tree.version = MaxVersion)
  /\ treeLoop = [IdleLoop EXCEPT !.checkpoints = treeLoop.checkpoints, !.err = treeLoop.err]
  /\ leafLoop = [IdleLoop EXCEPT !.checkpoints = leafLoop.checkpoints]
  /\ UNCHANGED vars

TreeStep ==
  \/ TreeReceivesSave \/ NextShard \/ SaveSomeBranches \/ SaveBranches \/ SaveRoot \/ SendTreeResult
  \/ TreeReceivesPrune \/ TreePruneCommit \/ TreePruneEnd
  \/ \E o \in treeDb.orphans : TreePruneRow(o)

LeafStep ==
  \/ LeafReceivesSave \/ SaveSomeLeaves \/ SaveLeaves \/ SendLeafResult
  \/ LeafReceivesPrune \/ LeafPruneCommit \/ LeafPruneEnd
  \/ \E o \in leafDb.orphans : LeafPruneRow(o)

(* The keys that a version may set and those that it may remove; it may    *)
(* also change nothing.                                                    *)
Changes(c) == {ch \in (SUBSET Keys) \X (SUBSET Present(c)) :
                 ch[1] \cap ch[2] = {} /\ Cardinality(ch[1] \cup ch[2]) <= MaxChanges}

Next ==
  \/ \E ch \in Changes(tree.content) : SaveVersion(ch[1], ch[2])
  \/ \E v \in 1 .. tree.version : DeleteVersionsTo(v)
  \/ TreeStep \/ LeafStep
  \/ \E w \in 1 .. MaxVersion, revert \in BOOLEAN : Restart(w, revert)
  \/ Terminated

(* The scheduler runs each goroutine that can go on; whether the caller    *)
(* calls again, and whether the process ends, is open.                     *)
Fairness == WF_vars(TreeStep) /\ WF_vars(LeafStep)

Spec == Init /\ [][Next]_vars /\ Fairness

-----------------------------------------------------------------------------
(* Properties.                                                             *)

LoopStates == [pc : {"select", "shard", "branches", "root", "leaves", "result", "end"},
               prune : 0 .. MaxVersion, next : 0 .. MaxVersion, checkpoints : SUBSET (1 .. MaxVersion),
               tx : BOOLEAN, err : BOOLEAN]

(* Every variable has its type.  A loop that prunes holds a transaction    *)
(* open whenever it waits in its select, and no loop does otherwise: what  *)
(* beginPruneBatch and commitPrune are paired for.                         *)
TypeOK ==
  /\ pc \in {"idle", "treeCh", "leafCh", "treeResult", "leafResult", "treePruneCh", "leafPruneCh",
             "failed"}
  /\ tree.version \in 1 .. MaxVersion /\ tree.content \in Contents
  /\ treeLoop \in LoopStates /\ leafLoop \in LoopStates
  /\ \A l \in {treeLoop, leafLoop} : l.pc = "select" => (l.tx <=> l.prune # 0)
  /\ ~treeLoop.tx => treeDisk = treeDb
  /\ ~leafLoop.tx => leafDisk = leafDb

(* A version whose SaveVersion returned, and that no DeleteVersionsTo      *)
(* gave up, can be loaded by a new process whenever this one ends, whatever*)
(* the loops are doing; the exception are roots that treeLoop wrote inside *)
(* a prune that it has not committed, and those are the latest ones.       *)
ReturnedVersionsLoadable ==
  \A v \in kept .. returned :
    \/ Loadable(treeDisk, leafDisk, v)
    \/ /\ treeLoop.tx
       /\ Loadable(treeDb, leafDisk, v)
       /\ v .. returned \cap DOMAIN treeDisk.roots = {}

(* What the working tree has not changed since the last checkpoint it      *)
(* reads from the databases; no pruning takes it away.                     *)
WorkingTreeReadable ==
  pc = "idle" =>
    LET ns == Nodes(tree.content, Present(tree.content))
    IN  /\ ns \subseteq leafDisk.leaves
        /\ \A n \in ns : n[1] <= Last(tree.checkpoints) => HasBranch(treeDisk, n)

(* Between two saves, a branch that the tree no longer has is waiting to   *)
(* be pruned, or its orphan is waiting for the next checkpoint: pruning    *)
(* will find it.  The branches of a version that was under way when the    *)
(* process ended are those it will write again.                            *)
BranchesAccountedFor ==
  pc = "idle" /\ ~shardTrees =>
    \A b \in treeDb.branches :
      \/ b[2] \in Nodes(tree.content, Present(tree.content)) \cup tree.branchOrphans
      \/ \E o \in treeDb.orphans : o[1] = b[2]
      \/ b[2][1] > tree.version

(* Every call of SaveVersion and DeleteVersionsTo returns, and every prune *)
(* ends although saves interrupt it: with finitely many calls, there is a  *)
(* time from which no call is under way and neither loop prunes.           *)
ComesToRest ==
  <>[](pc \in {"idle", "failed"} /\ treeLoop.prune = 0 /\ leafLoop.prune = 0)
=============================================================================
