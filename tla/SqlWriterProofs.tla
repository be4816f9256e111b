-------------------------- MODULE SqlWriterProofs --------------------------
(***************************************************************************)
(* Whatever the two loops of the writer are doing, and whenever the        *)
(* process ends: a version that was returned and not pruned can be loaded, *)
(* the working tree can be read, and no branch is forgotten; for any       *)
(* number of keys and versions, any interval between checkpoints, and any  *)
(* number of prunes and crashes.                                           *)
(***************************************************************************)
EXTENDS SqlWriterSteps

(* A leaf is for Zenon unless it names the SMT solver; each prover has up to
   sixty seconds, so that no proof depends on the speed of a machine.       *)
USE ZenonT(60)

-----------------------------------------------------------------------------
(* The steps of the caller.                                                *)

(* The save has failed, because the shard of its version was there.        *)
LEMMA SendLeafResultFails ==
  ASSUME IInv, SendLeafResult, treeLoop.err
  PROVE  IInv'
<1>1. /\ leafLoop.pc = "result" /\ pc = "leafResult" /\ pc' = "failed" /\ sig' = NoSignal
      /\ leafLoop' = [leafLoop EXCEPT !.pc = "select", !.tx = leafLoop.prune # 0]
      /\ UNCHANGED <<treeDb, treeDisk, leafDb, leafDisk, tree, treeLoop, script, returned, kept, shardTrees>>
  BY DEF SendLeafResult, Resumed, history, dbs
<1>2. /\ leafLoop'.pc = "select" /\ (leafLoop'.tx <=> leafLoop.prune # 0)
      /\ leafLoop'.prune = leafLoop.prune /\ leafLoop'.next = leafLoop.next
      /\ leafLoop'.checkpoints = leafLoop.checkpoints /\ leafLoop' \in LoopStates
  BY <1>1 DEF IInv, Types, LoopStates
<1>3. /\ sig.kind = "save" /\ sig'.kind = "none" /\ ~leafLoop.tx /\ leafDisk = leafDb
      /\ treeLoop.pc \in {"select", "end"}
  BY <1>1 DEF IInv, Control, NoSignal
<1>4. Types'
  BY <1>1, <1>2 DEF IInv, Types
<1>5. Control'
  BY SMTT(60), <1>1, <1>2, <1>3 DEF IInv, Control, Writing
<1>6. Scripts(script)' /\ Memory' /\ Saves'
  BY <1>1, <1>3 DEF IInv, Memory, Saves
<1>7. Prunes'
  BY SMTT(60), <1>1, <1>2, <1>3 DEF IInv, Prunes, Prune
<1>8. /\ LeafTop' = returned /\ LeafTop = returned + 1 /\ RootTop' = RootTop /\ BranchTop' = BranchTop
  BY <1>1, <1>2, <1>3, Tops DEF LeafTop, RootTop, BranchTop, Written
<1>9. Leaves'
  <2>1. /\ kept \in 1 .. MaxVersion /\ returned + 1 \in DOMAIN script /\ returned \in DOMAIN script
        /\ returned <= returned + 1 /\ Scripts(script)
    BY SMTT(60), <1>3, Tops DEF IInv
  <2>2. LeafRows(leafDb.leaves, leafDb.deletes, leafDb.orphans, script, kept, returned + 1)
    BY <1>8 DEF IInv, Leaves
  <2>3. LeafRows(leafDb.leaves, leafDb.deletes, leafDb.orphans, script, kept, returned)
    BY <2>1, <2>2, LeafRowsBack
  <2> QED
    BY <1>1, <1>3, <1>8, <2>3 DEF Leaves
<1>10. Trees'
  BY <1>1, <1>8, TreesKeep DEF IInv
<1>11. Underway'
  BY <1>1, <1>3, <1>8 DEF IInv, Underway
<1> QED
  BY <1>4, <1>5, <1>6, <1>7, <1>9, <1>10, <1>11 DEF IInv

(* SaveVersion returns; a checkpoint takes over from the one before.       *)
LEMMA SendLeafResultStep ==
  ASSUME IInv, SendLeafResult, ~treeLoop.err
  PROVE  IInv'
<1> DEFINE r == returned
<1>1. /\ leafLoop.pc = "result" /\ pc = "leafResult" /\ pc' = "idle" /\ sig' = NoSignal
      /\ leafLoop' = [leafLoop EXCEPT !.pc = "select", !.tx = leafLoop.prune # 0]
      /\ returned' = sig.version
      /\ tree' = IF sig.checkpoint
                 THEN [tree EXCEPT !.branchOrphans = {}, !.checkpoints = @ \cup {sig.version}]
                 ELSE tree
      /\ UNCHANGED <<treeDb, treeDisk, leafDb, leafDisk, treeLoop, script, kept, shardTrees>>
  BY DEF SendLeafResult, Resumed, history, dbs
<1>2. /\ leafLoop'.pc = "select" /\ (leafLoop'.tx <=> leafLoop.prune # 0)
      /\ leafLoop'.prune = leafLoop.prune /\ leafLoop'.next = leafLoop.next
      /\ leafLoop'.checkpoints = leafLoop.checkpoints /\ leafLoop' \in LoopStates
  BY <1>1 DEF IInv, Types, LoopStates
<1>3. /\ sig.kind = "save" /\ sig'.kind = "none" /\ ~leafLoop.tx /\ leafDisk = leafDb
      /\ treeLoop.pc \in {"select", "end"}
  BY <1>1 DEF IInv, Control, NoSignal
<1>4. /\ sig.version = r + 1 /\ r \in DOMAIN script /\ r + 1 \in DOMAIN script /\ r + 1 \in 1 .. MaxVersion
      /\ kept \in 1 .. MaxVersion /\ kept <= r /\ r \in 1 .. MaxVersion /\ tree.version = r + 1
      /\ sig.checkpoint \in BOOLEAN /\ (sig.checkpoint <=> Scheduled(r + 1))
  BY <1>3, Tops DEF IInv, Saves
<1>5. /\ tree'.version = r + 1 /\ tree'.content = tree.content /\ tree' \in TreeStates
      /\ tree'.checkpoints = tree.checkpoints \cup (IF sig.checkpoint THEN {r + 1} ELSE {})
      /\ tree'.branchOrphans = IF sig.checkpoint THEN {} ELSE tree.branchOrphans
  <2>1. tree \in TreeStates
    BY DEF IInv, Types
  <2> QED
    BY <1>1, <1>4, <2>1 DEF TreeStates
<1>6. Types'
  BY <1>1, <1>2, <1>4, <1>5 DEF IInv, Types
<1>7. Control'
  BY SMTT(60), <1>1, <1>2, <1>3 DEF IInv, Control, Writing
<1>8. Memory'
  <2>1. kept' <= returned' /\ Scheduled(kept') /\ tree'.version = returned'
        /\ tree'.version \in DOMAIN script' /\ tree'.content = script'[tree'.version]
    BY SMTT(60), <1>1, <1>4, <1>5 DEF IInv, Memory
  <2>2. \A c \in tree'.checkpoints : Scheduled(c) /\ c <= returned'
    <3>1. \A c \in tree.checkpoints : Scheduled(c) /\ c <= r /\ c \in Int
      BY SMTT(60) DEF IInv, Memory, Types, TreeStates
    <3> QED
      BY SMTT(60), <1>1, <1>4, <1>5, <3>1
  <2>3. \A c \in kept' .. returned' : Scheduled(c) => c \in tree'.checkpoints
    <3>1. \A c \in kept .. r : Scheduled(c) => c \in tree.checkpoints
      BY DEF IInv, Memory
    <3>2. \A c \in kept .. r + 1 : c \in kept .. r \/ c = r + 1
      BY SMTT(60), <1>4
    <3> QED
      BY <1>1, <1>4, <1>5, <3>1, <3>2
  <2>4. \A n \in tree'.branchOrphans : n[1] <= returned' /\ script'[tree'.version][n[2]] # n[1]
    <3>1. \A n \in tree.branchOrphans : n[1] \in Int
      BY SMTT(60) DEF IInv, Types, TreeStates, NodeKeys
    <3>2. \A n \in tree.branchOrphans : n[1] <= r /\ script[r + 1][n[2]] # n[1]
      BY <1>4 DEF IInv, Memory
    <3> QED
      BY SMTT(60), <1>1, <1>4, <1>5, <3>1, <3>2
  <2>5. ASSUME NEW c \in 1 .. r + 1, NEW k \in Keys,
               LastScheduled(c, r + 1), script[c][k] # 0, script[r + 1][k] # script[c][k]
        PROVE  <<script[c][k], k>> \in tree'.branchOrphans
    <3>1. c # r + 1
      BY <2>5
    <3>2. c \in 1 .. r /\ c \in Int
      BY SMTT(60), <1>4, <3>1
    <3>3. ~Scheduled(r + 1)
      BY SMTT(60), <1>4, <2>5, <3>2 DEF LastScheduled
    <3>4. LastScheduled(c, r)
      BY SMTT(60), <1>4, <2>5, <3>2 DEF LastScheduled
    <3>5. <<script[c][k], k>> \in tree.branchOrphans
      BY <1>4, <2>5, <3>2, <3>4 DEF IInv, Memory
    <3> QED
      BY <1>4, <1>5, <3>3, <3>5
  <2> QED
    BY SMTT(60), <1>1, <1>3, <1>4, <1>5, <2>1, <2>2, <2>3, <2>4, <2>5 DEF Memory
<1>9. Scripts(script)' /\ Saves'
  BY <1>1, <1>3 DEF IInv, Saves
<1>10. Prunes'
  BY SMTT(60), <1>1, <1>2, <1>3 DEF IInv, Prunes, Prune
<1>11. /\ LeafTop = r + 1 /\ RootTop = r + 1 /\ BranchTop = r + 1
       /\ LeafTop' = r + 1 /\ RootTop' = r + 1 /\ BranchTop' = r + 1
  BY <1>1, <1>2, <1>3, <1>4 DEF LeafTop, RootTop, BranchTop, Written
<1>12. Leaves'
  BY <1>1, <1>11, LeavesKeep DEF IInv
<1>13. Trees'
  <2>1. ASSUME NEW db \in {treeDb, treeDisk}
        PROVE  TreeRows(db, script, shardTrees, kept, r + 1, r + 1, r + 1)
    <3>1. /\ TreeRows(db, script, shardTrees, kept, r, r + 1, r + 1)
          /\ db \in TreeDbs /\ shardTrees \in BOOLEAN /\ Scripts(script) /\ r \in Nat
      BY SMTT(60), <1>4, <1>11, BoundsAssumption DEF IInv, Trees, Types
    <3> QED
      BY <3>1, TreeRowsReturned
  <2> QED
    BY <1>1, <1>4, <1>11, <2>1 DEF Trees
<1>14. Underway'
  BY <1>1, <1>3, <1>11 DEF IInv, Underway
<1> QED
  BY <1>6, <1>7, <1>8, <1>9, <1>10, <1>12, <1>13, <1>14 DEF IInv

(* The oldest version that is kept moves to a checkpoint that is there.    *)
LEMMA DeleteVersionsToStep ==
  ASSUME Hazards = {}, IInv, NEW v \in 1 .. tree.version, DeleteVersionsTo(v)
  PROVE  IInv'
<1> DEFINE r == returned
           cps == tree.checkpoints
           p == FindPrevious(cps, v)
<1>1. /\ pc = "idle" /\ ~(v < kept) /\ pc' = "treePruneCh"
      /\ sig' = [kind |-> "prune", version |-> v, checkpoints |-> cps]
      /\ kept' = Max({kept, p})
      /\ UNCHANGED <<treeDb, treeDisk, leafDb, leafDisk, tree, treeLoop, leafLoop, script, returned, shardTrees>>
  BY DEF DeleteVersionsTo, dbs
<1>2. sig'.kind = "prune" /\ sig'.version = v /\ sig'.checkpoints = cps /\ sig.kind = "none"
  BY <1>1 DEF IInv, Control
<1>3. /\ cps \in SUBSET (1 .. MaxVersion) /\ r \in 1 .. MaxVersion /\ tree.version = r
      /\ kept \in 1 .. MaxVersion /\ kept <= r /\ Scheduled(kept)
      /\ \A c \in cps : Scheduled(c) /\ c <= r
      /\ \A c \in kept .. r : Scheduled(c) => c \in cps
  BY <1>1, <1>2 DEF IInv, Types, TreeStates, Memory
<1>4. v \in 1 .. MaxVersion /\ kept <= v /\ v <= r /\ kept \in cps /\ v \in Int
  BY SMTT(60), <1>1, <1>3, BoundsAssumption
<1>5. p \in cps /\ p <= v /\ \A c \in cps : c <= v => c <= p
  BY <1>3, <1>4, FindPreviousIs
<1> HIDE DEF p
<1>6. kept' = p /\ kept <= p /\ p \in 1 .. MaxVersion
  <2>1. kept <= p /\ p \in 1 .. MaxVersion
    BY <1>3, <1>4, <1>5
  <2> DEFINE m == Max({kept, p})
  <2>2. m \in {kept, p} /\ kept <= m /\ p <= m
    BY <1>3, <2>1, MaxIs
  <2> HIDE DEF m
  <2>3. m = p
    BY SMTT(60), <1>3, <2>1, <2>2
  <2> QED
    BY <1>1, <2>1, <2>3 DEF m
<1>7. Types'
  BY <1>1, <1>6 DEF IInv, Types
<1>8. Control'
  BY <1>1, <1>2 DEF IInv, Control, Writing
<1>9. Scripts(script)' /\ Saves'
  BY <1>1, <1>2 DEF IInv, Saves
<1>10. Memory'
  <2>1. p <= r /\ Scheduled(p) /\ \A c \in p .. r : c \in kept .. r
    BY SMTT(60), <1>3, <1>4, <1>5, <1>6
  <2> QED
    BY <1>1, <1>2, <1>3, <1>6, <2>1 DEF IInv, Memory
<1>11. ASSUME NEW u \in Int, Passed(u, kept) PROVE Passed(u, p)
  BY SMTT(60), <1>3, <1>6, <1>11 DEF Passed
<1>12. Passed(v, p)
  <2> SUFFICES ASSUME NEW c \in 1 .. v, Scheduled(c) PROVE c <= p
    BY DEF Passed
  <2>1. CASE c <= kept
    BY SMTT(60), <1>3, <1>6, <2>1
  <2>2. CASE c > kept
    <3>1. c \in kept .. r
      BY SMTT(60), <1>3, <1>4, <2>2
    <3> QED
      BY SMTT(60), <1>3, <1>5, <3>1
  <2> QED
    BY SMTT(60), <1>3, <2>1, <2>2
<1>13. Prunes'
  <2>1. \A l \in {treeLoop, leafLoop} : l.prune \in Int /\ l.next \in Int
    BY SMTT(60) DEF IInv, Types, LoopStates
  <2>2. \A l \in {treeLoop, leafLoop} :
       /\ Passed(l.prune, p) /\ \A c \in l.checkpoints : Scheduled(c)
       /\ l.next # 0 => /\ l.prune # 0 /\ l.next \in 1 .. MaxVersion /\ Passed(l.next, p)
                        /\ l.checkpoints \subseteq 1 .. MaxVersion /\ \E c \in l.checkpoints : c <= l.next
    BY <1>11, <2>1 DEF IInv, Prunes, Prune
  <2>3. leafLoop.prune <= p
    BY SMTT(60), <1>3, <1>6, <2>1 DEF IInv, Prunes
  <2>4. /\ v \in 1 .. MaxVersion /\ Passed(v, p) /\ cps \subseteq 1 .. MaxVersion
        /\ (\A c \in cps : Scheduled(c)) /\ \E c \in cps : c <= v
    BY <1>3, <1>4, <1>5, <1>12
  <2> QED
    BY <1>1, <1>2, <1>6, <2>2, <2>3, <2>4 DEF Prunes, Prune
<1>14. LeafTop' = LeafTop /\ RootTop' = RootTop /\ BranchTop' = BranchTop
  <2>1. leafLoop.pc # "result"
    BY <1>1 DEF IInv, Control
  <2> QED
    BY <1>1, <1>2, <2>1 DEF LeafTop, RootTop, BranchTop, Written
<1>15. /\ LeafTop \in DOMAIN script /\ RootTop \in DOMAIN script /\ BranchTop \in DOMAIN script
       /\ Scripts(script) /\ Agree(script, script) /\ kept \in Nat /\ p \in Nat /\ 1 <= kept
  BY SMTT(60), <1>3, <1>6, Tops, BoundsAssumption DEF IInv, Agree
<1>16. Leaves'
  <2>1. /\ LeafRows(leafDb.leaves, leafDb.deletes, leafDb.orphans, script, p, LeafTop)
        /\ LeafRows(leafDisk.leaves, leafDisk.deletes, leafDisk.orphans, script, p, LeafTop)
    BY <1>6, <1>15, LeafRowsKeep DEF IInv, Leaves
  <2> QED
    BY <1>1, <1>6, <1>14, <2>1 DEF Leaves
<1>17. Trees'
  <2>1. ASSUME NEW db \in {treeDb, treeDisk}
        PROVE  TreeRows(db, script, shardTrees, p, r, RootTop, BranchTop)
    <3>1. db \in TreeDbs /\ shardTrees \in BOOLEAN
          /\ TreeRows(db, script, shardTrees, kept, r, RootTop, BranchTop)
      BY DEF IInv, Trees, Types
    <3> QED
      BY <1>3, <1>6, <1>15, <3>1, TreeRowsKeep
  <2> QED
    BY <1>1, <1>6, <1>14, <2>1 DEF Trees
<1>18. Underway'
  <2>1. treeLoop.pc \notin {"branches", "root"} /\ \A c \in p .. RootTop : c \in kept .. RootTop
    <3>1. treeLoop.pc \notin {"branches", "root"}
      BY <1>1 DEF IInv, Control
    <3>2. RootTop \in 1 .. MaxVersion /\ kept \in 1 .. MaxVersion
      BY Tops
    <3> QED
      BY SMTT(60), <1>3, <1>6, <3>1, <3>2, BoundsAssumption
  <2> QED
    BY <1>1, <1>6, <1>14, <2>1 DEF IInv, Underway
<1> QED
  BY <1>7, <1>8, <1>9, <1>10, <1>13, <1>16, <1>17, <1>18 DEF IInv

(* What SaveVersion makes of the tree.                                     *)
NewContent(upd, rem) ==
  [k \in Keys |-> IF k \in upd THEN tree.version + 1 ELSE IF k \in rem THEN 0 ELSE tree.content[k]]

(* Each key is set, removed or left as it is.                              *)
LEMMA NewContentIs ==
  ASSUME NEW upd \in SUBSET Keys, NEW rem \in SUBSET Keys, tree \in TreeStates, tree.version + 1 <= MaxVersion
  PROVE  /\ NewContent(upd, rem) \in Contents
         /\ \A k \in Keys : /\ k \in upd => NewContent(upd, rem)[k] = tree.version + 1
                            /\ k \notin upd /\ k \in rem => NewContent(upd, rem)[k] = 0
                            /\ k \notin upd /\ k \notin rem => NewContent(upd, rem)[k] = tree.content[k]
<1>1. /\ tree.version \in 1 .. MaxVersion /\ tree.content \in [Keys -> 0 .. MaxVersion]
      /\ tree.version + 1 \in 0 .. MaxVersion /\ 0 \in 0 .. MaxVersion
  BY SMTT(60), BoundsAssumption DEF TreeStates, Contents
<1>2. \A k \in Keys : tree.content[k] \in 0 .. MaxVersion
  BY <1>1
<1> QED
  BY <1>1, <1>2 DEF NewContent, Contents

(* The next version belongs to the script, for the first time or again.    *)
LEMMA NewScript ==
  ASSUME IInv, pc = "idle", NEW c \in Contents, tree.version + 1 <= MaxVersion,
         \A k \in Keys : c[k] \in {0, tree.version + 1, tree.content[k]},
         tree.version + 1 \in DOMAIN script => c = script[tree.version + 1]
  PROVE  LET new == Insert(script, tree.version + 1, c)
         IN  /\ Scripts(new) /\ Agree(script, new) /\ returned + 1 \in DOMAIN new /\ new[returned + 1] = c
             /\ tree.version = returned /\ returned + 1 \in 1 .. MaxVersion /\ tree.content = script[returned]
<1> DEFINE v == returned + 1
           new == Insert(script, v, c)
<1>1. /\ tree.version = returned /\ returned \in 1 .. MaxVersion /\ returned \in DOMAIN script
      /\ tree.content = script[returned] /\ Scripts(script)
  BY Tops DEF IInv, Control, Memory
<1>2. v \in 1 .. MaxVersion /\ v > 1 /\ v - 1 = returned
  BY SMTT(60), <1>1
<1>3. /\ DOMAIN new = DOMAIN script \cup {v} /\ new[v] = c /\ Agree(script, new)
  BY <1>1 DEF Insert, Agree
<1>4. Scripts(new)
  <2>1. CASE v \in DOMAIN script
    <3>1. script = [u \in DOMAIN script |-> script[u]]
      BY <1>1 DEF Scripts
    <3>2. new = script
      BY <1>1, <2>1, <3>1 DEF Insert
    <3> QED
      BY <1>1, <3>2
  <2>2. CASE v \notin DOMAIN script
    <3>1. \A k \in Keys : c[k] \in {0, v, script[v - 1][k]}
      BY <1>1, <1>2
    <3>2. v - 1 \in DOMAIN script
      BY <1>1, <1>2
    <3> HIDE DEF v
    <3> QED
      BY <1>1, <1>2, <2>2, <3>1, <3>2, ScriptGrows
  <2> QED
    BY <2>1, <2>2
<1> QED
  BY <1>1, <1>2, <1>3, <1>4

(* The signal holds what the version changes, and memory the branches that *)
(* it orphans.                                                             *)
LEMMA SaveVersionStep ==
  ASSUME Hazards = {}, IInv, NEW upd \in SUBSET Keys, NEW rem \in SUBSET Present(tree.content),
         upd \cap rem = {}, SaveVersion(upd, rem)
  PROVE  IInv'
<1> DEFINE r == returned
           v == returned + 1
           c == NewContent(upd, rem)
           bo == tree.branchOrphans \cup Orphaned(tree.content, upd \cup rem)
<1>1. /\ pc = "idle" /\ pc' = "treeCh" /\ tree.version + 1 <= MaxVersion
      /\ tree.version + 1 \in DOMAIN script => c = script[tree.version + 1]
      /\ tree' = [tree EXCEPT !.version = tree.version + 1, !.content = c, !.branchOrphans = bo]
      /\ script' = Insert(script, tree.version + 1, c)
      /\ UNCHANGED <<treeDb, treeDisk, leafDb, leafDisk, treeLoop, leafLoop, returned, kept, shardTrees>>
  BY DEF SaveVersion, NewContent, dbs
<1>2. PICK want \in {WantsCheckpoint(tree.version + 1)} :
        /\ ~ (want /\ Present(c) = {})
        /\ sig' = [kind |-> "save", version |-> tree.version + 1, content |-> c, checkpoint |-> want,
                   leaves |-> Nodes(c, upd), deletes |-> {<<tree.version + 1, k>> : k \in rem},
                   leafOrphans |-> LeafOrphaned(tree.content, upd),
                   branches |-> IF want THEN Nodes(c, Present(c)) ELSE {}, branchOrphans |-> bo]
  <2>1. "memoryCheckpoint" \notin Hazards /\ "emptyCheckpoint" \notin Hazards
    OBVIOUS
  <2> QED
    BY <2>1 DEF SaveVersion, NewContent
<1> HIDE DEF bo
<1>3. /\ tree \in TreeStates /\ rem \in SUBSET Keys /\ sig.kind = "none" /\ Scripts(script)
      /\ leafLoop.pc \in {"select", "end"} /\ treeLoop.pc \in {"select", "end"}
  BY <1>1 DEF IInv, Types, Present, Control
<1>4. /\ c \in Contents
      /\ \A k \in Keys : /\ k \in upd => c[k] = tree.version + 1
                         /\ k \notin upd /\ k \in rem => c[k] = 0
                         /\ k \notin upd /\ k \notin rem => c[k] = tree.content[k]
  BY <1>1, <1>3, NewContentIs
<1> HIDE DEF c
<1>5. \A k \in Keys : c[k] \in {0, tree.version + 1, tree.content[k]}
  BY <1>4
<1>6. /\ Scripts(script') /\ Agree(script, script') /\ v \in DOMAIN script' /\ script'[v] = c
      /\ tree.version = r /\ v \in 1 .. MaxVersion /\ tree.content = script[r]
  BY <1>1, <1>4, <1>5, NewScript
<1>7. /\ r \in DOMAIN script /\ script'[r] = script[r] /\ r \in 1 .. MaxVersion /\ r \in DOMAIN script'
      /\ kept \in 1 .. MaxVersion /\ kept <= r
      /\ \A k \in Keys : script[r][k] \in 0 .. MaxVersion /\ script[r][k] <= r
  BY <1>3, <1>6, Tops, ContentRange DEF Agree
<1>8. /\ sig'.kind = "save" /\ sig'.version = v /\ sig'.content = c /\ sig'.checkpoint = want
      /\ sig'.leaves = Nodes(c, upd) /\ sig'.deletes = {<<v, k>> : k \in rem}
      /\ sig'.leafOrphans = LeafOrphaned(tree.content, upd)
      /\ sig'.branches = IF want THEN Nodes(c, Present(c)) ELSE {}
      /\ sig'.branchOrphans = bo
  BY <1>2, <1>6
<1>9. \A n \in Nodes(script[r], Present(script[r])) :
        n \in NodeKeys /\ n[1] <= r /\ n[1] # 0 /\ script[r][n[2]] = n[1]
  BY SMTT(60), <1>7 DEF Nodes, Present, NodeKeys
<1>10. /\ Last(tree.checkpoints) \in kept .. r /\ LastScheduled(Last(tree.checkpoints), r)
  <2>1. /\ tree.checkpoints \in SUBSET (1 .. MaxVersion) /\ Scheduled(kept)
        /\ \A d \in tree.checkpoints : Scheduled(d) /\ d <= r
        /\ \A d \in kept .. r : Scheduled(d) => d \in tree.checkpoints
    BY <1>3 DEF IInv, Memory, TreeStates
  <2> QED
    BY <1>7, <2>1, LastCheckpoint
<1>11. want \in BOOLEAN /\ (want <=> Scheduled(v))
  <2>1. want = (v = 1 \/ v - Last(tree.checkpoints) >= Interval)
    BY <1>2, <1>6 DEF WantsCheckpoint
  <2>2. v # 1 /\ Last(tree.checkpoints) \in Nat /\ r \in Nat
    BY SMTT(60), <1>7, <1>10, BoundsAssumption
  <2>3. Scheduled(v) <=> v - Last(tree.checkpoints) >= Interval
    BY SMTT(60), <1>10, <2>2, ScheduledWhenDue
  <2> QED
    BY <2>1, <2>2, <2>3
<1>12. /\ bo \subseteq NodeKeys
       /\ \A n \in bo : n[1] <= r /\ c[n[2]] # n[1]
  <2>1. ASSUME NEW n \in tree.branchOrphans PROVE n \in NodeKeys /\ n[1] <= r /\ c[n[2]] # n[1]
    <3>1. n \in NodeKeys
      BY <1>3 DEF TreeStates
    <3>2. n[1] <= r /\ script[r][n[2]] # n[1] /\ n[1] \in 1 .. MaxVersion /\ n[2] \in Keys
      BY <1>6, <3>1 DEF IInv, Memory, NodeKeys
    <3> QED
      BY SMTT(60), <1>5, <1>6, <1>7, <3>1, <3>2
  <2>2. ASSUME NEW n \in Orphaned(tree.content, upd \cup rem) PROVE n \in NodeKeys /\ n[1] <= r /\ c[n[2]] # n[1]
    <3>1. PICK k \in (upd \cup rem) \cap Present(tree.content) : n = <<tree.content[k], k>>
      BY DEF Orphaned, Nodes
    <3>2. n \in Nodes(script[r], Present(script[r])) /\ n[2] = k /\ k \in Keys
      BY <1>3, <1>6, <3>1 DEF Nodes
    <3>3. c[k] = v \/ c[k] = 0
      BY <1>4, <1>6, <3>1, <3>2
    <3> QED
      BY SMTT(60), <1>7, <1>9, <3>2, <3>3
  <2> QED
    BY <2>1, <2>2 DEF bo
<1>13. /\ tree'.version = v /\ tree'.content = c /\ tree'.checkpoints = tree.checkpoints
       /\ tree'.branchOrphans = bo /\ tree' \in TreeStates
  BY <1>1, <1>3, <1>4, <1>6, <1>12 DEF TreeStates
<1>14. Types'
  BY <1>1, <1>13 DEF IInv, Types
<1>15. Control'
  BY <1>1, <1>3, <1>8 DEF IInv, Control, Writing
<1>16. Memory'
  <2>1. ASSUME NEW d \in 1 .. r, NEW k \in Keys,
               LastScheduled(d, r), script'[d][k] # 0, script'[v][k] # script'[d][k]
        PROVE  <<script'[d][k], k>> \in bo
    <3>1. d \in DOMAIN script /\ script'[d] = script[d] /\ script[d][k] <= d /\ script[d][k] \in Int
      BY SMTT(60), <1>3, <1>6, <1>7, ContentRange DEF Agree
    <3>2. CASE script[r][k] # script[d][k]
      BY <1>6, <2>1, <3>1, <3>2 DEF IInv, Memory, bo
    <3>3. CASE script[r][k] = script[d][k]
      <4>1. k \in upd \cup rem
        BY <1>4, <1>6, <2>1, <3>1, <3>3
      <4>2. k \in Present(tree.content) /\ <<script[d][k], k>> = <<tree.content[k], k>>
        BY <1>6, <2>1, <3>1, <3>3 DEF Present
      <4>3. d <= Last(tree.checkpoints)
        BY SMTT(60), <1>7, <1>10, <2>1 DEF LastScheduled
      <4>4. <<script[d][k], k>>[1] <= Last(tree.checkpoints)
        BY SMTT(60), <1>10, <3>1, <4>3
      <4> QED
        BY <3>1, <4>1, <4>2, <4>4 DEF bo, Orphaned, Nodes
    <3> QED
      BY <3>2, <3>3
  <2>2. /\ kept <= r /\ Scheduled(kept) /\ kept' = kept /\ returned' = r
        /\ \A d \in tree.checkpoints : Scheduled(d) /\ d <= r
        /\ \A d \in kept .. r : Scheduled(d) => d \in tree.checkpoints
    BY <1>1 DEF IInv, Memory
  <2>3. /\ tree'.version = IF sig'.kind = "save" \/ pc' = "failed" THEN returned' + 1 ELSE returned'
        /\ tree'.version \in DOMAIN script' /\ tree'.content = script'[tree'.version]
    BY <1>1, <1>6, <1>8, <1>13
  <2>4. \A n \in tree'.branchOrphans : n[1] <= returned' /\ script'[tree'.version][n[2]] # n[1]
    BY <1>1, <1>6, <1>12, <1>13, <2>2
  <2>5. \A d \in 1 .. returned', k \in Keys :
          LastScheduled(d, returned') /\ script'[d][k] # 0 /\ script'[tree'.version][k] # script'[d][k]
          => <<script'[d][k], k>> \in tree'.branchOrphans
    BY <1>1, <1>13, <2>1
  <2> QED
    BY <1>13, <2>2, <2>3, <2>4, <2>5 DEF Memory
<1>17. Saves'
  <2>1. Nodes(c, upd) = LeavesOf(script', v)
    <3>1. \A k \in Keys : c[k] = v <=> k \in upd
      BY SMTT(60), <1>4, <1>6, <1>7
    <3> QED
      BY <1>4, <1>6, <3>1 DEF Nodes, LeavesOf
  <2>2. {<<v, k>> : k \in rem} = DeletesOf(script', v)
    <3>1. v - 1 = r
      BY SMTT(60), <1>7
    <3>2. \A k \in Keys : (c[k] = 0 /\ script'[v - 1][k] # 0) <=> k \in rem
      BY SMTT(60), <1>4, <1>6, <1>7, <3>1 DEF Present
    <3>3. {k \in Keys : c[k] = 0 /\ script'[v - 1][k] # 0} = rem
      BY <1>3, <3>2
    <3> QED
      BY <1>6, <3>3 DEF DeletesOf
  <2>3. \A n \in LeafOrphaned(tree.content, upd) : n \in NodeKeys /\ n[1] < v /\ script'[v][n[2]] # n[1]
    <3> SUFFICES ASSUME NEW n \in LeafOrphaned(tree.content, upd)
                 PROVE  n \in NodeKeys /\ n[1] < v /\ c[n[2]] # n[1]
      BY <1>6
    <3>1. PICK k \in upd \cap Present(tree.content) : n = <<tree.content[k], k>>
      BY DEF LeafOrphaned, Nodes
    <3>2. n \in Nodes(script[r], Present(script[r])) /\ n[2] = k /\ k \in Keys
      BY <1>6, <3>1 DEF Nodes
    <3>3. n[1] <= r /\ n[1] \in 1 .. MaxVersion /\ c[k] = v
      BY <1>4, <1>6, <1>9, <3>1, <3>2 DEF NodeKeys
    <3> QED
      BY SMTT(60), <1>7, <1>9, <3>2, <3>3
  <2>4. want => Nodes(c, Present(c)) # {}
    BY <1>2 DEF Nodes
  <2> QED
    BY SMTT(60), <1>1, <1>6, <1>8, <1>11, <1>13, <2>1, <2>2, <2>3, <2>4 DEF Saves
<1>18. Prunes'
  BY <1>1, <1>8 DEF IInv, Prunes, Prune
<1>19. LeafTop' = LeafTop /\ RootTop' = RootTop /\ BranchTop' = BranchTop
  BY <1>1, <1>3 DEF LeafTop, RootTop, BranchTop, Written
<1>20. LeafTop \in DOMAIN script /\ RootTop \in DOMAIN script /\ BranchTop \in DOMAIN script
       /\ kept \in Nat /\ 1 <= kept
  BY SMTT(60), <1>7, Tops, BoundsAssumption
<1>21. Leaves'
  <2>1. /\ LeafRows(leafDb.leaves, leafDb.deletes, leafDb.orphans, script', kept, LeafTop)
        /\ LeafRows(leafDisk.leaves, leafDisk.deletes, leafDisk.orphans, script', kept, LeafTop)
    BY SMTT(60), <1>3, <1>6, <1>20, LeafRowsKeep DEF IInv, Leaves
  <2> QED
    BY <1>1, <1>19, <2>1 DEF Leaves
<1>22. Trees'
  <2>1. ASSUME NEW db \in {treeDb, treeDisk}
        PROVE  TreeRows(db, script', shardTrees, kept, r, RootTop, BranchTop)
    <3>1. db \in TreeDbs /\ shardTrees \in BOOLEAN
          /\ TreeRows(db, script, shardTrees, kept, r, RootTop, BranchTop)
      BY DEF IInv, Trees, Types
    <3> QED
      BY SMTT(60), <1>3, <1>6, <1>7, <1>20, <3>1, TreeRowsKeep
  <2> QED
    BY <1>1, <1>19, <2>1 DEF Trees
<1>23. Underway'
  BY <1>1, <1>3, <1>19 DEF IInv, Underway
<1> QED
  BY SMTT(60), <1>6, <1>14, <1>15, <1>16, <1>17, <1>18, <1>21, <1>22, <1>23 DEF IInv

-----------------------------------------------------------------------------
(* The next process.                                                       *)

(* The rows of the two databases are those of the versions up to w.        *)
Stored(w, tdb, ldb, s) ==
  /\ tdb \in TreeDbs /\ ldb \in LeafDbs /\ Scripts(s) /\ w \in DOMAIN s /\ w \in DOMAIN tdb.roots
  /\ TreeRows(tdb, s, shardTrees, kept, w, w, w)
  /\ LeafRows(ldb.leaves, ldb.deletes, ldb.orphans, s, kept, w)

(* The next process, with the version w loaded from these databases.       *)
Reloaded(w, tdb, ldb, s) ==
  /\ LoadVersion(w, tdb, ldb)
  /\ treeDb' = tdb /\ treeDisk' = tdb /\ leafDb' = ldb /\ leafDisk' = ldb /\ pc' = "idle" /\ sig' = NoSignal
  /\ treeLoop' = IdleLoop /\ leafLoop' = IdleLoop /\ returned' = w /\ script' = s
  /\ UNCHANGED <<kept, shardTrees>>

(* Whatever the databases were before.                                     *)
LEMMA RestartFrom ==
  ASSUME IInv, NEW w \in kept .. returned, NEW tdb, NEW ldb, NEW s,
         Stored(w, tdb, ldb, s), Reloaded(w, tdb, ldb, s)
  PROVE  IInv'
<1>1. /\ kept \in 1 .. MaxVersion /\ Scheduled(kept) /\ w \in 1 .. MaxVersion /\ kept <= w
      /\ shardTrees \in BOOLEAN
  <2>1. /\ kept \in 1 .. MaxVersion /\ returned \in 1 .. MaxVersion /\ Scheduled(kept)
        /\ shardTrees \in BOOLEAN
    BY DEF IInv, Types, Memory
  <2> QED
    BY SMTT(60), <2>1, BoundsAssumption
<1>2. RootRows(tdb.roots, s, kept, w)
  BY DEF Stored, TreeRows
<1>3. /\ tree' \in TreeStates /\ tree'.version = w /\ tree'.content = s[w]
      /\ \A c \in tree'.checkpoints : Scheduled(c) /\ c <= w
      /\ \A c \in kept .. w : Scheduled(c) => c \in tree'.checkpoints
      /\ \A n \in tree'.branchOrphans : n[1] <= w /\ s[w][n[2]] # n[1]
      /\ \A c \in 1 .. w, k \in Keys :
           LastScheduled(c, w) /\ s[c][k] # 0 /\ s[w][k] # s[c][k]
           => <<s[c][k], k>> \in tree'.branchOrphans
  BY <1>1, <1>2, LoadedTree DEF Stored, Reloaded
<1>4. /\ IdleLoop.pc = "select" /\ IdleLoop.prune = 0 /\ IdleLoop.next = 0 /\ IdleLoop.checkpoints = {}
      /\ ~IdleLoop.tx /\ ~IdleLoop.err /\ IdleLoop \in LoopStates /\ NoSignal.kind = "none"
  BY SMTT(60), BoundsAssumption DEF IdleLoop, LoopStates, NoSignal
<1>5. Types'
  BY <1>1, <1>3, <1>4 DEF Types, Stored, Reloaded
<1>6. Control'
  BY <1>4 DEF Control, Writing, Reloaded
<1>7. Memory'
  BY <1>1, <1>3, <1>4 DEF Memory, Stored, Reloaded
<1>8. Saves' /\ Prunes'
  BY SMTT(60), <1>1, <1>4 DEF Saves, Prunes, Passed, Reloaded
<1>9. LeafTop' = w /\ RootTop' = w /\ BranchTop' = w
  BY <1>4 DEF LeafTop, RootTop, BranchTop, Written, Reloaded
<1>10. Leaves' /\ Trees'
  BY <1>9 DEF Leaves, Trees, Stored, Reloaded
<1>11. Underway'
  <2>1. kept .. w \subseteq DOMAIN tdb.roots
    BY <1>2 DEF RootRows, Stored
  <2> QED
    BY <1>4, <1>9, <2>1 DEF Underway, Reloaded
<1>12. Scripts(script)'
  BY DEF Stored, Reloaded
<1> QED
  BY <1>5, <1>6, <1>7, <1>8, <1>10, <1>11, <1>12 DEF IInv

(* What is committed is enough, with Revert or without.                    *)
LEMMA RestartStep ==
  ASSUME Hazards = {}, IInv, NEW w \in 1 .. MaxVersion, NEW revert \in BOOLEAN, Restart(w, revert)
  PROVE  IInv'
<1> DEFINE tdb == IF revert THEN RevertedTree(treeDisk, w) ELSE treeDisk
           ldb == IF revert THEN RevertedLeaf(leafDisk, w) ELSE leafDisk
           s == IF revert THEN [v \in {u \in DOMAIN script : u <= w} |-> script[v]] ELSE script
<1>1. /\ w \in kept .. returned /\ (revert /\ ~shardTrees => ~CheckpointAfter(treeDisk, w))
      /\ ~(\E v \in DOMAIN tdb.roots : v > w) /\ Reloaded(w, tdb, ldb, s)
  <2>1. "rootAhead" \notin Hazards /\ "revertUnsharded" \notin Hazards
    BY SMTT(60)
  <2> QED
    BY <2>1 DEF Restart, Reloaded
<1>2. w \in DOMAIN tdb.roots
  BY <1>1 DEF Reloaded, LoadVersion, Loadable
<1>3. /\ treeDisk \in TreeDbs /\ leafDisk \in LeafDbs /\ shardTrees \in BOOLEAN /\ Scripts(script)
      /\ TreeRows(treeDisk, script, shardTrees, kept, returned, RootTop, BranchTop)
      /\ LeafRows(leafDisk.leaves, leafDisk.deletes, leafDisk.orphans, script, kept, LeafTop)
  BY DEF IInv, Types, Trees, Leaves
<1>4. /\ \A t \in {LeafTop, RootTop, BranchTop} : t \in DOMAIN script /\ t \in Nat /\ returned <= t /\ w <= t
      /\ kept \in 1 .. MaxVersion /\ returned \in 1 .. MaxVersion /\ returned \in Nat /\ w \in Nat
      /\ w \in DOMAIN script
  <2>1. /\ \A t \in {LeafTop, RootTop, BranchTop} :
             t \in DOMAIN script /\ t \in 1 .. MaxVersion /\ (t = returned \/ t = returned + 1)
        /\ kept \in 1 .. MaxVersion /\ returned \in 1 .. MaxVersion /\ returned \in DOMAIN script
    BY Tops
  <2> HIDE DEF tdb, ldb, s
  <2>2. w \in 1 .. returned
    BY SMTT(60), <1>1, <2>1
  <2>3. w \in DOMAIN script
    BY <1>3, <2>1, <2>2, ContentRange
  <2> QED
    BY SMTT(60), <1>1, <2>1, <2>2, <2>3, BoundsAssumption
<1>5. CASE ~revert
  <2>1. tdb = treeDisk /\ ldb = leafDisk /\ s = script
    BY <1>5
  <2> HIDE DEF tdb, ldb, s
  <2>2. \A v \in DOMAIN treeDisk.roots : v <= w
    BY SMTT(60), <1>1, <1>3, <1>4, <2>1, TreeDbTypes
  <2>3. TreeRows(treeDisk, script, shardTrees, kept, w, w, w)
    BY SMTT(60), <1>1, <1>3, <1>4, <2>2, TreeRowsBack
  <2>4. LeafRows(leafDisk.leaves, leafDisk.deletes, leafDisk.orphans, script, kept, w)
    BY <1>3, <1>4, LeafRowsBack
  <2> QED
    BY SMTT(60), <1>1, <1>2, <1>3, <1>4, <2>1, <2>3, <2>4, RestartFrom DEF Stored
<1>6. CASE revert
  <2> DEFINE cut == [v \in {u \in DOMAIN script : u <= w} |-> script[v]]
             rt == RevertedTree(treeDisk, w)
             rl == RevertedLeaf(leafDisk, w)
  <2>1. tdb = rt /\ ldb = rl /\ s = cut
    BY <1>6
  <2> HIDE DEF tdb, ldb, s
  <2>2. Scripts(cut) /\ w \in DOMAIN cut
    BY SMTT(60), <1>3, <1>4, ScriptCut
  <2>3. rt \in TreeDbs /\ TreeRows(rt, cut, shardTrees, kept, w, w, w)
    <3>1. CASE shardTrees = TRUE
      BY <1>3, <1>4, <3>1, TreeRowsReverted
    <3>2. CASE shardTrees = FALSE
      <4>1. kept <= w /\ Scheduled(kept)
        BY SMTT(60), <1>1, <1>4 DEF IInv, Memory
      <4>2. ~CheckpointAfter(treeDisk, w)
        BY <1>1, <1>6, <3>2
      <4> QED
        BY <1>3, <1>4, <3>2, <4>1, <4>2, TreeRowsUndone
    <3> QED
      BY <1>3, <3>1, <3>2
  <2>4. LeafRows(rl.leaves, rl.deletes, rl.orphans, cut, kept, w)
    BY <1>3, <1>4, LeafRowsReverted
  <2>5. rl \in LeafDbs
    BY <1>3 DEF RevertedLeaf, LeafDbs
  <2> HIDE DEF cut, rt, rl
  <2> QED
    BY <1>1, <1>2, <2>1, <2>2, <2>3, <2>4, <2>5, RestartFrom DEF Stored
<1> QED
  BY <1>5, <1>6

-----------------------------------------------------------------------------
(* The invariant.                                                          *)

(* Nothing changes.                                                        *)
LEMMA StutterIInv ==
  ASSUME IInv, UNCHANGED vars
  PROVE  IInv'
<1>1. /\ UNCHANGED <<treeDb, treeDisk, leafDb, leafDisk, pc, tree, sig, treeLoop, leafLoop>>
      /\ UNCHANGED <<script, returned, kept, shardTrees>>
  BY DEF vars, dbs, history
<1>2. Types'
  BY <1>1 DEF IInv, Types
<1>3. Control'
  BY <1>1 DEF IInv, Control
<1>4. Scripts(script)' /\ Memory' /\ Saves' /\ Prunes'
  BY <1>1, CallKeeps
<1>5. LeafTop' = LeafTop /\ RootTop' = RootTop /\ BranchTop' = BranchTop
  BY <1>1 DEF LeafTop, RootTop, BranchTop, Written
<1>6. Leaves' /\ Trees' /\ Underway'
  BY <1>1, <1>5, LeavesKeep, TreesKeep DEF IInv, Underway
<1> QED
  BY <1>2, <1>3, <1>4, <1>6 DEF IInv

(* The invariant is inductive.                                             *)
LEMMA NextIInv ==
  ASSUME Hazards = {}, IInv, [Next]_vars
  PROVE  IInv'
<1>1. ASSUME NEW ch \in Changes(tree.content), SaveVersion(ch[1], ch[2])
      PROVE  IInv'
  <2>1. ch[1] \in SUBSET Keys /\ ch[2] \in SUBSET Present(tree.content) /\ ch[1] \cap ch[2] = {}
    BY DEF Changes
  <2> QED
    BY <1>1, <2>1, SaveVersionStep
<1>2. ASSUME NEW v \in 1 .. tree.version, DeleteVersionsTo(v)
      PROVE  IInv'
  BY <1>2, DeleteVersionsToStep
<1>3. CASE TreeStep
  BY SMTT(60), <1>3, TreeReceivesSaveStep, NextShardFails, NextShardStep, SaveSomeBranchesStep, SaveBranchesStep, SaveRootStep,
     SendTreeResultStep, TreeReceivesPruneStep, TreePruneCommitStep, TreePruneEndStep, TreePruneRowStep
     DEF TreeStep
<1>4. CASE LeafStep
  BY SMTT(60), <1>4, LeafReceivesSaveStep, SaveSomeLeavesStep, SaveLeavesStep, SendLeafResultFails, SendLeafResultStep,
     LeafReceivesPruneStep, LeafPruneCommitStep, LeafPruneEndStep, LeafPruneRowStep
     DEF LeafStep
<1>5. ASSUME NEW w \in 1 .. MaxVersion, NEW revert \in BOOLEAN, Restart(w, revert)
      PROVE  IInv'
  BY <1>5, RestartStep
<1>6. CASE Terminated \/ UNCHANGED vars
  BY <1>6, StutterIInv DEF Terminated
<1> QED
  BY <1>1, <1>2, <1>3, <1>4, <1>5, <1>6 DEF Next

(* It holds at any time.                                                   *)
LEMMA Invariance ==
  ASSUME Hazards = {}
  PROVE  Spec => []IInv
<1>1. Init => IInv
  BY InitIInv
<1>2. IInv /\ [Next]_vars => IInv'
  BY NextIInv
<1> QED
  BY <1>1, <1>2, PTL DEF Spec

-----------------------------------------------------------------------------
(* What follows from it.                                                   *)

(* A version that is not on the disk yet is in the transaction, with all   *)
(* after it.                                                               *)
LEMMA LoadableIfIInv ==
  ASSUME IInv
  PROVE  ReturnedVersionsLoadable
<1> SUFFICES ASSUME NEW v \in kept .. returned
             PROVE  \/ Loadable(treeDisk, leafDisk, v)
                    \/ /\ treeLoop.tx
                       /\ Loadable(treeDb, leafDisk, v)
                       /\ v .. returned \cap DOMAIN treeDisk.roots = {}
  BY DEF ReturnedVersionsLoadable
<1>1. /\ \A t \in {LeafTop, RootTop, BranchTop} : t \in DOMAIN script /\ t \in Nat /\ v <= t
      /\ kept \in 1 .. MaxVersion /\ returned \in 1 .. MaxVersion /\ Scheduled(kept) /\ v \in kept .. RootTop
  <2>1. /\ \A t \in {LeafTop, RootTop, BranchTop} :
             t \in DOMAIN script /\ t \in 1 .. MaxVersion /\ (t = returned \/ t = returned + 1)
        /\ kept \in 1 .. MaxVersion /\ returned \in 1 .. MaxVersion
    BY Tops
  <2>2. Scheduled(kept)
    BY DEF IInv, Memory
  <2> QED
    BY SMTT(60), <2>1, <2>2, BoundsAssumption
<1>2. Scripts(script) /\ LeafRows(leafDisk.leaves, leafDisk.deletes, leafDisk.orphans, script, kept, LeafTop)
  BY DEF IInv, Leaves
<1>3. \A db \in {treeDb, treeDisk} :
        db \in TreeDbs /\ TreeRows(db, script, shardTrees, kept, returned, RootTop, BranchTop)
  BY DEF IInv, Types, Trees
<1>4. \A db \in {treeDb, treeDisk} : v \in DOMAIN db.roots => Loadable(db, leafDisk, v)
  BY <1>1, <1>2, <1>3, Loads
<1>5. v \in DOMAIN treeDb.roots
  BY <1>1 DEF IInv, Underway
<1>6. CASE v \in DOMAIN treeDisk.roots
  BY <1>4, <1>6
<1>7. CASE v \notin DOMAIN treeDisk.roots
  <2>1. treeLoop.tx
    BY <1>5, <1>7 DEF IInv, Control
  <2>2. ASSUME NEW u \in v .. returned, u \in DOMAIN treeDisk.roots PROVE FALSE
    <3>1. kept .. u \subseteq DOMAIN treeDisk.roots
      BY <1>3, <2>2 DEF TreeRows, RootRows
    <3>2. v \in kept .. u
      BY SMTT(60), <1>1
    <3> QED
      BY <1>7, <3>1, <3>2
  <2> QED
    BY <1>4, <1>5, <2>1, <2>2
<1> QED
  BY <1>6, <1>7

(* What the tree still has of its last checkpoint is among the branches of *)
(* that checkpoint.                                                        *)
LEMMA ReadableIfIInv ==
  ASSUME IInv
  PROVE  WorkingTreeReadable
<1> DEFINE r == returned
           s == script
           c == Last(tree.checkpoints)
<1> SUFFICES ASSUME pc = "idle",
                    NEW n \in Nodes(tree.content, Present(tree.content))
             PROVE  /\ n \in leafDisk.leaves
                    /\ n[1] <= c => HasBranch(treeDisk, n)
  BY DEF WorkingTreeReadable
<1>1. /\ tree.version = r /\ tree.content = s[r] /\ Scripts(s)
      /\ LeafTop \in {r, r + 1} /\ BranchTop \in {r, r + 1}
      /\ r \in DOMAIN s /\ r \in 1 .. MaxVersion /\ kept \in 1 .. MaxVersion /\ kept <= r
  BY Tops DEF IInv, Memory, Control
<1>2. PICK k \in Keys : n = <<s[r][k], k>> /\ s[r][k] # 0
  BY <1>1 DEF Nodes, Present
<1>3. n \in leafDisk.leaves
  <2>1. r \in kept .. LeafTop
    BY SMTT(60), <1>1
  <2>2. LeafRows(leafDisk.leaves, leafDisk.deletes, leafDisk.orphans, script, kept, LeafTop)
    BY DEF IInv, Leaves
  <2> QED
    BY <1>2, <2>1, <2>2 DEF LeafRows
<1>4. c \in kept .. r /\ LastScheduled(c, r)
  <2>1. /\ tree.checkpoints \in SUBSET (1 .. MaxVersion) /\ Scheduled(kept)
        /\ \A d \in tree.checkpoints : Scheduled(d) /\ d <= r
        /\ \A d \in kept .. r : Scheduled(d) => d \in tree.checkpoints
    BY DEF IInv, Memory, Types, TreeStates
  <2> QED
    BY <1>1, <2>1, LastCheckpoint
<1> HIDE DEF c
<1>5. ASSUME n[1] <= c PROVE HasBranch(treeDisk, n)
  <2>1. c \in DOMAIN s /\ c <= r /\ c \in kept .. BranchTop
    <3>1. c \in 1 .. r
      BY SMTT(60), <1>1, <1>4
    <3> QED
      BY SMTT(60), <1>1, <1>4, <3>1, ContentRange
  <2>2. s[c][k] = s[r][k]
    BY <1>1, <1>2, <1>5, <2>1, StaysSince
  <2>3. <<ShardOf(treeDisk.shards, shardTrees, s[c][k]), <<s[c][k], k>>>> \in treeDisk.branches
    <3>1. BranchRows(treeDisk.branches, treeDisk.shards, script, shardTrees, kept, BranchTop)
      BY DEF IInv, Trees, TreeRows
    <3>2. Scheduled(c)
      BY <1>4 DEF LastScheduled
    <3> QED
      BY <1>2, <2>1, <2>2, <3>1, <3>2 DEF BranchRows
  <2> QED
    BY <1>2, <2>2, <2>3 DEF HasBranch, getShard, ShardOf
<1> QED
  BY <1>3, <1>5

(* A branch of the last checkpoint is in the tree or among its orphans.    *)
LEMMA AccountedForIfIInv ==
  ASSUME IInv
  PROVE  BranchesAccountedFor
<1> DEFINE r == returned
           s == script
<1> SUFFICES ASSUME pc = "idle", ~shardTrees, NEW b \in treeDb.branches
             PROVE  \/ b[2] \in Nodes(tree.content, Present(tree.content)) \cup tree.branchOrphans
                    \/ \E o \in treeDb.orphans : o[1] = b[2]
                    \/ b[2][1] > tree.version
  BY DEF BranchesAccountedFor
<1>1. /\ tree.version = r /\ tree.content = s[r] /\ Scripts(s) /\ RootTop = r
      /\ r \in DOMAIN s /\ r \in 1 .. MaxVersion
  BY Tops DEF IInv, Memory, Control, RootTop, Written
<1> DEFINE u == b[2][1]
           k == b[2][2]
<1>2. u \in 1 .. MaxVersion /\ k \in Keys /\ b[2] = <<u, k>>
  <2>1. b \in (1 .. MaxVersion) \X NodeKeys
    BY DEF IInv, Types, TreeDbs
  <2> QED
    BY SMTT(60), <2>1 DEF NodeKeys
<1>3. \/ \E o \in treeDb.orphans : o[1] = b[2]
      \/ \E c \in 1 .. r : LastScheduled(c, r) /\ s[c][k] = u
      \/ \E c \in DOMAIN s : c > r /\ s[c][k] = u
  <2>1. Stock(treeDb.branches, treeDb.orphans, s, r, r)
    BY <1>1 DEF IInv, Trees, TreeRows
  <2> QED
    BY <2>1 DEF Stock
<1> HIDE DEF u, k
<1>4. s[r][k] = u => b[2] \in Nodes(tree.content, Present(tree.content))
  BY SMTT(60), <1>1, <1>2 DEF Nodes, Present
<1>5. ASSUME NEW c \in 1 .. r, LastScheduled(c, r), s[c][k] = u, s[r][k] # u
      PROVE  b[2] \in tree.branchOrphans
  <2>1. \A v \in 1 .. r, i \in Keys :
          LastScheduled(v, r) /\ s[v][i] # 0 /\ s[r][i] # s[v][i] => <<s[v][i], i>> \in tree.branchOrphans
    BY <1>1 DEF IInv, Memory
  <2>2. u # 0
    BY SMTT(60), <1>2
  <2> QED
    BY <1>2, <1>5, <2>1, <2>2
<1>6. ASSUME NEW c \in DOMAIN s, c > r, s[c][k] = u, ~(u > r)
      PROVE  s[r][k] = u
  <2>1. c \in 1 .. MaxVersion
    BY <1>1, ContentRange
  <2> QED
    BY SMTT(60), <1>1, <1>2, <1>6, <2>1, StaysSince
<1>7. u = b[2][1]
  BY DEF u
<1> QED
  BY SMTT(60), <1>1, <1>3, <1>4, <1>5, <1>6, <1>7

-----------------------------------------------------------------------------
(* Theorems: of every behaviour in which DeleteVersionsTo never goes back, *)
(* no process loads a version before the last root without Revert, no      *)
(* checkpoint is empty, and only the interval decides on checkpoints.      *)

(* The two loops and the databases have their types at any time; a loop    *)
(* that waits in its select has a transaction open exactly if it prunes,   *)
(* and one that has none has committed all its rows.                       *)
THEOREM TypeCorrect ==
  ASSUME Hazards = {}
  PROVE  Spec => []TypeOK
<1>1. IInv => TypeOK
  BY DEF IInv, Types, Control, Writing, TreeStates, TypeOK
<1> QED
  BY <1>1, Invariance, PTL

(* A version whose SaveVersion returned, and that was not pruned, can be   *)
(* loaded whenever the process ends: its checkpoint has all its branches   *)
(* in the shards getShard looks into, and replayChangelog makes of it what *)
(* was saved.  Only roots that treeLoop wrote inside a prune may be lost.  *)
THEOREM ReturnedVersionsLoadableAlways ==
  ASSUME Hazards = {}
  PROVE  Spec => []ReturnedVersionsLoadable
<1>1. IInv => ReturnedVersionsLoadable
  BY LoadableIfIInv
<1> QED
  BY <1>1, Invariance, PTL

(* Pruning, in either loop and at any point, takes away neither a leaf nor *)
(* a branch that the working tree would still read.                        *)
THEOREM WorkingTreeReadableAlways ==
  ASSUME Hazards = {}
  PROVE  Spec => []WorkingTreeReadable
<1>1. IInv => WorkingTreeReadable
  BY ReadableIfIInv
<1> QED
  BY <1>1, Invariance, PTL

(* No branch is leaked between two saves: one that the tree no longer has  *)
(* is an orphan, in the table or in memory, or is about to be written      *)
(* again.                                                                  *)
THEOREM BranchesAccountedForAlways ==
  ASSUME Hazards = {}
  PROVE  Spec => []BranchesAccountedFor
<1>1. IInv => BranchesAccountedFor
  BY AccountedForIfIInv
<1> QED
  BY <1>1, Invariance, PTL
=============================================================================
