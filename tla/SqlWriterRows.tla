-------------------------- MODULE SqlWriterRows ---------------------------
(***************************************************************************)
(* The inductive invariant of SqlWriter, that it holds at the start, and   *)
(* what each way of writing does to the rows of its databases: the change  *)
(* log, the roots, the shards, the branches and their orphans; and what a  *)
(* process that starts later finds in them.  SqlWriterSteps and            *)
(* SqlWriterProofs put this together, action by action.                    *)
(***************************************************************************)
EXTENDS SqlWriter, WellFoundedInduction, TLAPS

(* A leaf is for Zenon unless it names the SMT solver; each prover has up to
   sixty seconds, so that no proof depends on the speed of a machine.       *)
USE ZenonT(60)

-----------------------------------------------------------------------------
(* The inductive invariant.                                                *)

(* Every Interval-th version, from the first, is a checkpoint.             *)
Scheduled(v) == \E i \in 0 .. v : v = 1 + Interval * i

(* c is the last version up to v that is a checkpoint.                     *)
LastScheduled(c, v) == Scheduled(c) /\ c <= v /\ \A d \in c + 1 .. v : ~Scheduled(d)

(* c is no later than the first checkpoint after v.                        *)
Upcoming(c, v) == \A d \in 1 .. MaxVersion : Scheduled(d) /\ d > v => c <= d

NodeKeys == (1 .. MaxVersion) \X Keys
Roots == [content : Contents, checkpoint : BOOLEAN]
RootTables == UNION {[d -> Roots] : d \in SUBSET (1 .. MaxVersion)}
TreeDbs == [roots : RootTables, branches : SUBSET ((1 .. MaxVersion) \X NodeKeys),
            orphans : SUBSET (NodeKeys \X (1 .. MaxVersion)), shards : SUBSET (1 .. MaxVersion)]
LeafDbs == [leaves : SUBSET NodeKeys, deletes : SUBSET NodeKeys,
            orphans : SUBSET (NodeKeys \X (1 .. MaxVersion))]
TreeStates == [version : 1 .. MaxVersion, content : Contents,
               checkpoints : SUBSET (1 .. MaxVersion), branchOrphans : SUBSET NodeKeys]

Types ==
  /\ shardTrees \in BOOLEAN
  /\ treeDb \in TreeDbs /\ treeDisk \in TreeDbs /\ leafDb \in LeafDbs /\ leafDisk \in LeafDbs
  /\ tree \in TreeStates /\ treeLoop \in LoopStates /\ leafLoop \in LoopStates
  /\ returned \in 1 .. MaxVersion /\ kept \in 1 .. MaxVersion

Writing == {"shard", "branches", "root", "result"}

(* Where the caller and the two loops are; and a loop that has no          *)
(* transaction open has committed everything.                              *)
Control ==
  /\ pc \in {"idle", "failed", "treeCh", "leafCh", "treeResult", "leafResult", "treePruneCh", "leafPruneCh"}
  /\ pc \in {"idle", "failed"} => sig.kind = "none"
  /\ pc \in {"treeCh", "leafCh", "treeResult", "leafResult"} => sig.kind = "save"
  /\ pc \in {"treePruneCh", "leafPruneCh"} => sig.kind = "prune"
  /\ treeLoop.pc \in IF pc \in {"leafCh", "treeResult"} THEN Writing ELSE {"select", "end"}
  /\ leafLoop.pc \in IF pc \in {"treeResult", "leafResult"} THEN {"leaves", "result"} ELSE {"select", "end"}
  /\ treeLoop.pc \in {"shard", "branches"} => sig.checkpoint
  /\ treeLoop.err => pc \in {"failed", "leafResult"} \/ treeLoop.pc = "result"
  /\ treeLoop.tx <=> /\ treeLoop.prune # 0 /\ treeLoop.pc # "end"
                     /\ ~ (treeLoop.pc \in Writing /\ sig.checkpoint)
  /\ leafLoop.tx <=> leafLoop.prune # 0 /\ leafLoop.pc = "select"
  /\ ~treeLoop.tx => treeDisk = treeDb
  /\ ~leafLoop.tx => leafDisk = leafDb

(* What the versions hold.  A subtree is in all versions from the one that *)
(* wrote it up to any other that has it, and where nothing is changed all  *)
(* versions have the same.                                                 *)
Scripts(s) ==
  /\ s = [v \in DOMAIN s |-> s[v]] /\ DOMAIN s \subseteq 1 .. MaxVersion
  /\ \A v \in DOMAIN s : s[v] \in Contents /\ 1 .. v \subseteq DOMAIN s
  /\ \A v \in DOMAIN s, k \in Keys :
       /\ s[v][k] <= v
       /\ v > 1 => s[v][k] \in {0, v, s[v - 1][k]}
       /\ \A w \in 1 .. v : s[v][k] # 0 /\ s[v][k] <= w => s[w][k] = s[v][k]
       /\ \A w \in 1 .. v : (\A u \in w + 1 .. v : s[u][k] = s[u - 1][k]) => s[v][k] = s[w][k]

(* The tree in memory.                                                     *)
Memory ==
  /\ kept <= returned /\ Scheduled(kept)
  /\ tree.version = IF sig.kind = "save" \/ pc = "failed" THEN returned + 1 ELSE returned
  /\ tree.version \in DOMAIN script /\ tree.content = script[tree.version]
  /\ \A c \in tree.checkpoints : Scheduled(c) /\ c <= returned
  /\ \A c \in kept .. returned : Scheduled(c) => c \in tree.checkpoints
  /\ \A n \in tree.branchOrphans : n[1] <= returned /\ script[tree.version][n[2]] # n[1]
  /\ \A c \in 1 .. returned, k \in Keys :
       LastScheduled(c, returned) /\ script[c][k] # 0 /\ script[tree.version][k] # script[c][k]
       => <<script[c][k], k>> \in tree.branchOrphans

(* The rows that version v adds to the change log.                         *)
LeavesOf(s, v) == {<<v, k>> : k \in {k \in Keys : s[v][k] = v}}
DeletesOf(s, v) == {<<v, k>> : k \in {k \in Keys : s[v][k] = 0 /\ s[v - 1][k] # 0}}
OrphansOf(ns, v) == {<<n, v>> : n \in ns}

(* The save under way.                                                     *)
Saves ==
  sig.kind = "save" =>
    LET v == sig.version
    IN  /\ v = returned + 1 /\ sig.content = script[v]
        /\ sig.checkpoint \in BOOLEAN /\ (sig.checkpoint <=> Scheduled(v))
        /\ sig.leaves = LeavesOf(script, v) /\ sig.deletes = DeletesOf(script, v)
        /\ sig.leafOrphans \subseteq NodeKeys
        /\ \A n \in sig.leafOrphans : n[1] < v /\ script[v][n[2]] # n[1]
        /\ sig.branches = IF sig.checkpoint THEN Nodes(script[v], Present(script[v])) ELSE {}
        /\ sig.checkpoint => sig.branches # {}
        /\ sig.branchOrphans = tree.branchOrphans

(* No checkpoint up to v but the oldest one that is kept, or earlier.      *)
Passed(v, kp) == \A c \in 1 .. v : Scheduled(c) => c <= kp

Prune(v, cps) == /\ v \in 1 .. MaxVersion /\ Passed(v, kept)
                 /\ cps \subseteq 1 .. MaxVersion /\ \A c \in cps : Scheduled(c)
                 /\ \E c \in cps : c <= v

(* What is to be pruned is not kept.                                       *)
Prunes ==
  /\ \A l \in {treeLoop, leafLoop} :
       /\ Passed(l.prune, kept) /\ \A c \in l.checkpoints : Scheduled(c)
       /\ l.next # 0 => l.prune # 0 /\ Prune(l.next, l.checkpoints)
  /\ leafLoop.prune <= kept
  /\ sig.kind = "prune" => Prune(sig.version, sig.checkpoints)

(* The rows of the change log: they are true, and those that the versions  *)
(* from kp up to top need are there.                                       *)
LeafRows(leaves, deletes, orphans, s, kp, top) ==
  /\ \A n \in leaves : n[1] \in DOMAIN s /\ s[n[1]][n[2]] = n[1]
  /\ \A n \in deletes : n[1] \in DOMAIN s /\ n[1] > 1 /\ s[n[1]][n[2]] = 0
  /\ \A o \in orphans : o[2] \in DOMAIN s /\ o[1][1] < o[2] /\ s[o[2]][o[1][2]] # o[1][1]
  /\ \A v \in kp .. top, k \in Keys : s[v][k] # 0 => <<s[v][k], k>> \in leaves
  /\ \A v \in kp + 1 .. top, k \in Keys : s[v][k] = 0 /\ s[v - 1][k] # 0 => <<v, k>> \in deletes

(* The roots: they are true, none is missing before another, and no        *)
(* checkpoint is missing.                                                  *)
RootRows(roots, s, kp, top) ==
  /\ \A v \in DOMAIN roots :
       /\ v \in DOMAIN s /\ v <= top
       /\ roots[v].content = s[v] /\ (roots[v].checkpoint <=> Scheduled(v))
       /\ kp .. v \subseteq DOMAIN roots
  /\ \A c \in kp .. top : Scheduled(c) => c \in DOMAIN roots

(* The shards: one for each checkpoint, and one more if a save of a        *)
(* checkpoint did not end.                                                 *)
ShardRows(shards, branches, sharded, r, top) ==
  /\ 1 \in shards
  /\ \A c \in shards : Scheduled(c) /\ (c > r => Upcoming(c, r))
  /\ ~sharded => shards = {1} /\ \A b \in branches : b[1] = 1
  /\ sharded => \A c \in 1 .. top : Scheduled(c) => c \in shards

ShardOf(shards, sharded, v) == IF sharded THEN Find(shards, v) ELSE Max(shards)

OrphanRows(orphans, s) ==
  \A o \in orphans : /\ o[2] \in DOMAIN s /\ Scheduled(o[2])
                     /\ o[1][1] < o[2] /\ s[o[2]][o[1][2]] # o[1][1]

(* The branches of the checkpoints from kp to top, each in its shard.      *)
BranchRows(branches, shards, s, sharded, kp, top) ==
  \A c \in kp .. top, k \in Keys :
    Scheduled(c) /\ s[c][k] # 0 => <<ShardOf(shards, sharded, s[c][k]), <<s[c][k], k>>>> \in branches

(* A branch that is there is of the last checkpoint, or an orphan, or of a *)
(* checkpoint whose save did not end.                                      *)
Stock(branches, orphans, s, r, top) ==
  \A b \in branches :
    \/ \E o \in orphans : o[1] = b[2]
    \/ \E c \in 1 .. top : LastScheduled(c, top) /\ s[c][b[2][2]] = b[2][1]
    \/ \E c \in DOMAIN s : Scheduled(c) /\ c > top /\ Upcoming(c, r) /\ s[c][b[2][2]] = b[2][1]

(* How far the leaves, the roots and the branches are written.             *)
LeafTop == IF leafLoop.pc = "result" THEN sig.version ELSE returned
Written(pcs) == sig.kind = "save" /\ ~treeLoop.err /\ (treeLoop.pc \in pcs \/ pc = "leafResult")
RootTop == IF Written({"result"}) THEN sig.version ELSE returned
BranchTop == IF Written({"root", "result"}) THEN sig.version ELSE returned

Leaves ==
  /\ LeafRows(leafDb.leaves, leafDb.deletes, leafDb.orphans, script, kept, LeafTop)
  /\ LeafRows(leafDisk.leaves, leafDisk.deletes, leafDisk.orphans, script, kept, LeafTop)

(* The rows of the tree database db: its roots are written up to rootTop,  *)
(* its branches up to branchTop.                                           *)
TreeRows(db, s, sharded, kp, r, rootTop, branchTop) ==
  /\ RootRows(db.roots, s, kp, rootTop)
  /\ ShardRows(db.shards, db.branches, sharded, r, branchTop)
  /\ OrphanRows(db.orphans, s)
  /\ BranchRows(db.branches, db.shards, s, sharded, kp, branchTop)
  /\ ~sharded => Stock(db.branches, db.orphans, s, r, rootTop)

Trees == \A db \in {treeDb, treeDisk} :
           TreeRows(db, script, shardTrees, kept, returned, RootTop, BranchTop)

(* The roots that treeLoop has written, and what it has written of a       *)
(* checkpoint so far.                                                      *)
Underway ==
  /\ kept .. RootTop \subseteq DOMAIN treeDb.roots
  /\ treeLoop.pc = "branches" /\ shardTrees => sig.version \in treeDb.shards
  /\ treeLoop.pc = "root" /\ sig.checkpoint =>
       \A n \in sig.branchOrphans : <<n, sig.version>> \in treeDb.orphans

IInv == Types /\ Control /\ Scripts(script) /\ Memory /\ Saves /\ Prunes /\ Leaves /\ Trees /\ Underway

-----------------------------------------------------------------------------
(* Numbers, and the searches of VersionRange.                              *)

(* A set of natural numbers that is not empty has a least element.         *)
LEMMA LeastNumber ==
  ASSUME NEW S \in SUBSET Nat, S # {}
  PROVE  \E x \in S : \A y \in S : x <= y
<1>1. IsWellFoundedOn(OpToRel(<, Nat), Nat)
  BY NatLessThanWellFounded
<1>2. PICK x \in S : \A y \in S : ~(<<y, x>> \in OpToRel(<, Nat))
  BY <1>1, WFMin
<1>3. \A y \in S : ~(y < x)
  BY <1>2 DEF OpToRel
<1> QED
  BY SMTT(60), <1>3

(* The least of a set of versions.                                         *)
LEMMA MinIs ==
  ASSUME NEW S \in SUBSET (1 .. MaxVersion), S # {}
  PROVE  Min(S) \in S /\ \A y \in S : Min(S) <= y
<1>1. S \in SUBSET Nat
  BY SMTT(60), BoundsAssumption
<1>2. \E x \in S : \A y \in S : x <= y
  BY <1>1, LeastNumber
<1> QED
  BY <1>2 DEF Min

(* The greatest of a set of versions.                                      *)
LEMMA MaxIs ==
  ASSUME NEW S \in SUBSET (1 .. MaxVersion), S # {}
  PROVE  Max(S) \in S /\ \A y \in S : y <= Max(S)
<1> DEFINE T == {MaxVersion - x : x \in S}
<1>1. \A x \in S : x \in Nat /\ MaxVersion - x \in Nat
  BY SMTT(60), BoundsAssumption
<1>2. T \in SUBSET Nat /\ T # {}
  BY <1>1
<1>3. PICK z \in T : \A y \in T : z <= y
  BY <1>2, LeastNumber
<1>4. PICK x \in S : z = MaxVersion - x
  OBVIOUS
<1>5. ASSUME NEW y \in S PROVE x >= y
  <2>1. MaxVersion - x <= MaxVersion - y
    BY <1>3, <1>4
  <2>2. x \in Int /\ y \in Int /\ MaxVersion \in Int
    BY SMTT(60), <1>1, BoundsAssumption
  <2> QED
    BY SMTT(60), <2>1, <2>2
<1>6. \E m \in S : \A y \in S : m >= y
  BY <1>5
<1> QED
  BY <1>6 DEF Max

(* FindPrevious is the greatest version up to v, and -1 if there is none.  *)
LEMMA FindPreviousIs ==
  ASSUME NEW vs \in SUBSET (1 .. MaxVersion), NEW v \in Int
  PROVE  /\ (\E c \in vs : c <= v) =>
              /\ FindPrevious(vs, v) \in vs /\ FindPrevious(vs, v) <= v
              /\ \A c \in vs : c <= v => c <= FindPrevious(vs, v)
         /\ ~(\E c \in vs : c <= v) => FindPrevious(vs, v) = -1
<1>1. CASE \E c \in vs : c <= v
  <2> DEFINE S == {c \in vs : c <= v}
  <2>1. S \in SUBSET (1 .. MaxVersion) /\ S # {}
    BY <1>1
  <2>2. FindPrevious(vs, v) = Max(S)
    BY <1>1 DEF FindPrevious
  <2>3. Max(S) \in S /\ \A y \in S : y <= Max(S)
    BY <2>1, MaxIs
  <2> QED
    BY <1>1, <2>2, <2>3
<1>2. CASE ~ \E c \in vs : c <= v
  BY <1>2 DEF FindPrevious
<1> QED
  BY <1>1, <1>2

(* Find is the least version from v on.                                    *)
LEMMA FindIs ==
  ASSUME NEW vs \in SUBSET (1 .. MaxVersion), NEW v \in Int, \E c \in vs : c >= v
  PROVE  /\ Find(vs, v) \in vs /\ Find(vs, v) >= v
         /\ \A c \in vs : c >= v => Find(vs, v) <= c
<1> DEFINE S == {c \in vs : c >= v}
<1>1. S \in SUBSET (1 .. MaxVersion) /\ S # {}
  OBVIOUS
<1>2. Find(vs, v) = Min(S)
  BY DEF Find
<1>3. Min(S) \in S /\ \A y \in S : Min(S) <= y
  BY <1>1, MinIs
<1> QED
  BY <1>2, <1>3

(* Two sets with the same versions from v up to c give the same result.    *)
LEMMA FindSame ==
  ASSUME NEW vs \in SUBSET (1 .. MaxVersion), NEW ws \in SUBSET (1 .. MaxVersion), NEW v \in Int,
         NEW c \in vs \cap ws, v <= c,
         \A d \in 1 .. MaxVersion : d <= c => (d \in vs <=> d \in ws)
  PROVE  Find(vs, v) = Find(ws, v)
<1> DEFINE x == Find(vs, v)
           y == Find(ws, v)
<1>1. /\ x \in vs /\ x >= v /\ \A d \in vs : d >= v => x <= d
      /\ y \in ws /\ y >= v /\ \A d \in ws : d >= v => y <= d
  BY FindIs
<1> HIDE DEF x, y
<1>2. x <= c /\ y <= c
  BY <1>1
<1>3. x \in ws /\ y \in vs
  BY <1>1, <1>2
<1>4. x <= y /\ y <= x /\ x \in Int /\ y \in Int
  BY SMTT(60), <1>1, <1>3
<1>5. x = y
  BY SMTT(60), <1>4
<1> QED
  BY <1>5 DEF x, y

(* Version 1 is a checkpoint.                                              *)
LEMMA ScheduledFirst == Scheduled(1)
<1>1. 1 = 1 + Interval * 0 /\ 0 \in 0 .. 1
  BY SMTT(60), IntervalAssumption
<1> QED
  BY <1>1 DEF Scheduled

(* The checkpoint after the one at p is at p + Interval.                   *)
LEMMA ScheduledNext ==
  ASSUME NEW p \in Nat, Scheduled(p)
  PROVE  Scheduled(p + Interval)
<1>1. PICK i \in 0 .. p : p = 1 + Interval * i
  BY DEF Scheduled
<1>2. Interval * (i + 1) = Interval * i + Interval
  BY SMTT(60), IntervalAssumption
<1>3. p + Interval = 1 + Interval * (i + 1) /\ i + 1 \in 0 .. p + Interval
  BY SMTT(60), <1>1, <1>2, IntervalAssumption
<1> QED
  BY <1>3 DEF Scheduled

(* Two checkpoints are at least an interval apart.                         *)
LEMMA ScheduledApart ==
  ASSUME NEW p \in Nat, NEW q \in Nat, Scheduled(p), Scheduled(q), p < q
  PROVE  p + Interval <= q
<1>1. PICK i \in 0 .. p : p = 1 + Interval * i
  BY DEF Scheduled
<1>2. PICK j \in 0 .. q : q = 1 + Interval * j
  BY DEF Scheduled
<1>3. i < j
  BY SMTT(60), <1>1, <1>2, IntervalAssumption
<1>4. PICK d \in Nat : j = i + 1 + d
  BY SMTT(60), <1>3
<1>5. Interval * j = Interval * i + Interval + Interval * d /\ Interval * d >= 0
  BY SMTT(60), <1>4, IntervalAssumption
<1> QED
  BY SMTT(60), <1>1, <1>2, <1>5, IntervalAssumption

(* SaveVersion checkpoints when it is time to: no checkpoint is skipped,   *)
(* and none is added.                                                      *)
LEMMA ScheduledWhenDue ==
  ASSUME NEW c \in Nat, NEW v \in Nat, LastScheduled(c, v)
  PROVE  Scheduled(v + 1) <=> v + 1 - c >= Interval
<1>1. Scheduled(c) /\ c <= v /\ \A d \in c + 1 .. v : ~Scheduled(d)
  BY DEF LastScheduled
<1>2. Scheduled(v + 1) => v + 1 - c >= Interval
  BY SMTT(60), <1>1, ScheduledApart, IntervalAssumption
<1>3. Scheduled(c + Interval) /\ c + Interval \in Nat /\ c + Interval >= c + 1
  BY SMTT(60), <1>1, ScheduledNext, IntervalAssumption
<1>4. c + Interval > v
  BY SMTT(60), <1>1, <1>3
<1> QED
  BY SMTT(60), <1>1, <1>2, <1>3, <1>4, IntervalAssumption

(* The last checkpoint the tree knows is the last there should be.         *)
LEMMA LastCheckpoint ==
  ASSUME NEW cps \in SUBSET (1 .. MaxVersion), NEW kp \in 1 .. MaxVersion, NEW r \in 1 .. MaxVersion,
         kp <= r, Scheduled(kp), \A c \in cps : Scheduled(c) /\ c <= r,
         \A c \in kp .. r : Scheduled(c) => c \in cps
  PROVE  Last(cps) \in kp .. r /\ LastScheduled(Last(cps), r)
<1> DEFINE m == Max(cps)
<1>1. kp \in cps
  BY SMTT(60)
<1>2. m \in cps /\ \A c \in cps : c <= m
  BY <1>1, MaxIs
<1>3. Last(cps) = m
  BY <1>1 DEF Last
<1> HIDE DEF m
<1>4. m \in kp .. r
  BY SMTT(60), <1>1, <1>2
<1>5. \A d \in m + 1 .. r : ~Scheduled(d)
  <2> SUFFICES ASSUME NEW d \in m + 1 .. r, Scheduled(d) PROVE FALSE
    OBVIOUS
  <2>1. d \in kp .. r /\ ~(d <= m)
    BY SMTT(60), <1>4
  <2> QED
    BY <1>2, <2>1
<1> QED
  BY <1>2, <1>3, <1>4, <1>5 DEF LastScheduled

-----------------------------------------------------------------------------
(* The first state.                                                        *)

(* Version 1 has been saved, and nothing else has happened.                *)
LEMMA InitIInv ==
  ASSUME Init
  PROVE  IInv
<1> USE DEF Init
<1>1. 1 \in 1 .. MaxVersion /\ First \in Contents /\ \A k \in Keys : First[k] = 1
  BY SMTT(60), BoundsAssumption DEF First, Contents
<1>2. /\ Nodes(First, Keys) \subseteq NodeKeys
      /\ Nodes(First, Keys) = {<<1, k>> : k \in Keys}
  BY SMTT(60), <1>1 DEF Nodes, NodeKeys
<1>3. Scheduled(1) /\ LastScheduled(1, 1) /\ \A v \in 1 .. 1 : v = 1
  BY SMTT(60), ScheduledFirst DEF LastScheduled
<1> DEFINE rt == [v \in {1} |-> [content |-> First, checkpoint |-> TRUE]]
<1>4. rt \in RootTables /\ DOMAIN rt = {1} /\ rt[1].content = First /\ rt[1].checkpoint = TRUE
  <2>1. rt \in [{1} -> Roots] /\ {1} \in SUBSET (1 .. MaxVersion)
    BY <1>1 DEF Roots
  <2> QED
    BY <2>1 DEF RootTables
<1> HIDE DEF rt
<1> DEFINE bs == {<<1, n>> : n \in Nodes(First, Keys)}
<1>5. treeDb = [roots |-> rt, branches |-> bs, orphans |-> {}, shards |-> {1}] /\ treeDisk = treeDb
  BY DEF rt
<1> USE <1>5
<1>6a. /\ bs \in SUBSET ((1 .. MaxVersion) \X NodeKeys) /\ \A k \in Keys : <<1, <<1, k>>>> \in bs
       /\ \A b \in bs : b[1] = 1 /\ b[2][1] = 1 /\ b[2][2] \in Keys
  <2> HIDE DEF Init
  <2>1. bs = {<<1, <<1, k>>>> : k \in Keys}
    BY <1>2
  <2>2. bs \in SUBSET ((1 .. MaxVersion) \X NodeKeys)
    BY SMTT(60), <1>1, <2>1 DEF NodeKeys
  <2>3. \A k \in Keys : <<1, <<1, k>>>> \in bs
    BY <2>1
  <2>4. \A b \in bs : b[1] = 1 /\ b[2][1] = 1 /\ b[2][2] \in Keys
    BY SMTT(60), <2>1
  <2> QED
    BY <2>2, <2>3, <2>4
<1> HIDE DEF bs
<1>6. IdleLoop \in LoopStates
  BY SMTT(60), BoundsAssumption DEF IdleLoop, LoopStates
<1>7. Types
  <2>1. treeDb \in TreeDbs
    <3> HIDE DEF Init
    <3>2. {1} \in SUBSET (1 .. MaxVersion)
      BY <1>1
    <3> QED
      BY <1>4, <1>6a, <3>2 DEF TreeDbs
  <2>2. leafDb \in LeafDbs
    BY <1>2 DEF LeafDbs
  <2>3. tree \in TreeStates
    BY <1>1 DEF TreeStates
  <2> QED
    BY <1>1, <1>6, <2>1, <2>2, <2>3 DEF Types
<1>8. Control
  BY DEF Control, NoSignal, IdleLoop
<1>9. DOMAIN script = {1} /\ script[1] = First /\ script = [v \in DOMAIN script |-> script[v]]
  OBVIOUS
<1>10. Scripts(script)
  BY SMTT(60), <1>1, <1>3, <1>9 DEF Scripts
<1>11. tree.version = 1 /\ tree.content = First /\ tree.checkpoints = {1} /\ tree.branchOrphans = {}
       /\ sig.kind = "none" /\ treeLoop = IdleLoop /\ leafLoop = IdleLoop /\ IdleLoop.pc = "select"
       /\ IdleLoop.prune = 0 /\ IdleLoop.next = 0 /\ IdleLoop.checkpoints = {}
       /\ kept = 1 /\ returned = 1 /\ shardTrees \in BOOLEAN
  BY DEF NoSignal, IdleLoop
<1>12. Memory
  BY <1>1, <1>3, <1>9, <1>11 DEF Memory, LastScheduled
<1>13. Saves
  BY <1>11 DEF Saves
<1>14. Prunes
  BY SMTT(60), <1>11 DEF Prunes, Passed
<1>15. LeafTop = 1 /\ RootTop = 1 /\ BranchTop = 1
  BY <1>11 DEF LeafTop, RootTop, BranchTop, Written
<1>16. Leaves
  BY SMTT(60), <1>1, <1>2, <1>3, <1>9, <1>15 DEF Leaves, LeafRows
<1> HIDE DEF Init
<1>18. TreeRows(treeDb, script, shardTrees, 1, 1, 1, 1)
  <2>1. RootRows(rt, script, 1, 1)
    BY SMTT(60), <1>3, <1>4, <1>9 DEF RootRows
  <2>2. ShardRows({1}, bs, shardTrees, 1, 1)
    BY SMTT(60), <1>3, <1>6a DEF ShardRows
  <2>3. OrphanRows({}, script)
    BY DEF OrphanRows
  <2>4. \A sh \in BOOLEAN : ShardOf({1}, sh, 1) = 1
    <3>1. Find({1}, 1) = 1
      BY SMTT(60), <1>1, FindIs
    <3>2. Max({1}) = 1
      BY SMTT(60), <1>1, MaxIs
    <3> QED
      BY <3>1, <3>2 DEF ShardOf
  <2>5. BranchRows(bs, {1}, script, shardTrees, 1, 1)
    BY SMTT(60), <1>1, <1>3, <1>6a, <1>9, <1>11, <2>4 DEF BranchRows
  <2>6. Stock(bs, {}, script, 1, 1)
    BY SMTT(60), <1>1, <1>3, <1>6a, <1>9 DEF Stock
  <2> QED
    BY <2>1, <2>2, <2>3, <2>5, <2>6 DEF TreeRows
<1>19. Trees
  BY <1>11, <1>15, <1>18 DEF Trees
<1>20. Underway
  BY <1>3, <1>4, <1>11, <1>15 DEF Underway
<1> QED
  BY <1>7, <1>8, <1>10, <1>12, <1>13, <1>14, <1>16, <1>19, <1>20 DEF IInv

-----------------------------------------------------------------------------
(* What the versions hold.                                                 *)

(* A subtree that version v has was there in all versions since it was     *)
(* written; so one that a version no longer has does not come back.        *)
LEMMA StaysSince ==
  ASSUME NEW s, Scripts(s), NEW v \in DOMAIN s, NEW w \in DOMAIN s, NEW k \in Keys,
         w <= v, s[v][k] # 0, s[v][k] <= w
  PROVE  s[w][k] = s[v][k]
<1>1. w \in 1 .. v
  BY SMTT(60) DEF Scripts
<1> QED
  BY <1>1 DEF Scripts

(* The versions of a script, and what they may hold.                       *)
LEMMA ContentRange ==
  ASSUME NEW s, Scripts(s), NEW v \in DOMAIN s
  PROVE  /\ v \in 1 .. MaxVersion /\ s[v] \in Contents
         /\ \A k \in Keys : s[v][k] \in 0 .. MaxVersion /\ s[v][k] <= v
         /\ \A w \in 1 .. v : w \in DOMAIN s
<1>1. v \in 1 .. MaxVersion /\ s[v] \in Contents /\ \A w \in 1 .. v : w \in DOMAIN s
  BY DEF Scripts
<1>2. \A k \in Keys : s[v][k] \in 0 .. MaxVersion
  BY <1>1 DEF Contents
<1> QED
  BY <1>1, <1>2 DEF Scripts

(* A version that SaveVersion adds to the script.                          *)
LEMMA ScriptGrows ==
  ASSUME NEW s, Scripts(s), NEW v \in 1 .. MaxVersion, v > 1, v - 1 \in DOMAIN s, v \notin DOMAIN s,
         NEW c \in Contents, \A k \in Keys : c[k] \in {0, v, s[v - 1][k]}
  PROVE  Scripts(Insert(s, v, c))
<1> DEFINE t == Insert(s, v, c)
<1>1. DOMAIN t = DOMAIN s \cup {v} /\ t[v] = c /\ t = [u \in DOMAIN t |-> t[u]]
  BY DEF Insert
<1>2. \A u \in DOMAIN s : t[u] = s[u]
  BY DEF Insert
<1>3. \A u \in DOMAIN s : u \in 1 .. MaxVersion /\ u < v
  BY SMTT(60) DEF Scripts
<1>4. 1 .. v \subseteq DOMAIN t
  <2>1. \A u \in 1 .. v - 1 : u \in DOMAIN s
    BY <1>3, ContentRange
  <2> QED
    BY SMTT(60), <1>1, <2>1, BoundsAssumption
<1> HIDE DEF t
<1>5. DOMAIN t \subseteq 1 .. MaxVersion
  BY <1>1, <1>3
<1>6. \A u \in DOMAIN t : t[u] \in Contents /\ 1 .. u \subseteq DOMAIN t
  BY <1>1, <1>2, <1>4 DEF Scripts
<1>7. ASSUME NEW u \in DOMAIN s, NEW k \in Keys
      PROVE  /\ t[u][k] <= u
             /\ u > 1 => t[u][k] \in {0, u, t[u - 1][k]}
             /\ \A w \in 1 .. u : t[u][k] # 0 /\ t[u][k] <= w => t[w][k] = t[u][k]
             /\ \A w \in 1 .. u : (\A x \in w + 1 .. u : t[x][k] = t[x - 1][k]) => t[u][k] = t[w][k]
  <2>1. \A w \in 1 .. u : w \in DOMAIN s /\ t[w] = s[w]
    BY <1>2, ContentRange
  <2>2. u \in 1 .. u /\ (u > 1 => u - 1 \in 1 .. u)
    BY SMTT(60), <1>3
  <2>3. \A w \in 1 .. u : \A x \in w + 1 .. u : t[x] = s[x] /\ t[x - 1] = s[x - 1]
    <3>1. \A w \in 1 .. u : \A x \in w + 1 .. u : x \in 1 .. u /\ x - 1 \in 1 .. u
      BY SMTT(60), <1>3
    <3> QED
      BY <2>1, <3>1
  <2>4. t[u] = s[u] /\ (u > 1 => t[u - 1] = s[u - 1])
    BY <2>1, <2>2
  <2>5. ASSUME NEW w \in 1 .. u, \A x \in w + 1 .. u : t[x][k] = t[x - 1][k]
        PROVE  t[u][k] = t[w][k]
    <3>1. \A x \in w + 1 .. u : s[x][k] = s[x - 1][k]
      BY <2>3, <2>5
    <3>2. s[u][k] = s[w][k]
      BY SMTT(60), <3>1 DEF Scripts
    <3> QED
      BY <2>1, <2>4, <3>2
  <2>6. t[u][k] <= u /\ (u > 1 => t[u][k] \in {0, u, t[u - 1][k]})
    BY <2>4 DEF Scripts
  <2>7. \A w \in 1 .. u : t[u][k] # 0 /\ t[u][k] <= w => t[w][k] = t[u][k]
    BY SMTT(60), <2>1, <2>4 DEF Scripts
  <2> QED
    BY <2>5, <2>6, <2>7
<1>8. ASSUME NEW k \in Keys
      PROVE  /\ t[v][k] <= v
             /\ t[v][k] \in {0, v, t[v - 1][k]}
             /\ \A w \in 1 .. v : t[v][k] # 0 /\ t[v][k] <= w => t[w][k] = t[v][k]
             /\ \A w \in 1 .. v : (\A x \in w + 1 .. v : t[x][k] = t[x - 1][k]) => t[v][k] = t[w][k]
  <2>1. t[v - 1] = s[v - 1] /\ t[v] = c /\ v - 1 \in 1 .. v /\ v - 1 \in DOMAIN s
    BY SMTT(60), <1>1, <1>2
  <2>2. t[v][k] \in {0, v, t[v - 1][k]} /\ t[v - 1][k] <= v - 1 /\ t[v - 1][k] \in 0 .. MaxVersion
    BY <2>1, ContentRange
  <2>3. t[v][k] <= v
    BY SMTT(60), <2>2
  <2>4. ASSUME NEW w \in 1 .. v, t[v][k] # 0, t[v][k] <= w
        PROVE  t[w][k] = t[v][k]
    <3>1. CASE w = v
      BY <3>1
    <3>2. CASE w # v
      <4>1. w \in 1 .. v - 1 /\ t[v][k] = t[v - 1][k]
        BY SMTT(60), <2>2, <2>4, <3>2
      <4> QED
        BY <1>7, <2>1, <2>4, <4>1
    <3> QED
      BY <3>1, <3>2
  <2>5. ASSUME NEW w \in 1 .. v, \A x \in w + 1 .. v : t[x][k] = t[x - 1][k]
        PROVE  t[v][k] = t[w][k]
    <3>1. CASE w = v
      BY <3>1
    <3>2. CASE w # v
      <4>1. w \in 1 .. v - 1 /\ v \in w + 1 .. v /\ \A x \in w + 1 .. v - 1 : x \in w + 1 .. v
        BY SMTT(60), <3>2
      <4>2. t[v][k] = t[v - 1][k] /\ \A x \in w + 1 .. v - 1 : t[x][k] = t[x - 1][k]
        BY <2>5, <4>1
      <4>3. t[v - 1][k] = t[w][k]
        BY <1>7, <2>1, <4>1, <4>2
      <4> QED
        BY <4>2, <4>3
    <3> QED
      BY <3>1, <3>2
  <2> QED
    BY <2>2, <2>3, <2>4, <2>5
<1>9. \A u \in DOMAIN t : u \in DOMAIN s \/ u = v
  BY <1>1
<1>10. \A u \in DOMAIN t, k \in Keys :
       /\ t[u][k] <= u
       /\ u > 1 => t[u][k] \in {0, u, t[u - 1][k]}
       /\ \A w \in 1 .. u : t[u][k] # 0 /\ t[u][k] <= w => t[w][k] = t[u][k]
       /\ \A w \in 1 .. u : (\A x \in w + 1 .. u : t[x][k] = t[x - 1][k]) => t[u][k] = t[w][k]
  BY SMTT(60), <1>7, <1>8, <1>9
<1>11. Scripts(t)
  BY <1>1, <1>5, <1>6, <1>10 DEF Scripts
<1> QED
  BY <1>11 DEF t

(* Revert forgets the later versions.                                      *)
LEMMA ScriptCut ==
  ASSUME NEW s, Scripts(s), NEW w \in DOMAIN s
  PROVE  Scripts([v \in {u \in DOMAIN s : u <= w} |-> s[v]])
<1> DEFINE t == [v \in {u \in DOMAIN s : u <= w} |-> s[v]]
<1>1. /\ DOMAIN t = {u \in DOMAIN s : u <= w} /\ t = [u \in DOMAIN t |-> t[u]]
      /\ \A u \in DOMAIN t : t[u] = s[u]
  OBVIOUS
<1> HIDE DEF t
<1>2. DOMAIN t \subseteq 1 .. MaxVersion /\ w \in 1 .. MaxVersion
  BY <1>1 DEF Scripts
<1>3. \A u \in DOMAIN t : u \in DOMAIN s /\ t[u] \in Contents /\ 1 .. u \subseteq DOMAIN t
  BY SMTT(60), <1>1, <1>2 DEF Scripts
<1>4. ASSUME NEW u \in DOMAIN t, NEW k \in Keys
      PROVE  /\ t[u][k] <= u
             /\ u > 1 => t[u][k] \in {0, u, t[u - 1][k]}
             /\ \A v \in 1 .. u : t[u][k] # 0 /\ t[u][k] <= v => t[v][k] = t[u][k]
             /\ \A v \in 1 .. u : (\A x \in v + 1 .. u : t[x][k] = t[x - 1][k]) => t[u][k] = t[v][k]
  <2>1. \A v \in 1 .. u : v \in DOMAIN s /\ t[v] = s[v]
    BY <1>1, <1>3
  <2>2. u \in 1 .. u /\ (u > 1 => u - 1 \in 1 .. u)
    BY SMTT(60), <1>2
  <2>3. \A v \in 1 .. u : \A x \in v + 1 .. u : t[x] = s[x] /\ t[x - 1] = s[x - 1]
    <3>1. \A v \in 1 .. u : \A x \in v + 1 .. u : x \in 1 .. u /\ x - 1 \in 1 .. u
      BY SMTT(60), <1>2
    <3> QED
      BY <2>1, <3>1
  <2>4. t[u] = s[u] /\ (u > 1 => t[u - 1] = s[u - 1]) /\ u \in DOMAIN s
    BY <2>1, <2>2
  <2>5. ASSUME NEW v \in 1 .. u, \A x \in v + 1 .. u : t[x][k] = t[x - 1][k]
        PROVE  t[u][k] = t[v][k]
    <3>1. \A x \in v + 1 .. u : s[x][k] = s[x - 1][k]
      BY <2>3, <2>5
    <3>2. s[u][k] = s[v][k]
      BY <2>4, <3>1 DEF Scripts
    <3> QED
      BY <2>1, <2>4, <3>2
  <2>6. t[u][k] <= u /\ (u > 1 => t[u][k] \in {0, u, t[u - 1][k]})
    BY <2>4 DEF Scripts
  <2>7. \A v \in 1 .. u : t[u][k] # 0 /\ t[u][k] <= v => t[v][k] = t[u][k]
    BY SMTT(60), <2>1, <2>4 DEF Scripts
  <2> QED
    BY <2>5, <2>6, <2>7
<1>5. Scripts(t)
  BY <1>1, <1>2, <1>3, <1>4 DEF Scripts
<1> QED
  BY <1>5 DEF t

-----------------------------------------------------------------------------
(* The change log.                                                         *)

(* t holds what s does, and perhaps later versions.                        *)
Agree(s, t) == DOMAIN s \subseteq DOMAIN t /\ \A v \in DOMAIN s : t[v] = s[v]

(* A longer script, or a later oldest version: the change log is not       *)
(* written.                                                                *)
LEMMA LeafRowsKeep ==
  ASSUME NEW leaves, NEW deletes, NEW orphans, NEW s, NEW t, NEW kp \in Nat, NEW kq \in Nat,
         NEW top \in DOMAIN s, Scripts(s), Agree(s, t), 1 <= kp, kp <= kq,
         LeafRows(leaves, deletes, orphans, s, kp, top)
  PROVE  LeafRows(leaves, deletes, orphans, t, kq, top)
<1>1. top \in Nat /\ \A v \in 1 .. top : v \in DOMAIN s
  BY SMTT(60), ContentRange
<1>2. \A v \in kq .. top : v \in kp .. top /\ v \in DOMAIN s /\ t[v] = s[v]
  BY SMTT(60), <1>1 DEF Agree
<1>3. \A v \in kq + 1 .. top : v \in kp + 1 .. top /\ t[v] = s[v] /\ t[v - 1] = s[v - 1]
  <2>1. \A v \in kq + 1 .. top : v \in kp + 1 .. top /\ v \in 1 .. top /\ v - 1 \in 1 .. top
    BY SMTT(60), <1>1
  <2> QED
    BY <1>1, <2>1 DEF Agree
<1>4. /\ \A n \in leaves : n[1] \in DOMAIN t /\ t[n[1]][n[2]] = n[1]
      /\ \A n \in deletes : n[1] \in DOMAIN t /\ n[1] > 1 /\ t[n[1]][n[2]] = 0
      /\ \A o \in orphans : o[2] \in DOMAIN t /\ o[1][1] < o[2] /\ t[o[2]][o[1][2]] # o[1][1]
  BY DEF LeafRows, Agree
<1> QED
  BY SMTT(60), <1>2, <1>3, <1>4 DEF LeafRows

(* A row that was pruned is of no version that is kept.                    *)
LEMMA LeafRowsPruned ==
  ASSUME NEW leaves, NEW deletes, NEW orphans \in SUBSET (NodeKeys \X (1 .. MaxVersion)), NEW s,
         NEW kp \in 1 .. MaxVersion, NEW top \in DOMAIN s, Scripts(s),
         NEW o \in orphans, o[2] <= kp, LeafRows(leaves, deletes, orphans, s, kp, top)
  PROVE  LeafRows(leaves \ {o[1]}, deletes, orphans \ {o}, s, kp, top)
<1>1. ASSUME NEW v \in kp .. top, NEW k \in Keys, s[v][k] # 0
      PROVE  <<s[v][k], k>> \in leaves \ {o[1]}
  <2>1. v \in DOMAIN s /\ top \in Nat
    BY SMTT(60), ContentRange
  <2>2. o[2] \in DOMAIN s /\ o[1][1] < o[2] /\ s[o[2]][o[1][2]] # o[1][1] /\ o[2] \in 1 .. MaxVersion
    BY DEF LeafRows
  <2>3. ASSUME o[1] = <<s[v][k], k>> PROVE FALSE
    <3>1. o[1][1] = s[v][k] /\ o[1][2] = k
      BY SMTT(60), <2>3
    <3>2. o[2] <= v /\ s[v][k] <= o[2] /\ s[v][k] \in 0 .. MaxVersion
      BY SMTT(60), <2>1, <2>2, <3>1, ContentRange
    <3>3. s[o[2]][k] = s[v][k]
      BY SMTT(60), <1>1, <2>1, <2>2, <3>2, StaysSince
    <3> QED
      BY <2>2, <3>1, <3>3
  <2>4. <<s[v][k], k>> \in leaves
    BY <1>1 DEF LeafRows
  <2> QED
    BY <2>3, <2>4
<1> QED
  BY <1>1 DEF LeafRows

(* The end of a prune: the deletions before p are deleted.                 *)
LEMMA LeafRowsEnded ==
  ASSUME NEW leaves, NEW deletes, NEW orphans, NEW s, NEW kp \in 1 .. MaxVersion, NEW top \in DOMAIN s,
         NEW p \in Int, p <= kp, Scripts(s), LeafRows(leaves, deletes, orphans, s, kp, top)
  PROVE  LeafRows(leaves, {d \in deletes : d[1] >= p}, orphans, s, kp, top)
<1>1. ASSUME NEW v \in kp + 1 .. top, NEW k \in Keys, s[v][k] = 0, s[v - 1][k] # 0
      PROVE  <<v, k>> \in {d \in deletes : d[1] >= p}
  <2>1. <<v, k>> \in deletes
    BY <1>1 DEF LeafRows
  <2>2. top \in Int /\ v >= p
    BY SMTT(60), ContentRange
  <2> QED
    BY <2>1, <2>2
<1> QED
  BY <1>1 DEF LeafRows

(* A save writes what its version has and the one before has not.          *)
LEMMA LeafRowsSaved ==
  ASSUME NEW leaves, NEW deletes, NEW orphans, NEW s, NEW kp \in 1 .. MaxVersion, NEW top \in DOMAIN s,
         kp <= top, top + 1 \in DOMAIN s, Scripts(s), NEW os,
         \A n \in os : n[1] < top + 1 /\ s[top + 1][n[2]] # n[1],
         LeafRows(leaves, deletes, orphans, s, kp, top)
  PROVE  LeafRows(leaves \cup LeavesOf(s, top + 1), deletes \cup DeletesOf(s, top + 1),
                  orphans \cup OrphansOf(os, top + 1), s, kp, top + 1)
<1> DEFINE v == top + 1
           ls == LeavesOf(s, v)
           ds == DeletesOf(s, v)
           ns == OrphansOf(os, v)
<1>1. top \in Nat /\ v - 1 = top /\ v > 1 /\ v \in DOMAIN s
  BY SMTT(60), ContentRange
<1> USE DEF LeavesOf, DeletesOf, OrphansOf
<1>2. \A n \in leaves \cup ls : n[1] \in DOMAIN s /\ s[n[1]][n[2]] = n[1]
  BY SMTT(60), <1>1 DEF LeafRows
<1>3. \A n \in deletes \cup ds : n[1] \in DOMAIN s /\ n[1] > 1 /\ s[n[1]][n[2]] = 0
  BY SMTT(60), <1>1 DEF LeafRows
<1>4. \A o \in orphans \cup ns : o[2] \in DOMAIN s /\ o[1][1] < o[2] /\ s[o[2]][o[1][2]] # o[1][1]
  BY SMTT(60), <1>1 DEF LeafRows
<1>5. ASSUME NEW w \in kp .. v, NEW k \in Keys, s[w][k] # 0
      PROVE  <<s[w][k], k>> \in leaves \cup ls
  <2>1. CASE w \in kp .. top
    BY <1>5, <2>1 DEF LeafRows
  <2>2. CASE w = v /\ s[v][k] = v
    BY <2>2
  <2>3. CASE w = v /\ s[v][k] # v
    <3>1. s[v][k] = s[top][k]
      BY SMTT(60), <1>1, <1>5, <2>3 DEF Scripts
    <3>2. top \in kp .. top
      BY SMTT(60), <1>1
    <3> QED
      BY <1>5, <2>3, <3>1, <3>2 DEF LeafRows
  <2> QED
    BY SMTT(60), <1>1, <2>1, <2>2, <2>3
<1>6. ASSUME NEW w \in kp + 1 .. v, NEW k \in Keys, s[w][k] = 0, s[w - 1][k] # 0
      PROVE  <<w, k>> \in deletes \cup ds
  <2>1. CASE w \in kp + 1 .. top
    BY <1>6, <2>1 DEF LeafRows
  <2>2. CASE w = v
    BY <1>1, <1>6, <2>2
  <2> QED
    BY SMTT(60), <1>1, <2>1, <2>2
<1> HIDE DEF ls, ds, ns, LeavesOf, DeletesOf, OrphansOf
<1>7. LeafRows(leaves \cup ls, deletes \cup ds, orphans \cup ns, s, kp, v)
  BY <1>2, <1>3, <1>4, <1>5, <1>6 DEF LeafRows
<1> QED
  BY <1>7 DEF ls, ds, ns

(* A commit in the middle of saveLeaves: some of the rows are there.       *)
LEMMA LeafRowsSome ==
  ASSUME NEW leaves, NEW deletes, NEW orphans, NEW s, NEW kp, NEW top \in DOMAIN s,
         top + 1 \in DOMAIN s, Scripts(s), NEW ls \in SUBSET LeavesOf(s, top + 1),
         NEW ds \in SUBSET DeletesOf(s, top + 1), NEW os,
         \A n \in os : n[1] < top + 1 /\ s[top + 1][n[2]] # n[1],
         LeafRows(leaves, deletes, orphans, s, kp, top)
  PROVE  LeafRows(leaves \cup ls, deletes \cup ds, orphans \cup OrphansOf(os, top + 1), s, kp, top)
<1> DEFINE v == top + 1
<1>1. v > 1 /\ v \in DOMAIN s
  BY SMTT(60), ContentRange
<1>2. \A n \in ls : n[1] = v /\ s[v][n[2]] = v
  BY SMTT(60) DEF LeavesOf
<1>3. \A n \in ds : n[1] = v /\ s[v][n[2]] = 0
  BY SMTT(60) DEF DeletesOf
<1>4. \A o \in OrphansOf(os, v) : o[2] = v /\ o[1][1] < v /\ s[v][o[1][2]] # o[1][1]
  BY SMTT(60) DEF OrphansOf
<1> HIDE DEF v
<1>5. /\ \A n \in leaves \cup ls : n[1] \in DOMAIN s /\ s[n[1]][n[2]] = n[1]
      /\ \A n \in deletes \cup ds : n[1] \in DOMAIN s /\ n[1] > 1 /\ s[n[1]][n[2]] = 0
      /\ \A o \in orphans \cup OrphansOf(os, v) :
           o[2] \in DOMAIN s /\ o[1][1] < o[2] /\ s[o[2]][o[1][2]] # o[1][1]
  BY <1>1, <1>2, <1>3, <1>4 DEF LeafRows
<1>6. LeafRows(leaves \cup ls, deletes \cup ds, orphans \cup OrphansOf(os, v), s, kp, top)
  BY <1>5 DEF LeafRows
<1> QED
  BY <1>6 DEF v

(* A new process goes on from an earlier version, with Revert or without.  *)
LEMMA LeafRowsBack ==
  ASSUME NEW leaves, NEW deletes, NEW orphans, NEW s, NEW kp \in 1 .. MaxVersion, NEW top \in DOMAIN s,
         NEW w \in DOMAIN s, w <= top, Scripts(s), LeafRows(leaves, deletes, orphans, s, kp, top)
  PROVE  LeafRows(leaves, deletes, orphans, s, kp, w)
<1>1. \A v \in kp .. w : v \in kp .. top
  BY SMTT(60), ContentRange
<1>2. \A v \in kp + 1 .. w : v \in kp + 1 .. top
  BY SMTT(60), ContentRange
<1> QED
  BY <1>1, <1>2 DEF LeafRows

(* Revert to version w.                                                    *)
LEMMA LeafRowsReverted ==
  ASSUME NEW db \in LeafDbs, NEW s, NEW kp \in 1 .. MaxVersion, NEW top \in DOMAIN s,
         NEW w \in DOMAIN s, w <= top, Scripts(s),
         LeafRows(db.leaves, db.deletes, db.orphans, s, kp, top)
  PROVE  LET rdb == RevertedLeaf(db, w)
         IN  LeafRows(rdb.leaves, rdb.deletes, rdb.orphans, [v \in {u \in DOMAIN s : u <= w} |-> s[v]], kp, w)
<1> DEFINE t == [v \in {u \in DOMAIN s : u <= w} |-> s[v]]
           rdb == RevertedLeaf(db, w)
<1>1. LeafRows(db.leaves, db.deletes, db.orphans, s, kp, w)
  BY LeafRowsBack
<1>2. /\ rdb.leaves = {n \in db.leaves : n[1] <= w} /\ rdb.deletes = {n \in db.deletes : n[1] <= w}
      /\ rdb.orphans = {o \in db.orphans : o[2] <= w}
  BY DEF RevertedLeaf
<1>3. DOMAIN t = {u \in DOMAIN s : u <= w} /\ \A v \in DOMAIN t : t[v] = s[v]
  OBVIOUS
<1>4. w \in 1 .. MaxVersion /\ \A v \in 1 .. w : v \in DOMAIN t
  BY SMTT(60), <1>3, ContentRange
<1> HIDE DEF t, rdb
<1>5. \A v \in kp .. w : t[v] = s[v] /\ v \in 1 .. w
  BY SMTT(60), <1>3, <1>4
<1>6. \A v \in kp + 1 .. w : t[v] = s[v] /\ t[v - 1] = s[v - 1]
  <2>1. \A v \in kp + 1 .. w : v \in 1 .. w /\ v - 1 \in 1 .. w
    BY SMTT(60), <1>4
  <2> QED
    BY <1>3, <1>4, <2>1
<1>7. /\ \A n \in rdb.leaves : n[1] \in DOMAIN t /\ t[n[1]][n[2]] = n[1]
      /\ \A n \in rdb.deletes : n[1] \in DOMAIN t /\ n[1] > 1 /\ t[n[1]][n[2]] = 0
      /\ \A o \in rdb.orphans : o[2] \in DOMAIN t /\ o[1][1] < o[2] /\ t[o[2]][o[1][2]] # o[1][1]
  BY SMTT(60), <1>1, <1>2, <1>3 DEF LeafRows
<1>8. ASSUME NEW v \in kp .. w, NEW k \in Keys, t[v][k] # 0
      PROVE  <<t[v][k], k>> \in rdb.leaves
  <2>1. <<s[v][k], k>> \in db.leaves /\ t[v][k] = s[v][k]
    BY <1>1, <1>5, <1>8 DEF LeafRows
  <2>2. s[v][k] \in 0 .. MaxVersion /\ s[v][k] <= v /\ v <= w /\ w \in Int
    BY SMTT(60), <1>3, <1>4, <1>5, ContentRange
  <2>3. s[v][k] <= w
    BY SMTT(60), <2>2
  <2> QED
    BY <1>2, <2>1, <2>3
<1>9. ASSUME NEW v \in kp + 1 .. w, NEW k \in Keys, t[v][k] = 0, t[v - 1][k] # 0
      PROVE  <<v, k>> \in rdb.deletes
  <2>1. <<v, k>> \in db.deletes
    BY SMTT(60), <1>1, <1>6, <1>9 DEF LeafRows
  <2>2. v <= w
    BY SMTT(60), <1>4
  <2> QED
    BY <1>2, <2>1, <2>2
<1>10. LeafRows(rdb.leaves, rdb.deletes, rdb.orphans, t, kp, w)
  BY <1>7, <1>8, <1>9 DEF LeafRows
<1> QED
  BY <1>10 DEF t, rdb

(* replayChangelog yields what the version holds.                          *)
LEMMA ReplayIsTrue ==
  ASSUME NEW ldb, NEW s, Scripts(s), NEW kp \in 1 .. MaxVersion, NEW top \in DOMAIN s,
         LeafRows(ldb.leaves, ldb.deletes, ldb.orphans, s, kp, top),
         NEW v \in kp .. top, NEW p \in kp .. v, NEW k \in Keys
  PROVE  Replayed(ldb, s[p], p, v, k) = s[v][k]
<1> DEFINE us == {u \in p + 1 .. v : <<u, k>> \in ldb.leaves \cup ldb.deletes}
<1>1. /\ top \in 1 .. MaxVersion /\ v \in 1 .. MaxVersion /\ p \in 1 .. MaxVersion /\ v \in DOMAIN s
      /\ p \in 1 .. v
  <2>1. top \in 1 .. MaxVersion /\ \A w \in 1 .. top : w \in DOMAIN s
    BY ContentRange
  <2> QED
    BY SMTT(60), <2>1, BoundsAssumption
<1>2. ASSUME NEW u \in p + 1 .. v, u \notin us
      PROVE  s[u][k] = s[u - 1][k]
  <2>1. u \in kp .. top /\ u \in kp + 1 .. top /\ u \in 1 .. top /\ u > 1
    BY SMTT(60), <1>1
  <2>2. u \in DOMAIN s
    BY <2>1, ContentRange
  <2>3. s[u][k] \in {0, u, s[u - 1][k]}
    BY <2>1, <2>2 DEF Scripts
  <2>4. <<u, k>> \notin ldb.leaves /\ <<u, k>> \notin ldb.deletes
    BY <1>2
  <2>5. s[u][k] # u
    BY SMTT(60), <2>1, <2>4 DEF LeafRows
  <2>6. ~(s[u][k] = 0 /\ s[u - 1][k] # 0)
    BY <2>1, <2>4 DEF LeafRows
  <2> QED
    BY <2>3, <2>5, <2>6
<1>3. ASSUME NEW w \in p .. v, \A u \in w + 1 .. v : u \notin us
      PROVE  s[v][k] = s[w][k]
  <2>1. w \in 1 .. v /\ \A u \in w + 1 .. v : u \in p + 1 .. v
    BY SMTT(60), <1>1
  <2>2. \A u \in w + 1 .. v : s[u][k] = s[u - 1][k]
    BY <1>2, <1>3, <2>1
  <2> QED
    BY <1>1, <2>1, <2>2 DEF Scripts
<1>4. us \in SUBSET (1 .. MaxVersion) /\ us \subseteq p + 1 .. v
  <2>1. \A u \in p + 1 .. v : u \in 1 .. MaxVersion
    BY SMTT(60), <1>1, BoundsAssumption
  <2> QED
    BY <2>1
<1>5. \A u \in us : <<u, k>> \in ldb.leaves \/ <<u, k>> \in ldb.deletes
  OBVIOUS
<1>6. Replayed(ldb, s[p], p, v, k) =
        IF us = {} THEN s[p][k] ELSE IF <<Max(us), k>> \in ldb.leaves THEN Max(us) ELSE 0
  BY DEF Replayed
<1> HIDE DEF us
<1>7. CASE us = {}
  <2>1. p \in p .. v
    BY SMTT(60), <1>1
  <2> QED
    BY <1>3, <1>6, <1>7, <2>1
<1>8. CASE us # {}
  <2> DEFINE m == Max(us)
  <2>1. m \in us /\ \A u \in us : u <= m
    BY <1>4, <1>8, MaxIs
  <2>2. Replayed(ldb, s[p], p, v, k) = IF <<m, k>> \in ldb.leaves THEN m ELSE 0
    BY <1>6, <1>8
  <2> HIDE DEF m
  <2>3. m \in p .. v /\ \A u \in m + 1 .. v : u \notin us
    BY SMTT(60), <1>1, <1>4, <2>1
  <2>4. s[v][k] = s[m][k]
    BY <1>3, <2>3
  <2>5. CASE <<m, k>> \in ldb.leaves
    <3>1. s[<<m, k>>[1]][<<m, k>>[2]] = <<m, k>>[1]
      BY <2>5 DEF LeafRows
    <3> QED
      BY <2>2, <2>4, <2>5, <3>1
  <2>6. CASE <<m, k>> \notin ldb.leaves
    <3>1. <<m, k>> \in ldb.deletes
      BY <1>5, <2>1, <2>6
    <3>2. s[<<m, k>>[1]][<<m, k>>[2]] = 0
      BY <3>1 DEF LeafRows
    <3> QED
      BY <2>2, <2>4, <2>6, <3>2
  <2> QED
    BY <2>5, <2>6
<1> QED
  BY <1>7, <1>8

-----------------------------------------------------------------------------
(* The roots.                                                              *)

(* The tables of a tree database.                                          *)
LEMMA TreeDbTypes ==
  ASSUME NEW db \in TreeDbs
  PROVE  /\ db.roots \in RootTables /\ db.branches \in SUBSET ((1 .. MaxVersion) \X NodeKeys)
         /\ db.orphans \in SUBSET (NodeKeys \X (1 .. MaxVersion)) /\ db.shards \in SUBSET (1 .. MaxVersion)
         /\ \A v \in DOMAIN db.roots : v \in 1 .. MaxVersion /\ v \in Nat /\ db.roots[v] \in Roots
<1>1. db.roots \in RootTables
  BY DEF TreeDbs
<1>2. PICK d \in SUBSET (1 .. MaxVersion) : db.roots \in [d -> Roots]
  BY <1>1 DEF RootTables
<1>3. \A v \in DOMAIN db.roots : v \in 1 .. MaxVersion /\ db.roots[v] \in Roots
  BY <1>2
<1>4. \A v \in 1 .. MaxVersion : v \in Nat
  BY SMTT(60), BoundsAssumption
<1> QED
  BY <1>1, <1>3, <1>4 DEF TreeDbs

(* A longer script, or a later oldest version.                             *)
LEMMA RootRowsKeep ==
  ASSUME NEW roots, NEW s, NEW t, NEW kp \in Nat, NEW kq \in Nat, NEW top \in Nat,
         Agree(s, t), kp <= kq, \A v \in DOMAIN roots : v \in Nat, RootRows(roots, s, kp, top)
  PROVE  RootRows(roots, t, kq, top)
<1>1. \A v \in DOMAIN roots : \A w \in kq .. v : w \in kp .. v
  BY SMTT(60)
<1>2. \A c \in kq .. top : c \in kp .. top
  BY SMTT(60)
<1> QED
  BY <1>1, <1>2 DEF RootRows, Agree

(* A version that is no checkpoint may still be missing.                   *)
LEMMA RootRowsLate ==
  ASSUME NEW roots, NEW s, NEW kp \in Nat, NEW top \in Nat, \A v \in DOMAIN roots : v \in Nat,
         ~Scheduled(top + 1), RootRows(roots, s, kp, top)
  PROVE  RootRows(roots, s, kp, top + 1)
<1>1. \A c \in kp .. top + 1 : c \in kp .. top \/ c = top + 1
  BY SMTT(60)
<1>2. \A v \in DOMAIN roots : v <= top => v <= top + 1
  BY SMTT(60)
<1> QED
  BY <1>1, <1>2 DEF RootRows

(* saveRoot for the next version.                                          *)
LEMMA RootRowsSaved ==
  ASSUME NEW roots, NEW s, NEW kp \in Nat, NEW top \in Nat, NEW cp \in BOOLEAN,
         \A v \in DOMAIN roots : v \in Nat, top + 1 \in DOMAIN s, cp <=> Scheduled(top + 1),
         kp .. top \subseteq DOMAIN roots, RootRows(roots, s, kp, top)
  PROVE  LET rs == Insert(roots, top + 1, [content |-> s[top + 1], checkpoint |-> cp])
         IN  RootRows(rs, s, kp, top + 1) /\ kp .. top + 1 \subseteq DOMAIN rs
<1> DEFINE rs == Insert(roots, top + 1, [content |-> s[top + 1], checkpoint |-> cp])
<1>1. /\ DOMAIN rs = DOMAIN roots \cup {top + 1}
      /\ rs[top + 1].content = s[top + 1] /\ (rs[top + 1].checkpoint <=> cp)
      /\ \A v \in DOMAIN roots : v # top + 1 => rs[v] = roots[v]
  BY DEF Insert
<1> HIDE DEF rs
<1>2. kp .. top + 1 \subseteq DOMAIN rs
  BY SMTT(60), <1>1
<1>3. \A v \in DOMAIN roots : v <= top /\ v # top + 1 /\ v <= top + 1
  BY SMTT(60) DEF RootRows
<1>4. ASSUME NEW v \in DOMAIN rs
      PROVE  /\ v \in DOMAIN s /\ v <= top + 1
             /\ rs[v].content = s[v] /\ (rs[v].checkpoint <=> Scheduled(v))
             /\ kp .. v \subseteq DOMAIN rs
  <2>1. CASE v = top + 1
    BY SMTT(60), <1>1, <1>2, <2>1
  <2>2. CASE v \in DOMAIN roots
    BY <1>1, <1>3, <2>2 DEF RootRows
  <2> QED
    BY <1>1, <2>1, <2>2
<1>5. RootRows(rs, s, kp, top + 1)
  BY <1>2, <1>4 DEF RootRows
<1> QED
  BY <1>2, <1>5 DEF rs

(* The roots before p are deleted, p not being later than the oldest that  *)
(* is kept.                                                                *)
LEMMA RootRowsPruned ==
  ASSUME NEW roots, NEW s, NEW kp \in Nat, NEW top \in Nat, NEW p \in Int, p <= kp,
         \A v \in DOMAIN roots : v \in Nat, RootRows(roots, s, kp, top)
  PROVE  RootRows([v \in {u \in DOMAIN roots : u >= p} |-> roots[v]], s, kp, top)
<1> DEFINE rs == [v \in {u \in DOMAIN roots : u >= p} |-> roots[v]]
<1>1. DOMAIN rs = {u \in DOMAIN roots : u >= p} /\ \A v \in DOMAIN rs : rs[v] = roots[v]
  OBVIOUS
<1> HIDE DEF rs
<1>2. \A v \in DOMAIN roots : \A w \in kp .. v : w >= p
  BY SMTT(60)
<1>3. \A c \in kp .. top : c >= p
  BY SMTT(60)
<1>4. RootRows(rs, s, kp, top)
  BY <1>1, <1>2, <1>3 DEF RootRows
<1> QED
  BY <1>4 DEF rs

(* A new process goes on from w.                                           *)
LEMMA RootRowsBack ==
  ASSUME NEW roots, NEW s, NEW kp \in Nat, NEW top \in Nat, NEW w \in Nat, w <= top,
         \A v \in DOMAIN roots : v \in Nat /\ v <= w, RootRows(roots, s, kp, top)
  PROVE  RootRows(roots, s, kp, w)
<1>1. \A c \in kp .. w : c \in kp .. top
  BY SMTT(60)
<1> QED
  BY <1>1 DEF RootRows

(* Revert to version w.                                                    *)
LEMMA RootRowsReverted ==
  ASSUME NEW roots, NEW s, NEW kp \in Nat, NEW top \in Nat, NEW w \in Nat, w <= top,
         \A v \in DOMAIN roots : v \in Nat, RootRows(roots, s, kp, top)
  PROVE  RootRows([v \in {u \in DOMAIN roots : u <= w} |-> roots[v]],
                  [v \in {u \in DOMAIN s : u <= w} |-> s[v]], kp, w)
<1> DEFINE rs == [v \in {u \in DOMAIN roots : u <= w} |-> roots[v]]
           t  == [v \in {u \in DOMAIN s : u <= w} |-> s[v]]
<1>1. DOMAIN rs = {u \in DOMAIN roots : u <= w} /\ \A v \in DOMAIN rs : rs[v] = roots[v]
  OBVIOUS
<1>2. DOMAIN t = {u \in DOMAIN s : u <= w} /\ \A v \in DOMAIN t : t[v] = s[v]
  OBVIOUS
<1> HIDE DEF rs, t
<1>3. \A v \in DOMAIN rs : v \in Nat /\ v <= w /\ \A u \in kp .. v : u <= w
  BY SMTT(60), <1>1
<1>4. \A c \in kp .. w : c \in kp .. top /\ c <= w
  BY SMTT(60)
<1>5. RootRows(rs, t, kp, w)
  BY <1>1, <1>2, <1>3, <1>4 DEF RootRows
<1> QED
  BY <1>5 DEF rs, t

-----------------------------------------------------------------------------
(* Loading a version.                                                      *)

(* The checkpoint from which version w is loaded is the last one up to w.  *)
LEMMA LoadsFrom ==
  ASSUME NEW db \in TreeDbs, NEW s, Scripts(s), NEW kp \in 1 .. MaxVersion, Scheduled(kp), NEW top \in Nat,
         RootRows(db.roots, s, kp, top), NEW w \in kp .. top
  PROVE  LET p == FindPrevious(Checkpoints(db), w)
         IN  /\ p \in kp .. w /\ p \in DOMAIN db.roots /\ p \in DOMAIN s /\ LastScheduled(p, w)
             /\ db.roots[p].content = s[p]
<1> DEFINE cps == Checkpoints(db)
           p == FindPrevious(cps, w)
<1>1. \A v \in DOMAIN db.roots : v \in 1 .. MaxVersion
  BY TreeDbTypes
<1>2. cps \in SUBSET (1 .. MaxVersion) /\ \A v \in cps : Scheduled(v) /\ v \in DOMAIN db.roots
  BY <1>1 DEF Checkpoints, RootRows
<1>3. \A d \in kp .. w : Scheduled(d) => d \in cps
  <2>1. \A d \in kp .. w : d \in kp .. top
    BY SMTT(60)
  <2> QED
    BY <2>1 DEF Checkpoints, RootRows
<1>4. kp \in cps /\ kp <= w /\ w \in Int
  BY SMTT(60), <1>3
<1>5. p \in cps /\ p <= w /\ \A d \in cps : d <= w => d <= p
  BY <1>2, <1>4, FindPreviousIs
<1> HIDE DEF p, cps
<1>6. p \in kp .. w /\ p \in DOMAIN db.roots
  BY SMTT(60), <1>2, <1>4, <1>5
<1>7. \A d \in p + 1 .. w : ~Scheduled(d)
  <2> SUFFICES ASSUME NEW d \in p + 1 .. w, Scheduled(d) PROVE FALSE
    OBVIOUS
  <2>1. d \in kp .. w /\ ~(d <= p) /\ d <= w
    BY SMTT(60), <1>6
  <2> QED
    BY <1>3, <1>5, <2>1
<1>8. LastScheduled(p, w)
  BY <1>2, <1>5, <1>7 DEF LastScheduled
<1>9. p \in DOMAIN s /\ db.roots[p].content = s[p]
  BY <1>6 DEF RootRows
<1> QED
  BY <1>6, <1>8, <1>9 DEF p, cps

(* What the tree in memory is after loading version w.                     *)
LEMMA LoadedTree ==
  ASSUME NEW kp \in 1 .. MaxVersion, Scheduled(kp), NEW w \in 1 .. MaxVersion, kp <= w,
         NEW tdb \in TreeDbs, NEW ldb, NEW s, Scripts(s), w \in DOMAIN s, w \in DOMAIN tdb.roots,
         RootRows(tdb.roots, s, kp, w), LoadVersion(w, tdb, ldb)
  PROVE  /\ tree' \in TreeStates /\ tree'.version = w /\ tree'.content = s[w]
         /\ \A c \in tree'.checkpoints : Scheduled(c) /\ c <= w
         /\ \A c \in kp .. w : Scheduled(c) => c \in tree'.checkpoints
         /\ \A n \in tree'.branchOrphans : n[1] <= w /\ s[w][n[2]] # n[1]
         /\ \A c \in 1 .. w, k \in Keys :
              LastScheduled(c, w) /\ s[c][k] # 0 /\ s[w][k] # s[c][k]
              => <<s[c][k], k>> \in tree'.branchOrphans
<1> DEFINE cps == Checkpoints(tdb)
           p == FindPrevious(cps, w)
<1>1. /\ p \in kp .. w /\ LastScheduled(p, w) /\ p \in DOMAIN s /\ tdb.roots[p].content = s[p]
      /\ tdb.roots[w].content = s[w] /\ s[w] \in Contents
  <2>1. w \in Nat /\ w \in kp .. w
    BY SMTT(60), BoundsAssumption
  <2>2. tdb.roots[w].content = s[w]
    BY DEF RootRows
  <2> QED
    BY <2>1, <2>2, LoadsFrom, ContentRange
<1>2. tree' = [version |-> w, content |-> s[w], checkpoints |-> cps,
               branchOrphans |-> ReplayedOrphans(s[p], s[w])]
  BY <1>1 DEF LoadVersion
<1>3. /\ cps \subseteq 1 .. MaxVersion /\ \A c \in cps : Scheduled(c) /\ c <= w
      /\ \A c \in kp .. w : Scheduled(c) => c \in cps
  <2>1. /\ \A v \in DOMAIN tdb.roots : v \in 1 .. MaxVersion /\ v <= w
        /\ \A v \in DOMAIN tdb.roots : tdb.roots[v].checkpoint <=> Scheduled(v)
        /\ \A c \in kp .. w : Scheduled(c) => c \in DOMAIN tdb.roots
    BY TreeDbTypes DEF RootRows
  <2> QED
    BY <2>1 DEF Checkpoints
<1> HIDE DEF p, cps
<1>4. (\A k \in Keys : s[p][k] \in 0 .. MaxVersion /\ s[p][k] <= p) /\ p <= w /\ p \in Nat
  BY SMTT(60), <1>1, ContentRange, BoundsAssumption
<1>5. ASSUME NEW n \in ReplayedOrphans(s[p], s[w])
      PROVE  n \in NodeKeys /\ n[1] <= w /\ s[w][n[2]] # n[1]
  <2>1. PICK k \in Keys : n = <<s[p][k], k>> /\ s[p][k] # 0 /\ s[w][k] # s[p][k]
    BY DEF ReplayedOrphans, Nodes, Present
  <2>2. s[p][k] \in 1 .. MaxVersion /\ s[p][k] <= w
    BY SMTT(60), <1>4, <2>1, BoundsAssumption
  <2> QED
    BY <2>1, <2>2 DEF NodeKeys
<1>6. ASSUME NEW c \in 1 .. w, NEW k \in Keys, LastScheduled(c, w), s[c][k] # 0, s[w][k] # s[c][k]
      PROVE  <<s[c][k], k>> \in ReplayedOrphans(s[p], s[w])
  <2>1. c = p
    BY SMTT(60), <1>1, <1>4, <1>6, BoundsAssumption DEF LastScheduled
  <2> QED
    BY <1>6, <2>1 DEF ReplayedOrphans, Nodes, Present
<1>7. tree' \in TreeStates
  BY <1>1, <1>2, <1>3, <1>5 DEF TreeStates
<1> QED
  BY <1>2, <1>3, <1>5, <1>6, <1>7

(* A version whose root is there can be loaded from these rows.            *)
LEMMA Loads ==
  ASSUME NEW db \in TreeDbs, NEW ldb, NEW s, Scripts(s), NEW kp \in 1 .. MaxVersion, Scheduled(kp), NEW r,
         NEW rootTop \in Nat, NEW branchTop \in Nat, NEW leafTop \in DOMAIN s,
         TreeRows(db, s, shardTrees, kp, r, rootTop, branchTop),
         LeafRows(ldb.leaves, ldb.deletes, ldb.orphans, s, kp, leafTop),
         NEW v \in kp .. rootTop, v <= branchTop, v <= leafTop, v \in DOMAIN db.roots
  PROVE  Loadable(db, ldb, v)
<1> DEFINE p == FindPrevious(Checkpoints(db), v)
           c == db.roots[p].content
<1>1. RootRows(db.roots, s, kp, rootTop)
  BY DEF TreeRows
<1>2. /\ p \in kp .. v /\ p \in DOMAIN db.roots /\ p \in DOMAIN s /\ Scheduled(p) /\ c = s[p]
  BY <1>1, LoadsFrom DEF LastScheduled
<1>3. leafTop \in Nat /\ v \in DOMAIN s /\ db.roots[v].content = s[v]
  BY SMTT(60), <1>1, ContentRange, BoundsAssumption DEF RootRows
<1>4. v \in kp .. leafTop /\ p \in kp .. branchTop /\ p # -1
  <2> HIDE DEF p
  <2> QED
    BY SMTT(60), <1>2, <1>3
<1>5. \A n \in Nodes(c, Present(c)) : HasBranch(db, n)
  <2> HIDE DEF p, c
  <2> SUFFICES ASSUME NEW n \in Nodes(s[p], Present(s[p])) PROVE HasBranch(db, n)
    BY <1>2
  <2>1. PICK k \in Keys : n = <<s[p][k], k>> /\ s[p][k] # 0
    BY DEF Nodes, Present
  <2>2. <<ShardOf(db.shards, shardTrees, s[p][k]), <<s[p][k], k>>>> \in db.branches
    BY <1>2, <1>4, <2>1 DEF TreeRows, BranchRows
  <2> QED
    BY <2>1, <2>2 DEF HasBranch, getShard, ShardOf
<1>6. db.roots[v].content = [k \in Keys |-> Replayed(ldb, c, p, v, k)]
  <2> HIDE DEF p, c
  <2>1. s[v] = [k \in Keys |-> s[v][k]]
    BY <1>3, ContentRange DEF Contents
  <2>2. \A k \in Keys : Replayed(ldb, c, p, v, k) = s[v][k]
    BY SMTT(60), <1>2, <1>4, ReplayIsTrue
  <2> QED
    BY <1>3, <2>1, <2>2
<1>7. Nodes(db.roots[v].content, Present(db.roots[v].content)) \subseteq ldb.leaves
  BY SMTT(60), <1>3, <1>4 DEF LeafRows, Nodes, Present
<1> HIDE DEF p, c
<1> QED
  BY <1>4, <1>5, <1>6, <1>7 DEF Loadable, p, c

-----------------------------------------------------------------------------
(* The shards.                                                             *)

(* What is upcoming stays so until its version is there.                   *)
LEMMA UpcomingLater ==
  ASSUME NEW c \in Int, NEW r \in Int, NEW q \in Int, r <= q, Upcoming(c, r)
  PROVE  Upcoming(c, q)
BY SMTT(60) DEF Upcoming

(* The version after r is the next checkpoint if it is one at all.         *)
LEMMA UpcomingNow ==
  ASSUME NEW c \in 1 .. MaxVersion, NEW r \in Nat, r + 1 \in 1 .. MaxVersion, Scheduled(r + 1),
         Upcoming(c, r)
  PROVE  c <= r + 1
BY SMTT(60) DEF Upcoming

(* Going back over versions that are no checkpoints.                       *)
LEMMA UpcomingBack ==
  ASSUME NEW c \in Int, NEW r \in Nat, NEW w \in Nat, \A d \in w + 1 .. r : ~Scheduled(d), Upcoming(c, r)
  PROVE  Upcoming(c, w)
<1>1. ASSUME NEW d \in 1 .. MaxVersion, Scheduled(d), d > w PROVE c <= d
  <2>1. d > r
    BY SMTT(60), <1>1
  <2> QED
    BY <1>1, <2>1 DEF Upcoming
<1> QED
  BY <1>1 DEF Upcoming

(* nextShard for a checkpoint.                                             *)
LEMMA ShardRowsAdded ==
  ASSUME NEW shards \in SUBSET (1 .. MaxVersion), NEW branches, NEW r \in Nat, NEW top,
         r + 1 \in 1 .. MaxVersion, Scheduled(r + 1), ShardRows(shards, branches, TRUE, r, top)
  PROVE  ShardRows(shards \cup {r + 1}, branches, TRUE, r, top)
<1>1. Upcoming(r + 1, r)
  BY SMTT(60) DEF Upcoming
<1> QED
  BY <1>1 DEF ShardRows

(* The shard that was made last is that of the checkpoint under way.       *)
LEMMA LastShard ==
  ASSUME NEW shards \in SUBSET (1 .. MaxVersion), NEW branches, NEW sharded \in BOOLEAN, NEW r \in Nat, NEW top,
         r + 1 \in 1 .. MaxVersion, Scheduled(r + 1), sharded => r + 1 \in shards,
         ShardRows(shards, branches, sharded, r, top)
  PROVE  Max(shards) = IF sharded THEN r + 1 ELSE 1
<1> DEFINE m == Max(shards)
<1>1. 1 \in shards /\ m \in shards /\ \A c \in shards : c <= m
  BY MaxIs DEF ShardRows
<1> HIDE DEF m
<1>2. CASE sharded
  <2>1. \A c \in shards : c > r => c <= r + 1
    BY UpcomingNow DEF ShardRows
  <2>2. m \in Int
    BY SMTT(60), <1>1
  <2>3. m <= r + 1 /\ r + 1 <= m
    BY SMTT(60), <1>1, <1>2, <2>1, <2>2
  <2> QED
    BY SMTT(60), <1>2, <2>2, <2>3 DEF m
<1>3. CASE ~sharded
  BY <1>1, <1>3 DEF ShardRows, m
<1> QED
  BY <1>2, <1>3

(* The rows of a checkpoint are written, and then the save returns.        *)
LEMMA ShardRowsSaved ==
  ASSUME NEW shards \in SUBSET (1 .. MaxVersion), NEW branches, NEW new, NEW sharded \in BOOLEAN, NEW r \in Nat,
         r + 1 \in 1 .. MaxVersion, sharded /\ Scheduled(r + 1) => r + 1 \in shards,
         ~sharded => \A b \in new : b[1] = 1, ShardRows(shards, branches, sharded, r, r)
  PROVE  ShardRows(shards, branches \cup new, sharded, r, r + 1)
<1>1. \A c \in 1 .. r + 1 : c \in 1 .. r \/ c = r + 1
  BY SMTT(60)
<1> QED
  BY <1>1 DEF ShardRows

(* SaveVersion has returned.                                               *)
LEMMA ShardRowsReturned ==
  ASSUME NEW shards \in SUBSET (1 .. MaxVersion), NEW branches, NEW sharded \in BOOLEAN, NEW r \in Nat, NEW top,
         ShardRows(shards, branches, sharded, r, top)
  PROVE  ShardRows(shards, branches, sharded, r + 1, top)
<1>1. ASSUME NEW c \in shards, c > r + 1 PROVE Upcoming(c, r + 1)
  <2>1. Upcoming(c, r) /\ c \in Int
    BY SMTT(60), <1>1 DEF ShardRows
  <2> QED
    BY SMTT(60), <2>1, UpcomingLater
<1> QED
  BY <1>1 DEF ShardRows

(* Fewer branches.                                                         *)
LEMMA ShardRowsPruned ==
  ASSUME NEW shards, NEW branches, NEW rest \in SUBSET branches, NEW sharded \in BOOLEAN, NEW r, NEW top,
         ShardRows(shards, branches, sharded, r, top)
  PROVE  ShardRows(shards, rest, sharded, r, top)
BY DEF ShardRows

(* The next process goes on from w, after which there was no checkpoint.   *)
LEMMA ShardRowsBack ==
  ASSUME NEW shards \in SUBSET (1 .. MaxVersion), NEW branches, NEW sharded \in BOOLEAN,
         NEW r \in Nat, NEW top \in Nat, NEW w \in Nat, w <= r, r <= top, \A d \in w + 1 .. r : ~Scheduled(d),
         ShardRows(shards, branches, sharded, r, top)
  PROVE  ShardRows(shards, branches, sharded, w, w)
<1>1. ASSUME NEW c \in shards, c > w PROVE Upcoming(c, w)
  <2>1. Scheduled(c) /\ c \in Int
    BY SMTT(60) DEF ShardRows
  <2>2. c > r
    BY SMTT(60), <1>1, <2>1
  <2>3. Upcoming(c, r)
    BY <2>2 DEF ShardRows
  <2> QED
    BY <2>1, <2>3, UpcomingBack
<1>2. \A c \in 1 .. w : c \in 1 .. top
  BY SMTT(60)
<1> QED
  BY <1>1, <1>2 DEF ShardRows

(* Revert drops the later shards; a single shard is the first.             *)
LEMMA RevertedShards ==
  ASSUME NEW shards \in SUBSET (1 .. MaxVersion), 1 \in shards, NEW w \in Nat, 1 <= w
  PROVE  (IF \E c, d \in shards : c # d THEN {c \in shards : c <= w} ELSE shards) = {c \in shards : c <= w}
<1>1. ASSUME ~ \E c, d \in shards : c # d PROVE shards = {c \in shards : c <= w}
  BY <1>1
<1> QED
  BY <1>1

(* Revert to version w drops the later shards.                             *)
LEMMA ShardRowsReverted ==
  ASSUME NEW shards \in SUBSET (1 .. MaxVersion), NEW branches, NEW rest, NEW r \in Nat, NEW top \in Nat,
         NEW w \in Nat, 1 <= w, w <= top, ShardRows(shards, branches, TRUE, r, top)
  PROVE  ShardRows({c \in shards : c <= w}, rest, TRUE, w, w)
<1>1. \A c \in shards : c \in Int
  BY SMTT(60)
<1>2. \A c \in 1 .. w : c \in 1 .. top /\ c <= w
  BY SMTT(60)
<1> QED
  BY SMTT(60), <1>1, <1>2 DEF ShardRows

-----------------------------------------------------------------------------
(* The orphans and the branches.                                           *)

(* From a checkpoint on there is always a last one.                        *)
LEMMA LastScheduledExists ==
  ASSUME NEW a \in 1 .. MaxVersion, NEW v \in 1 .. MaxVersion, Scheduled(a), a <= v
  PROVE  \E c \in a .. v : LastScheduled(c, v)
<1> DEFINE S == {d \in a .. v : Scheduled(d)}
           m == Max(S)
<1>1. S \in SUBSET (1 .. MaxVersion) /\ S # {} /\ \A d \in a .. v : Scheduled(d) => d \in S
  <2>1. a \in a .. v /\ \A d \in a .. v : d \in 1 .. MaxVersion
    BY SMTT(60), BoundsAssumption
  <2> QED
    BY <2>1
<1>2. m \in S /\ \A d \in S : d <= m
  BY <1>1, MaxIs
<1>3. m \in a .. v /\ Scheduled(m)
  BY <1>2
<1> HIDE DEF m, S
<1>4. \A d \in m + 1 .. v : ~Scheduled(d)
  BY SMTT(60), <1>1, <1>2, <1>3
<1> QED
  BY SMTT(60), <1>3, <1>4 DEF LastScheduled

(* A longer script.                                                        *)
LEMMA OrphanRowsKeep ==
  ASSUME NEW orphans, NEW s, NEW t, Agree(s, t), OrphanRows(orphans, s)
  PROVE  OrphanRows(orphans, t)
BY DEF OrphanRows, Agree

(* saveBranches adds the orphans of a checkpoint.                          *)
LEMMA OrphanRowsAdded ==
  ASSUME NEW orphans, NEW s, NEW v \in DOMAIN s, Scheduled(v), NEW os,
         \A n \in os : n[1] < v /\ s[v][n[2]] # n[1], OrphanRows(orphans, s)
  PROVE  OrphanRows(orphans \cup {<<n, v>> : n \in os}, s)
BY SMTT(60) DEF OrphanRows

(* Revert to version w deletes the later orphans.                          *)
LEMMA OrphanRowsReverted ==
  ASSUME NEW orphans, NEW s, NEW w, OrphanRows(orphans, s)
  PROVE  OrphanRows({o \in orphans : o[2] <= w}, [v \in {u \in DOMAIN s : u <= w} |-> s[v]])
<1> DEFINE t == [v \in {u \in DOMAIN s : u <= w} |-> s[v]]
<1>1. DOMAIN t = {u \in DOMAIN s : u <= w} /\ \A v \in DOMAIN t : t[v] = s[v]
  OBVIOUS
<1> HIDE DEF t
<1>2. OrphanRows({o \in orphans : o[2] <= w}, t)
  BY <1>1 DEF OrphanRows
<1> QED
  BY <1>2 DEF t

(* A longer script, or a later oldest version.                             *)
LEMMA BranchRowsKeep ==
  ASSUME NEW branches, NEW shards, NEW s, NEW t, NEW sharded, NEW kp \in Nat, NEW kq \in Nat,
         NEW top \in DOMAIN s, Scripts(s), Agree(s, t), 1 <= kp, kp <= kq,
         BranchRows(branches, shards, s, sharded, kp, top)
  PROVE  BranchRows(branches, shards, t, sharded, kq, top)
<1>1. \A c \in kq .. top : c \in kp .. top /\ c \in DOMAIN s
  BY SMTT(60), ContentRange
<1> QED
  BY <1>1 DEF BranchRows, Agree

(* What holds up to a version holds up to an earlier one.                  *)
LEMMA BranchRowsBack ==
  ASSUME NEW branches, NEW shards, NEW s, NEW sharded, NEW kp \in Nat, NEW top \in Nat, NEW w \in Nat,
         w <= top, BranchRows(branches, shards, s, sharded, kp, top)
  PROVE  BranchRows(branches, shards, s, sharded, kp, w)
<1>1. \A c \in kp .. w : c \in kp .. top
  BY SMTT(60)
<1> QED
  BY <1>1 DEF BranchRows

(* A version that is no checkpoint needs no branches.                      *)
LEMMA BranchRowsLate ==
  ASSUME NEW branches, NEW shards, NEW s, NEW sharded, NEW kp \in Nat, NEW top \in Nat, ~Scheduled(top + 1),
         BranchRows(branches, shards, s, sharded, kp, top)
  PROVE  BranchRows(branches, shards, s, sharded, kp, top + 1)
<1>1. \A c \in kp .. top + 1 : c \in kp .. top \/ c = top + 1
  BY SMTT(60)
<1> QED
  BY <1>1 DEF BranchRows

(* A new shard does not change where the branches are looked up.           *)
LEMMA BranchRowsSharded ==
  ASSUME NEW branches, NEW shards \in SUBSET (1 .. MaxVersion), NEW s, NEW kp \in 1 .. MaxVersion,
         NEW r \in DOMAIN s, r + 1 \in 1 .. MaxVersion, Scripts(s),
         ShardRows(shards, branches, TRUE, r, r), BranchRows(branches, shards, s, TRUE, kp, r)
  PROVE  BranchRows(branches, shards \cup {r + 1}, s, TRUE, kp, r)
<1>1. r \in 1 .. MaxVersion
  BY ContentRange
<1>2. ASSUME NEW c \in kp .. r, NEW k \in Keys, Scheduled(c), s[c][k] # 0
      PROVE  <<ShardOf(shards \cup {r + 1}, TRUE, s[c][k]), <<s[c][k], k>>>> \in branches
  <2>1. c \in 1 .. r /\ c \in DOMAIN s
    BY SMTT(60), <1>1, ContentRange
  <2>2. c \in shards
    BY <1>2, <2>1 DEF ShardRows
  <2>3. s[c][k] \in Int /\ s[c][k] <= c
    BY SMTT(60), <2>1, ContentRange
  <2>4. \A d \in 1 .. MaxVersion : d <= c => (d \in shards <=> d \in shards \cup {r + 1})
    BY SMTT(60), <1>1, <2>1
  <2>5. Find(shards, s[c][k]) = Find(shards \cup {r + 1}, s[c][k])
    <3> DEFINE ws == shards \cup {r + 1}
               u == s[c][k]
    <3>1. ws \in SUBSET (1 .. MaxVersion) /\ c \in shards \cap ws
      BY <2>2
    <3>2. u \in Int /\ u <= c /\ \A d \in 1 .. MaxVersion : d <= c => (d \in shards <=> d \in ws)
      BY <2>3, <2>4
    <3> HIDE DEF ws, u
    <3>3. Find(shards, u) = Find(ws, u)
      BY <3>1, <3>2, FindSame
    <3> QED
      BY <3>3 DEF ws, u
  <2>6. <<ShardOf(shards, TRUE, s[c][k]), <<s[c][k], k>>>> \in branches
    BY <1>2 DEF BranchRows
  <2> QED
    BY <2>5, <2>6 DEF ShardOf
<1> QED
  BY <1>2 DEF BranchRows

(* A checkpoint writes the branches that no earlier one has written.       *)
LEMMA BranchRowsSaved ==
  ASSUME NEW branches, NEW shards \in SUBSET (1 .. MaxVersion), NEW s, NEW sharded \in BOOLEAN,
         NEW kp \in 1 .. MaxVersion, Scheduled(kp), NEW r \in DOMAIN s, kp <= r, r + 1 \in DOMAIN s,
         Scheduled(r + 1), sharded => r + 1 \in shards, Scripts(s),
         ShardRows(shards, branches, sharded, r, r), BranchRows(branches, shards, s, sharded, kp, r)
  PROVE  BranchRows(branches \cup ({Max(shards)} \X Nodes(s[r + 1], Present(s[r + 1]))), shards, s,
                    sharded, kp, r + 1)
<1> DEFINE v == r + 1
           new == {Max(shards)} \X Nodes(s[v], Present(s[v]))
<1>1. r \in 1 .. MaxVersion /\ v \in 1 .. MaxVersion
  BY ContentRange
<1>2. \A k \in Keys : s[v][k] # 0 => <<Max(shards), <<s[v][k], k>>>> \in new
  BY DEF Nodes, Present
<1>3. Max(shards) = IF sharded THEN v ELSE 1
  BY SMTT(60), <1>1, LastShard
<1>4. PICK p \in kp .. r : LastScheduled(p, r)
  BY <1>1, LastScheduledExists
<1>5. p \in 1 .. r /\ p \in DOMAIN s /\ Scheduled(p)
  BY SMTT(60), <1>1, <1>4, ContentRange DEF LastScheduled
<1> HIDE DEF new
<1>6. ASSUME NEW k \in Keys, s[v][k] # 0
      PROVE  <<ShardOf(shards, sharded, s[v][k]), <<s[v][k], k>>>> \in branches \cup new
  <2>1. s[v][k] \in 1 .. MaxVersion /\ s[v][k] <= v
    BY SMTT(60), <1>6, ContentRange
  <2>2. CASE s[v][k] <= p
    <3>1. s[p][k] = s[v][k]
      BY SMTT(60), <1>1, <1>5, <1>6, <2>2, StaysSince
    <3> QED
      BY <1>5, <1>6, <3>1 DEF BranchRows
  <2>3. CASE s[v][k] > p
    <3>1. CASE sharded
      <4> DEFINE u == s[v][k]
                 f == Find(shards, u)
      <4>0. u \in Int /\ u > p /\ u <= v /\ v \in shards
        BY SMTT(60), <2>1, <2>3, <3>1
      <4> HIDE DEF u
      <4>1. f \in shards /\ f >= u /\ \A c \in shards : c >= u => f <= c
        BY <4>0, FindIs
      <4> HIDE DEF f
      <4>2. Scheduled(f) /\ f \in 1 .. MaxVersion /\ u \in Int /\ u > p /\ u <= v
        BY <4>0, <4>1 DEF ShardRows
      <4>3. f <= v
        BY <3>1, <4>1, <4>2
      <4>4. f \notin p + 1 .. r
        BY <1>4, <4>2 DEF LastScheduled
      <4>5. f = v
        BY SMTT(60), <1>1, <4>1, <4>2, <4>3, <4>4
      <4> QED
        BY <1>2, <1>3, <1>6, <3>1, <4>5 DEF ShardOf, f, u
    <3>2. CASE ~sharded
      BY <1>2, <1>6, <3>2 DEF ShardOf
    <3> QED
      BY <3>1, <3>2
  <2> QED
    BY SMTT(60), <1>1, <1>5, <2>1, <2>2, <2>3
<1>7. \A c \in kp .. v : c \in kp .. r \/ c = v
  BY SMTT(60), <1>1
<1>8. BranchRows(branches \cup new, shards, s, sharded, kp, v)
  BY <1>6, <1>7 DEF BranchRows
<1> QED
  BY <1>8 DEF new

(* A branch that was pruned is of no checkpoint that is kept.              *)
LEMMA BranchRowsPruned ==
  ASSUME NEW branches, NEW shards, NEW orphans \in SUBSET (NodeKeys \X (1 .. MaxVersion)), NEW s, NEW sharded,
         NEW kp \in 1 .. MaxVersion, NEW top \in DOMAIN s, NEW o \in orphans, o[2] <= kp, NEW x, Scripts(s),
         OrphanRows(orphans, s), BranchRows(branches, shards, s, sharded, kp, top)
  PROVE  BranchRows(branches \ {<<x, o[1]>>}, shards, s, sharded, kp, top)
<1>1. ASSUME NEW c \in kp .. top, NEW k \in Keys, Scheduled(c), s[c][k] # 0
      PROVE  <<s[c][k], k>> # o[1]
  <2>1. c \in DOMAIN s /\ top \in Nat
    BY SMTT(60), ContentRange
  <2>2. o[2] \in DOMAIN s /\ o[1][1] < o[2] /\ s[o[2]][o[1][2]] # o[1][1] /\ o[2] \in 1 .. MaxVersion
    BY DEF OrphanRows
  <2>3. ASSUME o[1] = <<s[c][k], k>> PROVE FALSE
    <3>1. o[1][1] = s[c][k] /\ o[1][2] = k
      BY SMTT(60), <2>3
    <3>2. o[2] <= c /\ s[c][k] <= o[2] /\ s[c][k] \in 0 .. MaxVersion
      BY SMTT(60), <2>1, <2>2, <3>1, ContentRange
    <3>3. s[o[2]][k] = s[c][k]
      BY SMTT(60), <1>1, <2>1, <2>2, <3>2, StaysSince
    <3> QED
      BY <2>2, <3>1, <3>3
  <2> QED
    BY <2>3
<1> QED
  BY <1>1 DEF BranchRows

(* Revert to version w: the shards that remain have all that is needed.    *)
LEMMA BranchRowsReverted ==
  ASSUME NEW branches, NEW shards \in SUBSET (1 .. MaxVersion), NEW s, NEW kp \in 1 .. MaxVersion,
         NEW r, NEW top \in DOMAIN s, NEW w \in DOMAIN s, w <= top, Scripts(s),
         ShardRows(shards, branches, TRUE, r, top), BranchRows(branches, shards, s, TRUE, kp, top)
  PROVE  LET ss == {c \in shards : c <= w}
         IN  BranchRows({b \in branches : b[1] \in ss}, ss, [v \in {u \in DOMAIN s : u <= w} |-> s[v]],
                        TRUE, kp, w)
<1> DEFINE ss == {c \in shards : c <= w}
           t  == [v \in {u \in DOMAIN s : u <= w} |-> s[v]]
           bs == {b \in branches : b[1] \in ss}
<1>1. DOMAIN t = {u \in DOMAIN s : u <= w} /\ \A v \in DOMAIN t : t[v] = s[v]
  OBVIOUS
<1>2. ss \in SUBSET (1 .. MaxVersion) /\ \A c \in 1 .. MaxVersion : c \in ss <=> c \in shards /\ c <= w
  OBVIOUS
<1>3. w \in 1 .. MaxVersion /\ top \in 1 .. MaxVersion
  BY ContentRange
<1>4. \A x, n : <<x, n>> \in branches /\ x \in ss => <<x, n>> \in bs
  OBVIOUS
<1> HIDE DEF t, ss, bs
<1>5. ASSUME NEW c \in kp .. w, NEW k \in Keys, Scheduled(c), t[c][k] # 0
      PROVE  <<ShardOf(ss, TRUE, t[c][k]), <<t[c][k], k>>>> \in bs
  <2>1. c \in DOMAIN s /\ c \in 1 .. top /\ c \in kp .. top
    BY SMTT(60), <1>3, ContentRange
  <2>2. t[c] = s[c]
    BY SMTT(60), <1>1, <1>3, <2>1
  <2>3. c \in shards /\ c \in ss
    BY SMTT(60), <1>2, <1>3, <1>5, <2>1 DEF ShardRows
  <2> DEFINE u == s[c][k]
  <2>4. u \in Int /\ u <= c /\ u # 0
    BY SMTT(60), <1>5, <2>1, <2>2, ContentRange
  <2>5. <<Find(shards, u), <<u, k>>>> \in branches
    BY <1>5, <2>1, <2>2 DEF BranchRows, ShardOf
  <2> HIDE DEF u
  <2>6. \A d \in 1 .. MaxVersion : d <= c => (d \in shards <=> d \in ss)
    BY SMTT(60), <1>2, <1>3
  <2>7. Find(shards, u) = Find(ss, u)
    <3>1. c \in shards \cap ss
      BY <2>3
    <3> QED
      BY SMTT(60), <1>2, <2>4, <2>6, <3>1, FindSame
  <2>8. Find(ss, u) \in ss
    BY <1>2, <2>3, <2>4, FindIs
  <2>9. <<Find(ss, u), <<u, k>>>> \in bs
    BY <1>4, <2>5, <2>7, <2>8
  <2> QED
    BY <2>2, <2>9 DEF ShardOf, u
<1>6. BranchRows(bs, ss, t, TRUE, kp, w)
  BY <1>5 DEF BranchRows
<1> QED
  BY <1>6 DEF bs, ss, t

(* Which branches are there, and why.                                      *)
LEMMA StockKeep ==
  ASSUME NEW branches, NEW orphans, NEW s, NEW t, NEW r, NEW top \in DOMAIN s, Scripts(s), Agree(s, t),
         Stock(branches, orphans, s, r, top)
  PROVE  Stock(branches, orphans, t, r, top)
<1>1. \A c \in 1 .. top : c \in DOMAIN s
  BY ContentRange
<1> QED
  BY <1>1 DEF Stock, Agree

(* saveBranches writes those of the next version, or some of them.         *)
LEMMA StockSaved ==
  ASSUME NEW branches, NEW orphans, NEW more, NEW s, NEW r \in Nat, r + 1 \in DOMAIN s, Scripts(s),
         Scheduled(r + 1), NEW m, NEW bs \in SUBSET Nodes(s[r + 1], Present(s[r + 1])),
         Stock(branches, orphans, s, r, r)
  PROVE  Stock(branches \cup ({m} \X bs), orphans \cup more, s, r, r)
<1> DEFINE v == r + 1
           new == {m} \X bs
<1>1. ASSUME NEW b \in new
      PROVE  \E c \in DOMAIN s : Scheduled(c) /\ c > r /\ Upcoming(c, r) /\ s[c][b[2][2]] = b[2][1]
  <2>1. Upcoming(v, r)
    BY SMTT(60) DEF Upcoming
  <2>2. s[v][b[2][2]] = b[2][1]
    BY SMTT(60), <1>1 DEF Nodes, Present
  <2> QED
    BY SMTT(60), <2>1, <2>2
<1>2. \A b \in branches :
        \/ \E o \in orphans \cup more : o[1] = b[2]
        \/ \E c \in 1 .. r : LastScheduled(c, r) /\ s[c][b[2][2]] = b[2][1]
        \/ \E c \in DOMAIN s : Scheduled(c) /\ c > r /\ Upcoming(c, r) /\ s[c][b[2][2]] = b[2][1]
  BY DEF Stock
<1> HIDE DEF new
<1>3. Stock(branches \cup new, orphans \cup more, s, r, r)
  BY <1>1, <1>2 DEF Stock
<1> QED
  BY <1>3 DEF new

(* If the version after r is a checkpoint, what it does not have of the    *)
(* last one has become an orphan.                                          *)
OrphansSaved(orphans, s, r) ==
  Scheduled(r + 1) => \A c \in 1 .. r, k \in Keys :
    LastScheduled(c, r) /\ s[c][k] # 0 /\ s[r + 1][k] # s[c][k]
    => \E o \in orphans : o[1] = <<s[c][k], k>>

(* The root of the next version makes it the one that counts.              *)
LEMMA StockRooted ==
  ASSUME NEW branches \in SUBSET ((1 .. MaxVersion) \X NodeKeys), NEW orphans, NEW s, NEW r \in Nat,
         r + 1 \in DOMAIN s, Scripts(s), Stock(branches, orphans, s, r, r),
         OrphansSaved(orphans, s, r)
  PROVE  Stock(branches, orphans, s, r, r + 1)
<1> DEFINE v == r + 1
<1>1. v \in 1 .. MaxVersion
  BY ContentRange
<1>2. SUFFICES ASSUME NEW b \in branches, ~ \E o \in orphans : o[1] = b[2]
      PROVE  \/ \E c \in 1 .. v : LastScheduled(c, v) /\ s[c][b[2][2]] = b[2][1]
             \/ \E c \in DOMAIN s : Scheduled(c) /\ c > v /\ Upcoming(c, r) /\ s[c][b[2][2]] = b[2][1]
  BY DEF Stock
<1> DEFINE k == b[2][2]
           u == b[2][1]
<1>3. k \in Keys /\ u \in 1 .. MaxVersion /\ b[2] = <<u, k>>
  BY SMTT(60) DEF NodeKeys
<1>4. ASSUME NEW c \in 1 .. r, LastScheduled(c, r), s[c][k] = u
      PROVE  \E d \in 1 .. v : LastScheduled(d, v) /\ s[d][k] = u
  <2>1. CASE Scheduled(v)
    <3>1. s[v][k] = u
      BY SMTT(60), <1>2, <1>3, <1>4, <2>1 DEF OrphansSaved
    <3>2. LastScheduled(v, v) /\ v \in 1 .. v
      BY SMTT(60), <1>1, <2>1 DEF LastScheduled
    <3> QED
      BY <3>1, <3>2
  <2>2. CASE ~Scheduled(v)
    <3>1. \A d \in c + 1 .. v : d \in c + 1 .. r \/ d = v
      BY SMTT(60)
    <3>2. LastScheduled(c, v) /\ c \in 1 .. v
      BY SMTT(60), <1>4, <2>2, <3>1 DEF LastScheduled
    <3> QED
      BY <1>4, <3>2
  <2> QED
    BY <2>1, <2>2
<1>5. ASSUME NEW c \in DOMAIN s, Scheduled(c), c > r, Upcoming(c, r), s[c][k] = u
      PROVE  \/ \E d \in 1 .. v : LastScheduled(d, v) /\ s[d][k] = u
             \/ c > v
  <2>1. c \in 1 .. MaxVersion
    BY ContentRange
  <2>2. CASE c = v
    <3>1. LastScheduled(v, v) /\ v \in 1 .. v
      BY SMTT(60), <1>1, <1>5, <2>2 DEF LastScheduled
    <3> QED
      BY <1>5, <2>2, <3>1
  <2> QED
    BY SMTT(60), <1>5, <2>1, <2>2
<1> QED
  BY <1>2, <1>4, <1>5 DEF Stock

(* SaveVersion has returned.                                               *)
LEMMA StockReturned ==
  ASSUME NEW branches, NEW orphans, NEW s, NEW r \in Nat, NEW top, Scripts(s),
         Stock(branches, orphans, s, r, top)
  PROVE  Stock(branches, orphans, s, r + 1, top)
<1>1. ASSUME NEW c \in DOMAIN s, Upcoming(c, r) PROVE Upcoming(c, r + 1)
  <2>1. c \in Int
    BY SMTT(60), ContentRange
  <2> QED
    BY SMTT(60), <1>1, <2>1, UpcomingLater
<1> QED
  BY <1>1 DEF Stock

(* stepPruning deletes an orphan together with its branch.                 *)
LEMMA StockPruned ==
  ASSUME NEW branches \in SUBSET ((1 .. MaxVersion) \X NodeKeys), NEW orphans, NEW s, NEW r, NEW top,
         NEW o \in orphans, \A b \in branches : b[1] = 1, Stock(branches, orphans, s, r, top)
  PROVE  Stock(branches \ {<<1, o[1]>>}, orphans \ {o}, s, r, top)
<1>1. ASSUME NEW b \in branches \ {<<1, o[1]>>} PROVE b[2] # o[1]
  <2>1. b = <<b[1], b[2]>> /\ b[1] = 1
    BY SMTT(60)
  <2> QED
    BY <1>1, <2>1
<1>2. \A b \in branches \ {<<1, o[1]>>} :
        (\E q \in orphans : q[1] = b[2]) => \E q \in orphans \ {o} : q[1] = b[2]
  BY <1>1
<1> QED
  BY <1>2 DEF Stock

(* The next process goes on from w, after which there was no checkpoint.   *)
LEMMA StockBack ==
  ASSUME NEW branches, NEW orphans, NEW s, NEW r \in Nat, NEW top \in Nat, NEW w \in Nat, Scripts(s),
         w <= r, r <= top, \A d \in w + 1 .. top : ~Scheduled(d), Stock(branches, orphans, s, r, top)
  PROVE  Stock(branches, orphans, s, w, w)
<1>1. ASSUME NEW c \in 1 .. top, LastScheduled(c, top) PROVE c \in 1 .. w /\ LastScheduled(c, w)
  <2>1. c \in 1 .. w
    BY SMTT(60), <1>1 DEF LastScheduled
  <2>2. \A d \in c + 1 .. w : d \in c + 1 .. top
    BY SMTT(60)
  <2> QED
    BY SMTT(60), <1>1, <2>1, <2>2 DEF LastScheduled
<1>2. ASSUME NEW c \in DOMAIN s, c > top, Upcoming(c, r) PROVE c > w /\ Upcoming(c, w)
  <2>1. c \in Int
    BY SMTT(60), ContentRange
  <2>2. \A d \in w + 1 .. r : ~Scheduled(d)
    BY SMTT(60)
  <2> QED
    BY SMTT(60), <1>2, <2>1, <2>2, UpcomingBack
<1> QED
  BY <1>1, <1>2 DEF Stock

(* Revert to version w of a tree without shards deletes no branch; the     *)
(* checkpoint p, from which w is loaded, has those that were there.        *)
LEMMA StockReverted ==
  ASSUME NEW branches \in SUBSET ((1 .. MaxVersion) \X NodeKeys), NEW orphans, NEW s, NEW r \in Nat,
         NEW top \in DOMAIN s, NEW w \in DOMAIN s, w <= top, Scripts(s), NEW p \in 1 .. w,
         LastScheduled(p, w), \A b \in branches : b[2][1] <= p, Stock(branches, orphans, s, r, top)
  PROVE  Stock(branches, orphans, [v \in {u \in DOMAIN s : u <= w} |-> s[v]], w, w)
<1> DEFINE t == [v \in {u \in DOMAIN s : u <= w} |-> s[v]]
<1>1. top \in Nat /\ w \in Nat /\ p \in DOMAIN s /\ p <= w /\ p <= top /\ Scheduled(p)
  BY SMTT(60), ContentRange DEF LastScheduled
<1>2. t[p] = s[p]
  BY <1>1
<1>3. ASSUME NEW c \in DOMAIN s, p <= c, NEW b \in branches, s[c][b[2][2]] = b[2][1]
      PROVE  s[p][b[2][2]] = b[2][1]
  <2>1. b[2][1] \in 1 .. MaxVersion /\ b[2][2] \in Keys
    BY SMTT(60) DEF NodeKeys
  <2>2. b[2][1] # 0 /\ p \in 1 .. c /\ b[2][1] <= p
    BY SMTT(60), <1>1, <1>3, <2>1, ContentRange
  <2> QED
    BY <1>3, <2>1, <2>2 DEF Scripts
<1>4. ASSUME NEW c \in 1 .. top, LastScheduled(c, top) PROVE c \in DOMAIN s /\ p <= c
  <2>1. c \in DOMAIN s
    BY ContentRange
  <2>2. p \notin c + 1 .. top
    BY <1>1, <1>4 DEF LastScheduled
  <2> QED
    BY SMTT(60), <1>1, <2>1, <2>2
<1>5. \A c \in DOMAIN s : c > top => p <= c
  BY SMTT(60), <1>1, ContentRange
<1>6. \A b \in branches : (\E o \in orphans : o[1] = b[2]) \/ s[p][b[2][2]] = b[2][1]
  BY <1>3, <1>4, <1>5 DEF Stock
<1> HIDE DEF t
<1>7. Stock(branches, orphans, t, w, w)
  BY <1>2, <1>6 DEF Stock
<1> QED
  BY <1>7 DEF t
=============================================================================
