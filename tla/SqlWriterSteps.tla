-------------------------- MODULE SqlWriterSteps ---------------------------
(***************************************************************************)
(* The steps of the two loops of the writer keep the inductive invariant   *)
(* of SqlWriterRows, one lemma per action.                                 *)
(***************************************************************************)
EXTENDS SqlWriterRows

(* A leaf is for Zenon unless it names the SMT solver; each prover has up to
   sixty seconds, so that no proof depends on the speed of a machine.       *)
USE ZenonT(60)

-----------------------------------------------------------------------------
(* The tree database, for each way in which it is written.                 *)

(* A longer script, or a later oldest version: the database is not written.*)
LEMMA TreeRowsKeep ==
  ASSUME NEW db \in TreeDbs, NEW s, NEW t, NEW sharded \in BOOLEAN, NEW kp \in 1 .. MaxVersion,
         NEW kq \in 1 .. MaxVersion, NEW r, NEW rootTop \in DOMAIN s, NEW branchTop \in DOMAIN s,
         Scripts(s), Agree(s, t), kp <= kq, TreeRows(db, s, sharded, kp, r, rootTop, branchTop)
  PROVE  TreeRows(db, t, sharded, kq, r, rootTop, branchTop)
<1>1. rootTop \in Nat /\ kp \in Nat /\ kq \in Nat
  BY SMTT(60), BoundsAssumption, ContentRange
<1>2. RootRows(db.roots, t, kq, rootTop)
  <2>1. \A v \in DOMAIN db.roots : v \in Nat
    BY TreeDbTypes
  <2> QED
    BY <1>1, <2>1, RootRowsKeep DEF TreeRows
<1>3. OrphanRows(db.orphans, t)
  BY OrphanRowsKeep DEF TreeRows
<1>4. BranchRows(db.branches, db.shards, t, sharded, kq, branchTop)
  BY SMTT(60), BranchRowsKeep DEF TreeRows
<1>5. ~sharded => Stock(db.branches, db.orphans, t, r, rootTop)
  BY StockKeep DEF TreeRows
<1> QED
  BY <1>2, <1>3, <1>4, <1>5 DEF TreeRows

(* A version that is no checkpoint has no branches to write.               *)
LEMMA TreeRowsSkip ==
  ASSUME NEW db \in TreeDbs, NEW s, NEW sharded \in BOOLEAN, NEW kp \in 1 .. MaxVersion,
         NEW r \in 1 .. MaxVersion, r + 1 \in 1 .. MaxVersion, NEW rootTop, ~Scheduled(r + 1),
         TreeRows(db, s, sharded, kp, r, rootTop, r)
  PROVE  TreeRows(db, s, sharded, kp, r, rootTop, r + 1)
<1>1. ShardRows(db.shards, db.branches \cup {}, sharded, r, r + 1)
  <2>1. db.shards \in SUBSET (1 .. MaxVersion) /\ r \in Nat /\ \A b \in {} : b[1] = 1
    BY SMTT(60), TreeDbTypes, BoundsAssumption
  <2>2. ShardRows(db.shards, db.branches, sharded, r, r)
    BY DEF TreeRows
  <2> QED
    BY <2>1, <2>2, ShardRowsSaved
<1>2. db.branches \cup {} = db.branches
  OBVIOUS
<1>3. BranchRows(db.branches, db.shards, s, sharded, kp, r + 1)
  BY SMTT(60), BranchRowsLate DEF TreeRows
<1> QED
  BY <1>1, <1>2, <1>3 DEF TreeRows

(* nextShard.                                                              *)
LEMMA TreeRowsShard ==
  ASSUME NEW db \in TreeDbs, NEW s, NEW kp \in 1 .. MaxVersion, NEW r \in DOMAIN s, r + 1 \in 1 .. MaxVersion,
         Scripts(s), Scheduled(r + 1), TreeRows(db, s, TRUE, kp, r, r, r)
  PROVE  LET new == [db EXCEPT !.shards = @ \cup {r + 1}]
         IN  new \in TreeDbs /\ TreeRows(new, s, TRUE, kp, r, r, r)
<1> DEFINE new == [db EXCEPT !.shards = @ \cup {r + 1}]
<1>1. r \in Nat
  BY SMTT(60), ContentRange
<1>2. /\ new.roots = db.roots /\ new.branches = db.branches /\ new.orphans = db.orphans
      /\ new.shards = db.shards \cup {r + 1} /\ new \in TreeDbs
  BY DEF TreeDbs
<1> HIDE DEF new
<1>3. ShardRows(db.shards \cup {r + 1}, db.branches, TRUE, r, r)
  BY <1>1, TreeDbTypes, ShardRowsAdded DEF TreeRows
<1>4. BranchRows(db.branches, db.shards \cup {r + 1}, s, TRUE, kp, r)
  BY TreeDbTypes, BranchRowsSharded DEF TreeRows
<1>5. TreeRows(new, s, TRUE, kp, r, r, r)
  BY <1>2, <1>3, <1>4 DEF TreeRows
<1> QED
  BY <1>2, <1>5 DEF new

(* saveBranches.                                                           *)
LEMMA TreeRowsBranches ==
  ASSUME NEW db \in TreeDbs, NEW s, NEW sharded \in BOOLEAN, NEW kp \in 1 .. MaxVersion, NEW r \in DOMAIN s,
         r + 1 \in DOMAIN s, kp <= r, Scheduled(kp), Scheduled(r + 1), sharded => r + 1 \in db.shards,
         NEW os \in SUBSET NodeKeys, \A n \in os : n[1] < r + 1 /\ s[r + 1][n[2]] # n[1],
         Scripts(s), TreeRows(db, s, sharded, kp, r, r, r)
  PROVE  LET new == [db EXCEPT !.branches = @ \cup ({Max(db.shards)} \X Nodes(s[r + 1], Present(s[r + 1]))),
                               !.orphans = @ \cup {<<n, r + 1>> : n \in os}]
         IN  new \in TreeDbs /\ TreeRows(new, s, sharded, kp, r, r, r + 1)
<1> DEFINE m == Max(db.shards)
           more == {m} \X Nodes(s[r + 1], Present(s[r + 1]))
           mos == {<<n, r + 1>> : n \in os}
           new == [db EXCEPT !.branches = @ \cup more, !.orphans = @ \cup mos]
<1>1. r \in Nat /\ r \in 1 .. MaxVersion /\ r + 1 \in 1 .. MaxVersion
  BY SMTT(60), ContentRange
<1>2. m = IF sharded THEN r + 1 ELSE 1
  BY <1>1, TreeDbTypes, LastShard DEF TreeRows
<1>3. m \in 1 .. MaxVersion
  <2> HIDE DEF m
  <2> QED
    BY SMTT(60), <1>1, <1>2, BoundsAssumption
<1>4. Nodes(s[r + 1], Present(s[r + 1])) \subseteq NodeKeys
  <2>1. \A k \in Keys : s[r + 1][k] \in 0 .. MaxVersion
    BY ContentRange
  <2> QED
    BY SMTT(60), <2>1 DEF Nodes, Present, NodeKeys
<1>5. more \in SUBSET ((1 .. MaxVersion) \X NodeKeys) /\ mos \in SUBSET (NodeKeys \X (1 .. MaxVersion))
  BY SMTT(60), <1>1, <1>3, <1>4
<1>6. ~sharded => \A b \in more : b[1] = 1
  BY <1>2
<1>7. BranchRows(db.branches \cup more, db.shards, s, sharded, kp, r + 1)
  <2>1. /\ db.shards \in SUBSET (1 .. MaxVersion) /\ ShardRows(db.shards, db.branches, sharded, r, r)
        /\ BranchRows(db.branches, db.shards, s, sharded, kp, r)
    BY TreeDbTypes DEF TreeRows
  <2> QED
    BY SMTT(60), <2>1, BranchRowsSaved
<1>8. ~sharded => Stock(db.branches \cup more, db.orphans \cup mos, s, r, r)
  BY <1>1, StockSaved DEF TreeRows
<1>9. OrphanRows(db.orphans \cup mos, s)
  BY OrphanRowsAdded DEF TreeRows
<1> HIDE DEF more, m, mos
<1>10. ShardRows(db.shards, db.branches \cup more, sharded, r, r + 1)
  BY <1>1, <1>6, TreeDbTypes, ShardRowsSaved DEF TreeRows
<1>11. /\ new.roots = db.roots /\ new.branches = db.branches \cup more /\ new.orphans = db.orphans \cup mos
       /\ new.shards = db.shards /\ new \in TreeDbs
  BY <1>5 DEF TreeDbs
<1> HIDE DEF new
<1>12. TreeRows(new, s, sharded, kp, r, r, r + 1)
  BY <1>7, <1>8, <1>9, <1>10, <1>11 DEF TreeRows
<1> QED
  BY <1>11, <1>12 DEF new, more, m, mos

(* A commit in the middle of saveBranches: some of the rows are there.     *)
LEMMA TreeRowsSome ==
  ASSUME NEW db \in TreeDbs, NEW s, NEW sharded \in BOOLEAN, NEW kp, NEW r \in DOMAIN s,
         r + 1 \in DOMAIN s, Scheduled(r + 1), sharded => r + 1 \in db.shards,
         NEW bs \in SUBSET Nodes(s[r + 1], Present(s[r + 1])),
         NEW os \in SUBSET NodeKeys, \A n \in os : n[1] < r + 1 /\ s[r + 1][n[2]] # n[1],
         Scripts(s), TreeRows(db, s, sharded, kp, r, r, r)
  PROVE  LET new == [db EXCEPT !.branches = @ \cup ({Max(db.shards)} \X bs),
                               !.orphans = @ \cup {<<n, r + 1>> : n \in os}]
         IN  new \in TreeDbs /\ TreeRows(new, s, sharded, kp, r, r, r)
<1> DEFINE m == Max(db.shards)
           more == {m} \X bs
           mos == {<<n, r + 1>> : n \in os}
           new == [db EXCEPT !.branches = @ \cup more, !.orphans = @ \cup mos]
<1>1. r \in Nat /\ r \in 1 .. MaxVersion /\ r + 1 \in 1 .. MaxVersion
  BY SMTT(60), ContentRange
<1>2. m = IF sharded THEN r + 1 ELSE 1
  BY <1>1, TreeDbTypes, LastShard DEF TreeRows
<1>3. m \in 1 .. MaxVersion
  <2> HIDE DEF m
  <2> QED
    BY SMTT(60), <1>1, <1>2, BoundsAssumption
<1>4. bs \subseteq NodeKeys
  <2>1. \A k \in Keys : s[r + 1][k] \in 0 .. MaxVersion
    BY ContentRange
  <2> QED
    BY SMTT(60), <2>1 DEF Nodes, Present, NodeKeys
<1>5. more \in SUBSET ((1 .. MaxVersion) \X NodeKeys) /\ mos \in SUBSET (NodeKeys \X (1 .. MaxVersion))
  BY SMTT(60), <1>1, <1>3, <1>4
<1>6. ~sharded => \A b \in more : b[1] = 1
  BY <1>2
<1>7. ~sharded => Stock(db.branches \cup more, db.orphans \cup mos, s, r, r)
  BY <1>1, StockSaved DEF TreeRows
<1>8. OrphanRows(db.orphans \cup mos, s)
  BY OrphanRowsAdded DEF TreeRows
<1> HIDE DEF more, m, mos
<1>9. BranchRows(db.branches \cup more, db.shards, s, sharded, kp, r)
  BY DEF TreeRows, BranchRows
<1>10. ShardRows(db.shards, db.branches \cup more, sharded, r, r)
  BY <1>6 DEF TreeRows, ShardRows
<1>11. /\ new.roots = db.roots /\ new.branches = db.branches \cup more /\ new.orphans = db.orphans \cup mos
       /\ new.shards = db.shards /\ new \in TreeDbs
  BY <1>5 DEF TreeDbs
<1> HIDE DEF new
<1>12. TreeRows(new, s, sharded, kp, r, r, r)
  BY <1>7, <1>8, <1>9, <1>10, <1>11 DEF TreeRows
<1> QED
  BY <1>11, <1>12 DEF new, more, m, mos

(* saveRoot; a transaction that is not committed keeps it from the disk,   *)
(* but only if it is no checkpoint.                                        *)
LEMMA TreeRowsRoot ==
  ASSUME NEW db \in TreeDbs, NEW s, NEW sharded \in BOOLEAN, NEW kp \in 1 .. MaxVersion, NEW r \in DOMAIN s,
         r + 1 \in DOMAIN s, NEW cp \in BOOLEAN, cp <=> Scheduled(r + 1), kp .. r \subseteq DOMAIN db.roots,
         OrphansSaved(db.orphans, s, r),
         Scripts(s), TreeRows(db, s, sharded, kp, r, r, r + 1)
  PROVE  LET new == [db EXCEPT !.roots = Insert(@, r + 1, [content |-> s[r + 1], checkpoint |-> cp])]
         IN  /\ new \in TreeDbs /\ TreeRows(new, s, sharded, kp, r, r + 1, r + 1)
             /\ kp .. r + 1 \subseteq DOMAIN new.roots
<1> DEFINE row == [content |-> s[r + 1], checkpoint |-> cp]
           rs == Insert(db.roots, r + 1, row)
           new == [db EXCEPT !.roots = rs]
<1>1. r \in Nat /\ r \in 1 .. MaxVersion /\ r + 1 \in 1 .. MaxVersion /\ s[r + 1] \in Contents /\ kp \in Nat
  BY SMTT(60), ContentRange, BoundsAssumption
<1>2. /\ \A v \in DOMAIN db.roots : v \in Nat /\ v \in 1 .. MaxVersion /\ db.roots[v] \in Roots
      /\ db.branches \in SUBSET ((1 .. MaxVersion) \X NodeKeys)
  BY TreeDbTypes
<1>3. RootRows(db.roots, s, kp, r)
  BY DEF TreeRows
<1>4. RootRows(rs, s, kp, r + 1) /\ kp .. r + 1 \subseteq DOMAIN rs
  BY <1>1, <1>2, <1>3, RootRowsSaved
<1>5. rs \in RootTables
  <2>1. row \in Roots
    BY <1>1 DEF Roots
  <2>2. rs \in [DOMAIN db.roots \cup {r + 1} -> Roots]
    BY <1>2, <2>1 DEF Insert
  <2>3. DOMAIN db.roots \cup {r + 1} \in SUBSET (1 .. MaxVersion)
    BY <1>1, <1>2
  <2> QED
    BY <2>2, <2>3 DEF RootTables
<1>6. ~sharded => Stock(db.branches, db.orphans, s, r, r + 1)
  BY <1>1, <1>2, StockRooted DEF TreeRows
<1> HIDE DEF rs, row
<1>7. /\ new.roots = rs /\ new.branches = db.branches /\ new.orphans = db.orphans
      /\ new.shards = db.shards /\ new \in TreeDbs
  BY <1>5 DEF TreeDbs
<1> HIDE DEF new
<1>8. TreeRows(new, s, sharded, kp, r, r + 1, r + 1)
  BY <1>4, <1>6, <1>7 DEF TreeRows
<1> QED
  BY <1>4, <1>7, <1>8 DEF new, rs, row

(* The disk, when the root is in a transaction.                            *)
LEMMA TreeRowsLate ==
  ASSUME NEW db \in TreeDbs, NEW s, NEW sharded \in BOOLEAN, NEW kp \in 1 .. MaxVersion, NEW r \in DOMAIN s,
         r + 1 \in DOMAIN s, ~Scheduled(r + 1), Scripts(s), TreeRows(db, s, sharded, kp, r, r, r + 1)
  PROVE  TreeRows(db, s, sharded, kp, r, r + 1, r + 1)
<1>1. r \in Nat /\ kp \in Nat
  BY SMTT(60), ContentRange, BoundsAssumption
<1>2. /\ \A v \in DOMAIN db.roots : v \in Nat
      /\ db.branches \in SUBSET ((1 .. MaxVersion) \X NodeKeys)
  BY TreeDbTypes
<1>3. RootRows(db.roots, s, kp, r + 1)
  BY <1>1, <1>2, RootRowsLate DEF TreeRows
<1>4. ~sharded => Stock(db.branches, db.orphans, s, r, r + 1)
  <2>1. OrphansSaved(db.orphans, s, r)
    BY DEF OrphansSaved
  <2> QED
    BY <1>1, <1>2, <2>1, StockRooted DEF TreeRows
<1> QED
  BY <1>3, <1>4 DEF TreeRows

(* SaveVersion has returned.                                               *)
LEMMA TreeRowsReturned ==
  ASSUME NEW db \in TreeDbs, NEW s, NEW sharded \in BOOLEAN, NEW kp, NEW r \in Nat, Scripts(s),
         NEW rootTop, NEW branchTop, TreeRows(db, s, sharded, kp, r, rootTop, branchTop)
  PROVE  TreeRows(db, s, sharded, kp, r + 1, rootTop, branchTop)
<1>1. ShardRows(db.shards, db.branches, sharded, r + 1, branchTop)
  BY TreeDbTypes, ShardRowsReturned DEF TreeRows
<1>2. ~sharded => Stock(db.branches, db.orphans, s, r + 1, rootTop)
  BY StockReturned DEF TreeRows
<1> QED
  BY <1>1, <1>2 DEF TreeRows

(* stepPruning, for one orphan.                                            *)
LEMMA TreeRowsPruned ==
  ASSUME NEW db \in TreeDbs, NEW s, NEW sharded \in BOOLEAN, NEW kp \in 1 .. MaxVersion, NEW r,
         NEW rootTop, NEW branchTop \in DOMAIN s, NEW o \in db.orphans, o[2] <= kp,
         Scripts(s), TreeRows(db, s, sharded, kp, r, rootTop, branchTop)
  PROVE  LET new == [db EXCEPT !.branches = @ \ {<<ShardOf(db.shards, sharded, o[1][1]), o[1]>>},
                               !.orphans = @ \ {o}]
         IN  new \in TreeDbs /\ TreeRows(new, s, sharded, kp, r, rootTop, branchTop)
<1> DEFINE x == ShardOf(db.shards, sharded, o[1][1])
           bs == db.branches \ {<<x, o[1]>>}
           os == db.orphans \ {o}
           new == [db EXCEPT !.branches = bs, !.orphans = os]
<1>1. /\ db.branches \in SUBSET ((1 .. MaxVersion) \X NodeKeys)
      /\ db.orphans \in SUBSET (NodeKeys \X (1 .. MaxVersion))
  BY TreeDbTypes
<1>2. ~sharded => x = 1
  <2>1. ~sharded => db.shards = {1}
    BY DEF TreeRows, ShardRows
  <2>2. 1 \in 1 .. MaxVersion
    BY SMTT(60), BoundsAssumption
  <2>3. Max({1}) = 1
    BY SMTT(60), <2>2, MaxIs
  <2> QED
    BY <2>1, <2>3 DEF ShardOf
<1>3. BranchRows(bs, db.shards, s, sharded, kp, branchTop)
  BY <1>1, BranchRowsPruned DEF TreeRows
<1> HIDE DEF x
<1>4. ShardRows(db.shards, bs, sharded, r, branchTop)
  BY ShardRowsPruned DEF TreeRows
<1>5. ~sharded => Stock(bs, os, s, r, rootTop)
  <2>1. ~sharded => \A b \in db.branches : b[1] = 1
    BY DEF TreeRows, ShardRows
  <2> QED
    BY <1>1, <1>2, <2>1, StockPruned DEF TreeRows
<1>6. OrphanRows(os, s)
  BY DEF TreeRows, OrphanRows
<1> HIDE DEF bs, os
<1>7. /\ new.roots = db.roots /\ new.branches = bs /\ new.orphans = os /\ new.shards = db.shards
      /\ new \in TreeDbs
  BY DEF TreeDbs, bs, os
<1> HIDE DEF new
<1>8. TreeRows(new, s, sharded, kp, r, rootTop, branchTop)
  BY <1>3, <1>4, <1>5, <1>6, <1>7 DEF TreeRows
<1> QED
  BY <1>7, <1>8 DEF new, bs, os, x

(* The end of a prune: the roots before p are deleted.                     *)
RootsFrom(roots, p) == [v \in {u \in DOMAIN roots : u >= p} |-> roots[v]]

(* The others are still there.                                             *)
LEMMA TreeRowsEnded ==
  ASSUME NEW db \in TreeDbs, NEW s, NEW sharded \in BOOLEAN, NEW kp \in 1 .. MaxVersion, NEW r,
         NEW rootTop \in Nat, NEW branchTop, NEW p \in Int, p <= kp,
         TreeRows(db, s, sharded, kp, r, rootTop, branchTop)
  PROVE  LET new == [db EXCEPT !.roots = RootsFrom(@, p)]
         IN  /\ new \in TreeDbs /\ TreeRows(new, s, sharded, kp, r, rootTop, branchTop)
             /\ kp .. rootTop \cap DOMAIN db.roots \subseteq DOMAIN new.roots
<1> DEFINE rs == RootsFrom(db.roots, p)
           new == [db EXCEPT !.roots = rs]
<1>1. kp \in Nat
  BY SMTT(60), BoundsAssumption
<1>2. \A v \in DOMAIN db.roots : v \in Nat /\ v \in 1 .. MaxVersion /\ db.roots[v] \in Roots
  BY TreeDbTypes
<1>3. RootRows(rs, s, kp, rootTop)
  BY <1>1, <1>2, RootRowsPruned DEF TreeRows, RootsFrom
<1>4. rs \in RootTables
  <2>1. rs \in [{u \in DOMAIN db.roots : u >= p} -> Roots]
    BY <1>2 DEF RootsFrom
  <2>2. {u \in DOMAIN db.roots : u >= p} \in SUBSET (1 .. MaxVersion)
    BY <1>2
  <2> QED
    BY <2>1, <2>2 DEF RootTables
<1>5. kp .. rootTop \cap DOMAIN db.roots \subseteq DOMAIN rs
  BY SMTT(60), <1>1 DEF RootsFrom
<1> HIDE DEF rs
<1>6. /\ new.roots = rs /\ new.branches = db.branches /\ new.orphans = db.orphans
      /\ new.shards = db.shards /\ new \in TreeDbs
  BY <1>4 DEF TreeDbs
<1> HIDE DEF new
<1>7. TreeRows(new, s, sharded, kp, r, rootTop, branchTop)
  BY <1>3, <1>6 DEF TreeRows
<1> QED
  BY <1>5, <1>6, <1>7 DEF new, rs

(* The next process loads version w, and no root is later.                 *)
LEMMA TreeRowsBack ==
  ASSUME NEW db \in TreeDbs, NEW s, NEW sharded \in BOOLEAN, NEW kp \in 1 .. MaxVersion, NEW r \in Nat,
         NEW rootTop \in Nat, NEW branchTop \in Nat, NEW w \in Nat, kp <= w, w <= r, r <= rootTop, r <= branchTop,
         \A v \in DOMAIN db.roots : v <= w, Scripts(s), TreeRows(db, s, sharded, kp, r, rootTop, branchTop)
  PROVE  TreeRows(db, s, sharded, kp, w, w, w)
<1>1. kp \in Nat /\ w <= rootTop /\ w <= branchTop
  BY SMTT(60), BoundsAssumption
<1>2. db.shards \in SUBSET (1 .. MaxVersion) /\ \A v \in DOMAIN db.roots : v \in Nat /\ v <= w
  BY TreeDbTypes
<1>3. \A d \in w + 1 .. rootTop : ~Scheduled(d)
  <2>1. \A c \in kp .. rootTop : Scheduled(c) => c \in DOMAIN db.roots
    BY DEF TreeRows, RootRows
  <2> QED
    BY SMTT(60), <1>1, <1>2, <2>1
<1>4. \A d \in w + 1 .. r : ~Scheduled(d)
  BY SMTT(60), <1>3
<1>5. RootRows(db.roots, s, kp, w)
  BY <1>1, <1>2, RootRowsBack DEF TreeRows
<1>6. ShardRows(db.shards, db.branches, sharded, w, w)
  BY <1>2, <1>4, ShardRowsBack DEF TreeRows
<1>7. BranchRows(db.branches, db.shards, s, sharded, kp, w)
  BY <1>1, BranchRowsBack DEF TreeRows
<1>8. ~sharded => Stock(db.branches, db.orphans, s, w, w)
  BY <1>3, StockBack DEF TreeRows
<1> QED
  BY <1>5, <1>6, <1>7, <1>8 DEF TreeRows

(* Revert to version w.                                                    *)
LEMMA TreeRowsReverted ==
  ASSUME NEW db \in TreeDbs, NEW s, NEW kp \in 1 .. MaxVersion, NEW r \in Nat,
         NEW rootTop \in Nat, NEW branchTop \in DOMAIN s, NEW w \in DOMAIN s, w <= rootTop, w <= branchTop,
         Scripts(s), TreeRows(db, s, TRUE, kp, r, rootTop, branchTop)
  PROVE  /\ RevertedTree(db, w) \in TreeDbs
         /\ TreeRows(RevertedTree(db, w), [v \in {u \in DOMAIN s : u <= w} |-> s[v]], TRUE, kp, w, w, w)
<1> DEFINE cut == [v \in {u \in DOMAIN s : u <= w} |-> s[v]]
           ss == {c \in db.shards : c <= w}
           rs == [v \in {u \in DOMAIN db.roots : u <= w} |-> db.roots[v]]
           bs == {b \in db.branches : b[1] \in ss}
           os == {o \in db.orphans : o[2] <= w}
           new == [roots |-> rs, branches |-> bs, orphans |-> os, shards |-> ss]
<1>1. kp \in Nat /\ w \in Nat /\ w \in 1 .. MaxVersion /\ branchTop \in Nat /\ 1 <= w
  BY SMTT(60), BoundsAssumption, ContentRange
<1>2. /\ db.shards \in SUBSET (1 .. MaxVersion) /\ 1 \in db.shards
      /\ \A v \in DOMAIN db.roots : v \in Nat /\ v \in 1 .. MaxVersion /\ db.roots[v] \in Roots
  BY TreeDbTypes DEF TreeRows, ShardRows
<1>3. RevertedTree(db, w) = new
  <2>1. (IF \E c, d \in db.shards : c # d THEN {c \in db.shards : c <= w} ELSE db.shards) = ss
    BY <1>1, <1>2, RevertedShards
  <2> HIDE DEF ss
  <2> QED
    BY <2>1 DEF RevertedTree, ss
<1>4. RootRows(rs, cut, kp, w)
  BY <1>1, <1>2, RootRowsReverted DEF TreeRows
<1>5. ShardRows(ss, bs, TRUE, w, w)
  BY <1>1, <1>2, ShardRowsReverted DEF TreeRows
<1>6. OrphanRows(os, cut)
  BY OrphanRowsReverted DEF TreeRows
<1>7. BranchRows(bs, ss, cut, TRUE, kp, w)
  BY <1>1, <1>2, BranchRowsReverted DEF TreeRows
<1>8. rs \in RootTables
  <2>1. rs \in [{u \in DOMAIN db.roots : u <= w} -> Roots]
    BY <1>2
  <2>2. {u \in DOMAIN db.roots : u <= w} \in SUBSET (1 .. MaxVersion)
    BY <1>2
  <2> QED
    BY <2>1, <2>2 DEF RootTables
<1>9. /\ bs \in SUBSET ((1 .. MaxVersion) \X NodeKeys) /\ os \in SUBSET (NodeKeys \X (1 .. MaxVersion))
      /\ ss \in SUBSET (1 .. MaxVersion)
  BY TreeDbTypes
<1> HIDE DEF rs, bs, os, ss, cut
<1>10. new \in TreeDbs
  BY <1>8, <1>9 DEF TreeDbs
<1>11. TreeRows(new, cut, TRUE, kp, w, w, w)
  BY <1>4, <1>5, <1>6, <1>7 DEF TreeRows
<1> QED
  BY <1>3, <1>10, <1>11 DEF cut

(* Revert to version w of a tree without shards, if no checkpoint has left *)
(* rows after w.                                                           *)
LEMMA TreeRowsUndone ==
  ASSUME NEW db \in TreeDbs, NEW s, NEW kp \in 1 .. MaxVersion, Scheduled(kp), NEW r \in Nat,
         NEW rootTop \in DOMAIN s, NEW branchTop \in DOMAIN s, NEW w \in DOMAIN s, kp <= w,
         w <= rootTop, w <= branchTop, ~CheckpointAfter(db, w),
         Scripts(s), TreeRows(db, s, FALSE, kp, r, rootTop, branchTop)
  PROVE  /\ RevertedTree(db, w) \in TreeDbs
         /\ TreeRows(RevertedTree(db, w), [v \in {u \in DOMAIN s : u <= w} |-> s[v]], FALSE, kp, w, w, w)
<1> DEFINE cut == [v \in {u \in DOMAIN s : u <= w} |-> s[v]]
           rs == [v \in {u \in DOMAIN db.roots : u <= w} |-> db.roots[v]]
           new == [roots |-> rs, branches |-> db.branches, orphans |-> db.orphans, shards |-> {1}]
           p == FindPrevious(Checkpoints(db), w)
<1>1. /\ kp \in Nat /\ w \in Nat /\ w \in 1 .. MaxVersion /\ 1 <= w /\ w \in kp .. rootTop
      /\ rootTop \in Nat /\ branchTop \in Nat
  BY SMTT(60), BoundsAssumption, ContentRange
<1>2. /\ db.branches \in SUBSET ((1 .. MaxVersion) \X NodeKeys)
      /\ db.orphans \in SUBSET (NodeKeys \X (1 .. MaxVersion))
      /\ \A v \in DOMAIN db.roots : v \in Nat /\ v \in 1 .. MaxVersion /\ db.roots[v] \in Roots
  BY TreeDbTypes
<1>3. p \in kp .. w /\ LastScheduled(p, w)
  BY <1>1, LoadsFrom DEF TreeRows
<1> HIDE DEF p
<1>4. p \in 1 .. w
  BY SMTT(60), <1>1, <1>3
<1>5. db.shards = {1} /\ \A b \in db.branches : b[1] = 1
  BY DEF TreeRows, ShardRows
<1>6. /\ \A o \in db.orphans : o[2] <= w
      /\ \A b \in db.branches : b[2][1] <= p
  <2>1. \A o \in db.orphans : o[2] \in Int /\ ~ (o[2] > w)
    BY SMTT(60), <1>2 DEF CheckpointAfter
  <2>2. \A b \in db.branches : b[2][1] \in Int /\ ~ (b[2][1] > p)
    BY SMTT(60), <1>2 DEF CheckpointAfter, p, NodeKeys
  <2> QED
    BY SMTT(60), <1>1, <1>4, <2>1, <2>2
<1>7. RevertedTree(db, w) = new
  <2>1. (IF \E c, d \in db.shards : c # d THEN {c \in db.shards : c <= w} ELSE db.shards) = {1}
    BY <1>5
  <2>2. {b \in db.branches : b[1] \in {1}} = db.branches /\ {o \in db.orphans : o[2] <= w} = db.orphans
    BY <1>5, <1>6
  <2> QED
    BY <2>1, <2>2 DEF RevertedTree
<1>8. RootRows(rs, cut, kp, w)
  BY <1>1, <1>2, RootRowsReverted DEF TreeRows
<1>9. ShardRows({1}, db.branches, FALSE, w, w)
  BY SMTT(60), <1>1, <1>5, ScheduledFirst DEF ShardRows
<1>10. OrphanRows(db.orphans, cut)
  <2>1. {o \in db.orphans : o[2] <= w} = db.orphans
    BY <1>6
  <2>2. OrphanRows({o \in db.orphans : o[2] <= w}, cut)
    BY OrphanRowsReverted DEF TreeRows
  <2> QED
    BY <2>1, <2>2
<1>11. BranchRows(db.branches, {1}, cut, FALSE, kp, w)
  <2>1. BranchRows(db.branches, {1}, s, FALSE, kp, w)
    BY <1>1, <1>5, BranchRowsBack DEF TreeRows
  <2>2. \A c \in kp .. w : c \in DOMAIN s /\ c <= w
    BY SMTT(60), <1>1, ContentRange
  <2>3. \A c \in kp .. w : cut[c] = s[c]
    BY <2>2
  <2> HIDE DEF cut
  <2> QED
    BY <2>1, <2>3 DEF BranchRows
<1>12. Stock(db.branches, db.orphans, cut, w, w)
  BY <1>1, <1>2, <1>3, <1>4, <1>6, StockReverted DEF TreeRows
<1>13. rs \in RootTables
  <2>1. rs \in [{u \in DOMAIN db.roots : u <= w} -> Roots]
    BY <1>2
  <2>2. {u \in DOMAIN db.roots : u <= w} \in SUBSET (1 .. MaxVersion)
    BY <1>2
  <2> QED
    BY <2>1, <2>2 DEF RootTables
<1> HIDE DEF rs, cut
<1>14. new \in TreeDbs
  <2>1. {1} \in SUBSET (1 .. MaxVersion)
    BY SMTT(60), BoundsAssumption
  <2> QED
    BY <1>2, <1>13, <2>1 DEF TreeDbs
<1>15. TreeRows(new, cut, FALSE, kp, w, w, w)
  BY <1>8, <1>9, <1>10, <1>11, <1>12 DEF TreeRows
<1> QED
  BY <1>7, <1>14, <1>15 DEF cut

-----------------------------------------------------------------------------
(* What the steps of all actions use.                                      *)

(* The versions up to which rows are written.                              *)
LEMMA Tops ==
  ASSUME IInv
  PROVE  /\ returned \in DOMAIN script /\ returned \in 1 .. MaxVersion
         /\ kept \in 1 .. MaxVersion /\ kept <= returned
         /\ tree.version \in 1 .. MaxVersion
         /\ \A t \in {LeafTop, RootTop, BranchTop} :
              t \in DOMAIN script /\ t \in 1 .. MaxVersion /\ (t = returned \/ t = returned + 1)
         /\ sig.kind = "save" => /\ sig.version = returned + 1 /\ tree.version = returned + 1
                                 /\ returned + 1 \in DOMAIN script /\ returned + 1 \in 1 .. MaxVersion
<1> USE DEF IInv
<1>1. returned \in 1 .. MaxVersion /\ kept \in 1 .. MaxVersion /\ kept <= returned
      /\ tree.version \in 1 .. MaxVersion
  BY DEF Types, Memory, TreeStates
<1>2. tree.version = returned \/ tree.version = returned + 1
  BY DEF Memory
<1>3. returned \in DOMAIN script
  BY SMTT(60), <1>1, <1>2, ContentRange DEF Memory
<1>4. sig.kind = "save" => /\ sig.version = returned + 1 /\ tree.version = returned + 1
                           /\ returned + 1 \in DOMAIN script /\ returned + 1 \in 1 .. MaxVersion
  BY <1>1 DEF Memory, Saves
<1>5. leafLoop.pc = "result" => sig.kind = "save"
  BY DEF Control
<1> HIDE DEF IInv
<1>6. \A t \in {LeafTop, RootTop, BranchTop} : t = returned \/ (t = returned + 1 /\ sig.kind = "save")
  BY <1>4, <1>5 DEF LeafTop, RootTop, BranchTop, Written
<1> QED
  BY <1>1, <1>3, <1>4, <1>6

(* The rows of the tree databases stay true when nothing they depend on    *)
(* has changed.                                                            *)
LEMMA TreesKeep ==
  ASSUME Trees, UNCHANGED <<treeDb, treeDisk, script, kept, returned, shardTrees>>,
         RootTop' = RootTop, BranchTop' = BranchTop
  PROVE  Trees'
BY DEF Trees

(* The same for the change log.                                            *)
LEMMA LeavesKeep ==
  ASSUME Leaves, UNCHANGED <<leafDb, leafDisk, script, kept>>, LeafTop' = LeafTop
  PROVE  Leaves'
BY DEF Leaves

(* Where neither the call under way nor a loop moves on, only rows change. *)
LEMMA CallKeeps ==
  ASSUME IInv, UNCHANGED <<pc, sig, tree, script, returned, kept, treeLoop, leafLoop>>
  PROVE  Scripts(script)' /\ Memory' /\ Saves' /\ Prunes'
<1>1. Scripts(script)' /\ Memory'
  BY DEF IInv, Memory
<1>2. Saves'
  BY DEF IInv, Saves
<1>3. Prunes'
  BY DEF IInv, Prunes, Prune
<1> QED
  BY <1>1, <1>2, <1>3

(* What the tree holds in memory, the save in hand and the prunes that are  *)
(* planned stay as they are in a step that only moves the loops along.     *)
LEMMA PlansKeep ==
  ASSUME IInv, UNCHANGED <<tree, sig, script, returned, kept>>, pc = "failed" <=> pc' = "failed",
         treeLoop'.prune = treeLoop.prune, treeLoop'.next = treeLoop.next,
         treeLoop'.checkpoints = treeLoop.checkpoints,
         leafLoop'.prune = leafLoop.prune, leafLoop'.next = leafLoop.next,
         leafLoop'.checkpoints = leafLoop.checkpoints
  PROVE  Scripts(script)' /\ Memory' /\ Saves' /\ Prunes'
<1>1. Scripts(script)'
  BY DEF IInv
<1>2. Memory'
  BY DEF IInv, Memory
<1>3. Saves'
  BY DEF IInv, Saves
<1>4. Prunes'
  <2>1. ASSUME NEW l \in {treeLoop, leafLoop}
        PROVE  /\ Passed(l.prune, kept) /\ \A c \in l.checkpoints : Scheduled(c)
               /\ l.next # 0 => l.prune # 0 /\ Prune(l.next, l.checkpoints)
    BY DEF IInv, Prunes
  <2>2. ASSUME NEW l \in {treeLoop', leafLoop'}
        PROVE  /\ Passed(l.prune, kept) /\ \A c \in l.checkpoints : Scheduled(c)
               /\ l.next # 0 => l.prune # 0 /\ Prune(l.next, l.checkpoints)
    BY <2>1
  <2>3. leafLoop.prune <= kept /\ (sig.kind = "prune" => Prune(sig.version, sig.checkpoints))
    BY DEF IInv, Prunes
  <2> QED
    BY <2>2, <2>3 DEF Prunes, Prune
<1> QED
  BY <1>1, <1>2, <1>3, <1>4

-----------------------------------------------------------------------------
(* The steps of treeLoop.                                                  *)

(* A prune is interrupted, and committed if the version is a checkpoint.   *)
LEMMA TreeReceivesSaveStep ==
  ASSUME IInv, TreeReceivesSave
  PROVE  IInv'
<1> DEFINE r == returned
           v == returned + 1
<1>1. /\ pc = "treeCh" /\ pc' = "leafCh" /\ treeLoop.pc = "select" /\ treeLoop \in LoopStates
      /\ sig.kind = "save" /\ sig.version = v
  BY Tops DEF IInv, TreeReceivesSave, Control, Types
<1>2. treeLoop' = [treeLoop EXCEPT !.pc = IF sig.branches # {} THEN "shard" ELSE "root",
                                   !.tx = @ /\ ~sig.checkpoint, !.err = FALSE]
  BY DEF TreeReceivesSave
<1>3. /\ treeLoop'.pc = IF sig.branches # {} THEN "shard" ELSE "root"
      /\ treeLoop'.tx = (treeLoop.tx /\ ~sig.checkpoint) /\ treeLoop'.err = FALSE
      /\ treeLoop'.prune = treeLoop.prune /\ treeLoop'.next = treeLoop.next
      /\ treeLoop'.checkpoints = treeLoop.checkpoints /\ treeLoop' \in LoopStates
  BY <1>1, <1>2 DEF LoopStates
<1>4. /\ UNCHANGED <<treeDb, leafDb, leafDisk, tree, sig, leafLoop, script, returned, kept, shardTrees>>
      /\ treeDisk' = IF sig.checkpoint THEN treeDb ELSE treeDisk
  BY DEF TreeReceivesSave, history
<1>5. /\ sig.checkpoint \in BOOLEAN /\ (sig.checkpoint <=> Scheduled(v))
      /\ (sig.checkpoint <=> sig.branches # {})
  BY <1>1 DEF IInv, Saves
<1>6. leafLoop.pc \in {"select", "end"} /\ (treeLoop.tx <=> treeLoop.prune # 0)
  BY <1>1 DEF IInv, Control, Writing
<1>7. Types'
  BY <1>3, <1>4 DEF IInv, Types
<1>8. Control'
  BY <1>1, <1>3, <1>4, <1>5, <1>6 DEF IInv, Control, Writing
<1>9. Scripts(script)' /\ Memory' /\ Saves' /\ Prunes'
  BY <1>1, <1>3, <1>4, PlansKeep
<1>10. LeafTop' = LeafTop
  BY <1>4 DEF LeafTop
<1>11. Leaves'
  BY <1>4, <1>10, LeavesKeep DEF IInv
<1>12. RootTop = r /\ RootTop' = r /\ BranchTop = r /\ BranchTop' = IF sig.checkpoint THEN r ELSE v
  BY <1>1, <1>3, <1>4, <1>5 DEF RootTop, BranchTop, Written
<1>13. ASSUME NEW db \in {treeDb, treeDisk}
       PROVE  TreeRows(db, script, shardTrees, kept, r, r, IF sig.checkpoint THEN r ELSE v)
  <2>1. TreeRows(db, script, shardTrees, kept, r, r, r) /\ db \in TreeDbs /\ shardTrees \in BOOLEAN
    BY <1>12 DEF IInv, Trees, Types
  <2> QED
    BY <1>1, <1>5, <2>1, Tops, TreeRowsSkip
<1>14. Trees'
  BY <1>4, <1>12, <1>13 DEF Trees
<1>15. Underway'
  BY <1>3, <1>4, <1>5, <1>12 DEF IInv, Underway
<1> QED
  BY <1>7, <1>8, <1>9, <1>11, <1>14, <1>15 DEF IInv

(* A shard that is there already makes the save fail; nothing is written.  *)
LEMMA NextShardFails ==
  ASSUME IInv, NextShard, shardTrees, sig.version \in treeDb.shards
  PROVE  IInv'
<1>1. /\ treeLoop.pc = "shard" /\ treeLoop' = [treeLoop EXCEPT !.pc = "result", !.err = TRUE]
      /\ UNCHANGED <<treeDb, treeDisk, leafDb, leafDisk, pc, tree, sig, leafLoop, script, returned, kept, shardTrees>>
  BY DEF NextShard, history
<1>2. /\ treeLoop'.pc = "result" /\ treeLoop'.err = TRUE /\ treeLoop'.tx = treeLoop.tx
      /\ treeLoop'.prune = treeLoop.prune /\ treeLoop'.next = treeLoop.next
      /\ treeLoop'.checkpoints = treeLoop.checkpoints /\ treeLoop' \in LoopStates
  BY <1>1 DEF IInv, Types, LoopStates
<1>3. pc \in {"leafCh", "treeResult"} /\ ~treeLoop.tx
  BY <1>1 DEF IInv, Control, Writing
<1>4. Types'
  BY <1>1, <1>2 DEF IInv, Types
<1>5. Control'
  BY SMTT(60), <1>1, <1>2, <1>3 DEF IInv, Control, Writing
<1>6. Scripts(script)' /\ Memory' /\ Saves' /\ Prunes'
  BY <1>1, <1>2, PlansKeep
<1>7. LeafTop' = LeafTop /\ RootTop' = RootTop /\ BranchTop' = BranchTop
  BY <1>1, <1>2, <1>3 DEF LeafTop, RootTop, BranchTop, Written
<1>8. Leaves' /\ Trees'
  BY <1>1, <1>7, LeavesKeep, TreesKeep DEF IInv
<1>9. Underway'
  BY <1>1, <1>2, <1>7 DEF IInv, Underway
<1> QED
  BY <1>4, <1>5, <1>6, <1>8, <1>9 DEF IInv

(* The shard of a checkpoint is created.                                   *)
LEMMA NextShardStep ==
  ASSUME IInv, NextShard, ~(shardTrees /\ sig.version \in treeDb.shards)
  PROVE  IInv'
<1> DEFINE r == returned
           db == [treeDb EXCEPT !.shards = @ \cup IF shardTrees THEN {sig.version} ELSE {}]
<1>1. /\ treeLoop.pc = "shard" /\ treeLoop' = [treeLoop EXCEPT !.pc = "branches"]
      /\ treeDb' = db /\ treeDisk' = db
      /\ UNCHANGED <<leafDb, leafDisk, pc, tree, sig, leafLoop, script, returned, kept, shardTrees>>
  BY DEF NextShard, WriteTree, history
<1>2. /\ treeLoop'.pc = "branches" /\ treeLoop'.err = treeLoop.err /\ treeLoop'.tx = treeLoop.tx
      /\ treeLoop'.prune = treeLoop.prune /\ treeLoop'.next = treeLoop.next
      /\ treeLoop'.checkpoints = treeLoop.checkpoints /\ treeLoop' \in LoopStates
  BY <1>1 DEF IInv, Types, LoopStates
<1>3. pc \in {"leafCh", "treeResult"} /\ ~treeLoop.tx /\ sig.checkpoint /\ sig.kind = "save"
  BY <1>1 DEF IInv, Control, Writing
<1>4. sig.version = r + 1 /\ Scheduled(r + 1) /\ r \in DOMAIN script /\ r + 1 \in 1 .. MaxVersion
      /\ kept \in 1 .. MaxVersion
  BY <1>3, Tops DEF IInv, Saves
<1>5. treeDb \in TreeDbs /\ shardTrees \in BOOLEAN /\ Scripts(script)
  BY DEF IInv, Types
<1>6. /\ LeafTop' = LeafTop /\ RootTop' = RootTop /\ BranchTop' = BranchTop
      /\ RootTop = r /\ BranchTop = r
  BY <1>1, <1>2, <1>3 DEF LeafTop, RootTop, BranchTop, Written
<1>7. TreeRows(treeDb, script, shardTrees, kept, r, r, r)
  BY <1>6 DEF IInv, Trees
<1>8. /\ db \in TreeDbs /\ TreeRows(db, script, shardTrees, kept, r, r, r)
      /\ shardTrees => sig.version \in db.shards
      /\ db.roots = treeDb.roots
  <2>1. CASE shardTrees
    <3>1. db = [treeDb EXCEPT !.shards = @ \cup {r + 1}] /\ shardTrees = TRUE
      BY <1>4, <1>5, <2>1
    <3>2. db \in TreeDbs /\ TreeRows(db, script, TRUE, kept, r, r, r)
      BY <1>4, <1>5, <1>7, <3>1, TreeRowsShard
    <3>3. sig.version \in db.shards /\ db.roots = treeDb.roots
      BY <1>4, <1>5, <3>1 DEF TreeDbs
    <3> QED
      BY <3>1, <3>2, <3>3
  <2>2. CASE ~shardTrees
    <3>1. db = treeDb
      BY <1>5, <2>2 DEF TreeDbs
    <3> QED
      BY <1>5, <1>7, <2>2, <3>1
  <2> QED
    BY <2>1, <2>2
<1> HIDE DEF db
<1>9. Types'
  BY <1>1, <1>2, <1>8 DEF IInv, Types
<1>10. Control'
  BY SMTT(60), <1>1, <1>2, <1>3 DEF IInv, Control, Writing
<1>11. Scripts(script)' /\ Memory' /\ Saves' /\ Prunes'
  BY <1>1, <1>2, PlansKeep
<1>12. Leaves'
  BY <1>1, <1>6, LeavesKeep DEF IInv
<1>13. Trees'
  BY <1>1, <1>6, <1>8 DEF Trees
<1>14. Underway'
  BY SMTT(60), <1>1, <1>2, <1>6, <1>8 DEF IInv, Underway
<1> QED
  BY <1>9, <1>10, <1>11, <1>12, <1>13, <1>14 DEF IInv

(* A commit in the middle of saveBranches.                                 *)
LEMMA SaveSomeBranchesStep ==
  ASSUME IInv, SaveSomeBranches
  PROVE  IInv'
<1> DEFINE r == returned
           new(bs, os) == [treeDb EXCEPT !.branches = @ \cup ({Max(treeDb.shards)} \X bs),
                                         !.orphans = @ \cup {<<n, sig.version>> : n \in os}]
<1>1. /\ treeLoop.pc = "branches"
      /\ UNCHANGED <<leafDb, leafDisk, pc, tree, sig, treeLoop, leafLoop, script, returned, kept, shardTrees>>
  BY DEF SaveSomeBranches, history
<1>2. PICK bs \in SUBSET sig.branches, os \in SUBSET sig.branchOrphans :
        treeDb' = new(bs, os) /\ treeDisk' = new(bs, os)
  BY DEF SaveSomeBranches, WriteTree
<1>3. pc \in {"leafCh", "treeResult"} /\ sig.checkpoint /\ sig.kind = "save" /\ ~treeLoop.err
  BY <1>1 DEF IInv, Control, Writing
<1>4. /\ sig.version = r + 1 /\ Scheduled(r + 1) /\ r \in DOMAIN script /\ r + 1 \in DOMAIN script
      /\ tree.version = r + 1 /\ r \in 1 .. MaxVersion
      /\ bs \in SUBSET Nodes(script[r + 1], Present(script[r + 1])) /\ os \in SUBSET tree.branchOrphans
  BY <1>3, Tops DEF IInv, Saves
<1>5. treeDb \in TreeDbs /\ shardTrees \in BOOLEAN /\ Scripts(script)
  BY DEF IInv, Types
<1>6. LeafTop' = LeafTop /\ RootTop' = RootTop /\ BranchTop' = BranchTop /\ RootTop = r /\ BranchTop = r
  BY <1>1, <1>3 DEF LeafTop, RootTop, BranchTop, Written
<1>7. TreeRows(treeDb, script, shardTrees, kept, r, r, r)
  BY <1>6 DEF IInv, Trees
<1>8. os \in SUBSET NodeKeys /\ \A n \in os : n[1] < r + 1 /\ script[r + 1][n[2]] # n[1]
  <2>1. os \in SUBSET NodeKeys
    BY <1>4 DEF IInv, Types, TreeStates
  <2>2. \A n \in os : n[1] <= r /\ script[r + 1][n[2]] # n[1]
    BY <1>4 DEF IInv, Memory
  <2>3. \A n \in os : n[1] \in Int
    BY SMTT(60), <2>1 DEF NodeKeys
  <2> QED
    BY SMTT(60), <1>4, <2>1, <2>2, <2>3
<1>9. shardTrees => r + 1 \in treeDb.shards
  BY <1>1, <1>4 DEF IInv, Underway
<1>10. new(bs, os) \in TreeDbs /\ TreeRows(new(bs, os), script, shardTrees, kept, r, r, r)
  <2> DEFINE e == [treeDb EXCEPT !.branches = @ \cup ({Max(treeDb.shards)} \X bs),
                                 !.orphans = @ \cup {<<n, r + 1>> : n \in os}]
  <2>1. new(bs, os) = e
    BY <1>4
  <2>2. e \in TreeDbs /\ TreeRows(e, script, shardTrees, kept, r, r, r)
    BY <1>4, <1>5, <1>7, <1>8, <1>9, TreeRowsSome
  <2> QED
    BY <2>1, <2>2
<1>11. new(bs, os).roots = treeDb.roots /\ new(bs, os).shards = treeDb.shards
  BY <1>5 DEF TreeDbs
<1> HIDE DEF new
<1>12. Types'
  BY <1>1, <1>2, <1>10 DEF IInv, Types
<1>13. Control'
  BY <1>1, <1>2 DEF IInv, Control
<1>14. Scripts(script)' /\ Memory' /\ Saves' /\ Prunes'
  BY <1>1, CallKeeps
<1>15. Leaves'
  BY <1>1, <1>6, LeavesKeep DEF IInv
<1>16. Trees'
  BY <1>1, <1>2, <1>6, <1>10 DEF Trees
<1>17. Underway'
  BY <1>1, <1>2, <1>6, <1>11 DEF IInv, Underway
<1> QED
  BY <1>12, <1>13, <1>14, <1>15, <1>16, <1>17 DEF IInv

(* The branches and the orphans of a checkpoint are written.               *)
LEMMA SaveBranchesStep ==
  ASSUME IInv, SaveBranches
  PROVE  IInv'
<1> DEFINE r == returned
           db == [treeDb EXCEPT !.branches = @ \cup ({Max(treeDb.shards)} \X sig.branches),
                                !.orphans = @ \cup {<<n, sig.version>> : n \in sig.branchOrphans}]
<1>1. /\ treeLoop.pc = "branches" /\ treeLoop' = [treeLoop EXCEPT !.pc = "root"]
      /\ treeDb' = db /\ treeDisk' = db
      /\ UNCHANGED <<leafDb, leafDisk, pc, tree, sig, leafLoop, script, returned, kept, shardTrees>>
  BY DEF SaveBranches, WriteTree, history
<1>2. /\ treeLoop'.pc = "root" /\ treeLoop'.err = treeLoop.err /\ treeLoop'.tx = treeLoop.tx
      /\ treeLoop'.prune = treeLoop.prune /\ treeLoop'.next = treeLoop.next
      /\ treeLoop'.checkpoints = treeLoop.checkpoints /\ treeLoop' \in LoopStates
  BY <1>1 DEF IInv, Types, LoopStates
<1>3. pc \in {"leafCh", "treeResult"} /\ ~treeLoop.tx /\ sig.checkpoint /\ sig.kind = "save" /\ ~treeLoop.err
  BY <1>1 DEF IInv, Control, Writing
<1>4. /\ sig.version = r + 1 /\ Scheduled(r + 1) /\ r \in DOMAIN script /\ r + 1 \in DOMAIN script
      /\ kept \in 1 .. MaxVersion /\ kept <= r /\ r \in 1 .. MaxVersion /\ tree.version = r + 1
      /\ sig.branches = Nodes(script[r + 1], Present(script[r + 1]))
      /\ sig.branchOrphans = tree.branchOrphans
  BY <1>3, Tops DEF IInv, Saves
<1>5. treeDb \in TreeDbs /\ shardTrees \in BOOLEAN /\ Scripts(script) /\ Scheduled(kept)
  BY DEF IInv, Types, Memory
<1>6. /\ LeafTop' = LeafTop /\ RootTop' = r /\ BranchTop' = r + 1
      /\ RootTop = r /\ BranchTop = r
  BY <1>1, <1>2, <1>3, <1>4 DEF LeafTop, RootTop, BranchTop, Written
<1>7. TreeRows(treeDb, script, shardTrees, kept, r, r, r)
  BY <1>6 DEF IInv, Trees
<1>8. /\ tree.branchOrphans \in SUBSET NodeKeys
      /\ \A n \in tree.branchOrphans : n[1] < r + 1 /\ script[r + 1][n[2]] # n[1]
  <2>1. tree.branchOrphans \in SUBSET NodeKeys
    BY DEF IInv, Types, TreeStates
  <2>2. \A n \in tree.branchOrphans : n[1] <= r /\ script[r + 1][n[2]] # n[1] /\ n[1] \in Int
    BY SMTT(60), <1>4, <2>1 DEF IInv, Memory, NodeKeys
  <2> QED
    BY SMTT(60), <1>4, <2>1, <2>2
<1>9. shardTrees => r + 1 \in treeDb.shards
  BY <1>1, <1>4 DEF IInv, Underway
<1>10. db \in TreeDbs /\ TreeRows(db, script, shardTrees, kept, r, r, r + 1)
  <2> DEFINE e == [treeDb EXCEPT
                     !.branches = @ \cup ({Max(treeDb.shards)} \X Nodes(script[r + 1], Present(script[r + 1]))),
                     !.orphans = @ \cup {<<n, r + 1>> : n \in tree.branchOrphans}]
  <2>1. db = e
    BY <1>4
  <2>2. e \in TreeDbs /\ TreeRows(e, script, shardTrees, kept, r, r, r + 1)
    BY <1>4, <1>5, <1>7, <1>8, <1>9, TreeRowsBranches
  <2> QED
    BY <2>1, <2>2
<1>11. db.roots = treeDb.roots /\ \A n \in sig.branchOrphans : <<n, sig.version>> \in db.orphans
  BY <1>5 DEF TreeDbs
<1> HIDE DEF db
<1>12. Types'
  BY <1>1, <1>2, <1>10 DEF IInv, Types
<1>13. Control'
  BY SMTT(60), <1>1, <1>2, <1>3 DEF IInv, Control, Writing
<1>14. Scripts(script)' /\ Memory' /\ Saves' /\ Prunes'
  BY <1>1, <1>2, PlansKeep
<1>15. Leaves'
  BY <1>1, <1>6, LeavesKeep DEF IInv
<1>16. Trees'
  BY <1>1, <1>6, <1>10 DEF Trees
<1>17. Underway'
  BY SMTT(60), <1>1, <1>2, <1>6, <1>11 DEF IInv, Underway
<1> QED
  BY <1>12, <1>13, <1>14, <1>15, <1>16, <1>17 DEF IInv

(* The root is written, on the disk or into the transaction of a prune.    *)
LEMMA SaveRootStep ==
  ASSUME IInv, SaveRoot
  PROVE  IInv'
<1> DEFINE r == returned
           db == [treeDb EXCEPT !.roots = Insert(@, sig.version, [content |-> sig.content,
                                                                  checkpoint |-> sig.checkpoint])]
<1>1. /\ treeLoop.pc = "root" /\ treeLoop' = [treeLoop EXCEPT !.pc = "result"]
      /\ treeDb' = db /\ treeDisk' = IF treeLoop.tx THEN treeDisk ELSE db
      /\ UNCHANGED <<leafDb, leafDisk, pc, tree, sig, leafLoop, script, returned, kept, shardTrees>>
  BY DEF SaveRoot, WriteTree, history
<1>2. /\ treeLoop'.pc = "result" /\ treeLoop'.err = treeLoop.err /\ treeLoop'.tx = treeLoop.tx
      /\ treeLoop'.prune = treeLoop.prune /\ treeLoop'.next = treeLoop.next
      /\ treeLoop'.checkpoints = treeLoop.checkpoints /\ treeLoop' \in LoopStates
  BY <1>1 DEF IInv, Types, LoopStates
<1>3. /\ pc \in {"leafCh", "treeResult"} /\ sig.kind = "save" /\ ~treeLoop.err
      /\ treeLoop.tx => ~sig.checkpoint
  BY <1>1 DEF IInv, Control, Writing
<1>4. /\ sig.version = r + 1 /\ r \in DOMAIN script /\ r + 1 \in DOMAIN script
      /\ kept \in 1 .. MaxVersion /\ kept <= r /\ r \in 1 .. MaxVersion /\ tree.version = r + 1
      /\ sig.checkpoint \in BOOLEAN /\ (sig.checkpoint <=> Scheduled(r + 1))
      /\ sig.content = script[r + 1] /\ sig.branchOrphans = tree.branchOrphans
  BY <1>3, Tops DEF IInv, Saves
<1>5. treeDb \in TreeDbs /\ treeDisk \in TreeDbs /\ shardTrees \in BOOLEAN /\ Scripts(script)
  BY DEF IInv, Types
<1>6. /\ LeafTop' = LeafTop /\ RootTop' = r + 1 /\ BranchTop' = r + 1
      /\ RootTop = r /\ BranchTop = r + 1
  BY <1>1, <1>2, <1>3, <1>4 DEF LeafTop, RootTop, BranchTop, Written
<1>7. /\ TreeRows(treeDb, script, shardTrees, kept, r, r, r + 1)
      /\ TreeRows(treeDisk, script, shardTrees, kept, r, r, r + 1)
      /\ kept .. r \subseteq DOMAIN treeDb.roots
  BY <1>6 DEF IInv, Trees, Underway
<1>8. OrphansSaved(treeDb.orphans, script, r)
  <2> SUFFICES ASSUME Scheduled(r + 1), NEW c \in 1 .. r, NEW k \in Keys,
                      LastScheduled(c, r), script[c][k] # 0, script[r + 1][k] # script[c][k]
               PROVE  \E o \in treeDb.orphans : o[1] = <<script[c][k], k>>
    BY DEF OrphansSaved
  <2>1. <<script[c][k], k>> \in tree.branchOrphans
    BY <1>4 DEF IInv, Memory
  <2>2. <<<<script[c][k], k>>, r + 1>> \in treeDb.orphans
    BY <1>1, <1>4, <2>1 DEF IInv, Underway
  <2> QED
    BY <2>2
<1>9. /\ db \in TreeDbs /\ TreeRows(db, script, shardTrees, kept, r, r + 1, r + 1)
      /\ kept .. r + 1 \subseteq DOMAIN db.roots
  <2> DEFINE e(cp) == [treeDb EXCEPT !.roots = Insert(@, r + 1, [content |-> script[r + 1],
                                                                 checkpoint |-> cp])]
  <2>1. db = e(sig.checkpoint)
    BY <1>4
  <2>2. ASSUME NEW cp \in BOOLEAN, cp <=> Scheduled(r + 1)
        PROVE  /\ e(cp) \in TreeDbs /\ TreeRows(e(cp), script, shardTrees, kept, r, r + 1, r + 1)
               /\ kept .. r + 1 \subseteq DOMAIN e(cp).roots
    BY SMTT(60), <1>4, <1>5, <1>7, <1>8, <2>2, TreeRowsRoot
  <2> HIDE DEF db, e
  <2> QED
    BY <1>4, <2>1, <2>2
<1> HIDE DEF db
<1>10. treeLoop.tx => TreeRows(treeDisk, script, shardTrees, kept, r, r + 1, r + 1)
  BY <1>3, <1>4, <1>5, <1>7, TreeRowsLate
<1>11. Types'
  BY <1>1, <1>2, <1>9 DEF IInv, Types
<1>12. Control'
  BY SMTT(60), <1>1, <1>2, <1>3 DEF IInv, Control, Writing
<1>13. Scripts(script)' /\ Memory' /\ Saves' /\ Prunes'
  BY <1>1, <1>2, PlansKeep
<1>14. Leaves'
  BY <1>1, <1>6, LeavesKeep DEF IInv
<1>15. Trees'
  BY <1>1, <1>6, <1>9, <1>10 DEF Trees
<1>16. Underway'
  BY <1>1, <1>2, <1>6, <1>9 DEF IInv, Underway
<1> QED
  BY <1>11, <1>12, <1>13, <1>14, <1>15, <1>16 DEF IInv

(* treeLoop goes back to its select.                                       *)
LEMMA SendTreeResultStep ==
  ASSUME IInv, SendTreeResult
  PROVE  IInv'
<1>1. /\ treeLoop.pc = "result" /\ pc = "treeResult" /\ pc' = "leafResult"
      /\ treeLoop' = [treeLoop EXCEPT !.pc = "select", !.tx = treeLoop.prune # 0]
      /\ UNCHANGED <<treeDb, treeDisk, leafDb, leafDisk, tree, sig, leafLoop, script, returned, kept, shardTrees>>
  BY DEF SendTreeResult, Resumed, history, dbs
<1>2. /\ treeLoop'.pc = "select" /\ treeLoop'.err = treeLoop.err /\ treeLoop'.tx = (treeLoop.prune # 0)
      /\ treeLoop'.prune = treeLoop.prune /\ treeLoop'.next = treeLoop.next
      /\ treeLoop'.checkpoints = treeLoop.checkpoints /\ treeLoop' \in LoopStates
  BY <1>1 DEF IInv, Types, LoopStates
<1>3. sig.kind = "save" /\ leafLoop.pc \in {"leaves", "result"}
  BY <1>1 DEF IInv, Control
<1>4. Types'
  BY <1>1, <1>2 DEF IInv, Types
<1>5. Control'
  <2>1. ~treeLoop'.tx => treeDisk = treeDb
    BY <1>1, <1>2 DEF IInv, Control
  <2>2. treeLoop'.tx <=> treeLoop'.prune # 0
    BY <1>2
  <2> QED
    BY SMTT(60), <1>1, <1>2, <1>3, <2>1, <2>2 DEF IInv, Control, Writing
<1>6. Scripts(script)' /\ Memory' /\ Saves' /\ Prunes'
  BY <1>1, <1>2, PlansKeep
<1>7. LeafTop' = LeafTop /\ RootTop' = RootTop /\ BranchTop' = BranchTop
  BY <1>1, <1>2, <1>3 DEF LeafTop, RootTop, BranchTop, Written
<1>8. Leaves' /\ Trees'
  BY <1>1, <1>7, LeavesKeep, TreesKeep DEF IInv
<1>9. Underway'
  BY <1>1, <1>2, <1>7 DEF IInv, Underway
<1> QED
  BY <1>4, <1>5, <1>6, <1>8, <1>9 DEF IInv

(* A prune begins, or waits for the one before.                            *)
LEMMA TreeReceivesPruneStep ==
  ASSUME IInv, TreeReceivesPrune
  PROVE  IInv'
<1>1. /\ pc = "treePruneCh" /\ treeLoop.pc = "select" /\ pc' = "leafPruneCh"
      /\ treeLoop' = IF treeLoop.prune # 0
                     THEN [treeLoop EXCEPT !.next = sig.version, !.checkpoints = sig.checkpoints]
                     ELSE [treeLoop EXCEPT !.prune = sig.version, !.checkpoints = sig.checkpoints,
                                           !.tx = TRUE]
      /\ UNCHANGED <<treeDb, treeDisk, leafDb, leafDisk, tree, sig, leafLoop, script, returned, kept, shardTrees>>
  BY DEF TreeReceivesPrune, history, dbs
<1>2. sig.kind = "prune" /\ Prune(sig.version, sig.checkpoints)
  BY <1>1 DEF IInv, Control, Prunes
<1>3. /\ sig.version \in 1 .. MaxVersion /\ sig.version \in 0 .. MaxVersion /\ sig.version # 0
      /\ sig.checkpoints \in SUBSET (1 .. MaxVersion) /\ Passed(sig.version, kept)
      /\ \A c \in sig.checkpoints : Scheduled(c)
  BY SMTT(60), <1>2, BoundsAssumption DEF Prune
<1>4. /\ treeLoop'.pc = "select" /\ treeLoop'.err = treeLoop.err /\ treeLoop'.tx /\ treeLoop'.prune # 0
      /\ treeLoop'.prune = IF treeLoop.prune # 0 THEN treeLoop.prune ELSE sig.version
      /\ treeLoop'.next = IF treeLoop.prune # 0 THEN sig.version ELSE treeLoop.next
      /\ treeLoop'.checkpoints = sig.checkpoints /\ treeLoop' \in LoopStates
  <2>1. treeLoop \in LoopStates /\ (treeLoop.tx <=> treeLoop.prune # 0)
    BY <1>1 DEF IInv, Types, Control, Writing
  <2> QED
    BY <1>1, <1>3, <2>1 DEF LoopStates
<1>5. Types'
  BY <1>1, <1>4 DEF IInv, Types
<1>6. Control'
  BY <1>1, <1>2, <1>4 DEF IInv, Control, Writing
<1>7. Scripts(script)' /\ Memory' /\ Saves'
  BY <1>1, <1>2 DEF IInv, Memory, Saves
<1>8. Prunes'
  BY SMTT(60), <1>1, <1>2, <1>3, <1>4 DEF IInv, Prunes, Prune
<1>9. LeafTop' = LeafTop /\ RootTop' = RootTop /\ BranchTop' = BranchTop
  BY <1>1, <1>2 DEF LeafTop, RootTop, BranchTop, Written
<1>10. Leaves' /\ Trees'
  BY <1>1, <1>9, LeavesKeep, TreesKeep DEF IInv
<1>11. Underway'
  BY <1>1, <1>4, <1>9 DEF IInv, Underway
<1> QED
  BY <1>5, <1>6, <1>7, <1>8, <1>10, <1>11 DEF IInv

(* One branch is pruned: no checkpoint that is kept has it.                *)
LEMMA TreePruneRowStep ==
  ASSUME IInv, NEW o \in treeDb.orphans, TreePruneRow(o)
  PROVE  IInv'
<1> DEFINE x == ShardOf(treeDb.shards, shardTrees, o[1][1])
           db == [treeDb EXCEPT !.branches = @ \ {<<x, o[1]>>}, !.orphans = @ \ {o}]
<1>1. /\ treeLoop.pc = "select" /\ treeLoop.prune # 0 /\ o[2] <= treeLoop.prune /\ treeDb' = db
      /\ UNCHANGED <<leafDb, leafDisk, pc, tree, sig, treeLoop, leafLoop, script, returned, kept, shardTrees>>
      /\ treeDisk' = treeDisk \/ treeDisk' = db
  BY DEF TreePruneRow, TreePruning, DueOrphans, WriteTree, history, getShard, ShardOf
<1>2. treeLoop.tx
  BY <1>1 DEF IInv, Control, Writing
<1>3. treeDb \in TreeDbs /\ shardTrees \in BOOLEAN /\ Scripts(script) /\ BranchTop \in DOMAIN script
      /\ kept \in 1 .. MaxVersion
  BY Tops DEF IInv, Types
<1>4. TreeRows(treeDb, script, shardTrees, kept, returned, RootTop, BranchTop)
  BY DEF IInv, Trees
<1>5. o[2] <= kept
  <2>1. Scheduled(o[2]) /\ o[2] \in 1 .. MaxVersion
    BY <1>3, <1>4, TreeDbTypes DEF TreeRows, OrphanRows
  <2>2. Passed(treeLoop.prune, kept) /\ treeLoop.prune \in 0 .. MaxVersion
    BY DEF IInv, Prunes, Types, LoopStates
  <2> QED
    BY SMTT(60), <1>1, <2>1, <2>2 DEF Passed
<1>6. db \in TreeDbs /\ TreeRows(db, script, shardTrees, kept, returned, RootTop, BranchTop)
  BY <1>3, <1>4, <1>5, TreeRowsPruned
<1>7. db.roots = treeDb.roots
  BY <1>3 DEF TreeDbs
<1> HIDE DEF db
<1>8. Types'
  BY <1>1, <1>6 DEF IInv, Types
<1>9. Control'
  <2>1. UNCHANGED <<leafDb, leafDisk, pc, sig, treeLoop, leafLoop>>
    BY <1>1
  <2> QED
    BY <1>2, <2>1 DEF IInv, Control
<1>10. Scripts(script)' /\ Memory' /\ Saves' /\ Prunes'
  <2>1. UNCHANGED <<pc, sig, tree, script, returned, kept, treeLoop, leafLoop>>
    BY <1>1
  <2> QED
    BY <2>1, CallKeeps
<1>11. LeafTop' = LeafTop /\ RootTop' = RootTop /\ BranchTop' = BranchTop
  BY <1>1 DEF LeafTop, RootTop, BranchTop, Written
<1>12. Leaves'
  BY <1>1, <1>11, LeavesKeep DEF IInv
<1>13. Trees'
  BY <1>1, <1>6, <1>11 DEF IInv, Trees
<1>14. Underway'
  BY <1>1, <1>7, <1>11 DEF IInv, Underway
<1> QED
  BY <1>8, <1>9, <1>10, <1>12, <1>13, <1>14 DEF IInv

(* All rows are pruned, and committed.                                     *)
LEMMA TreePruneCommitStep ==
  ASSUME IInv, TreePruneCommit
  PROVE  IInv'
<1>1. /\ treeLoop.pc = "select" /\ treeDisk' = treeDb
      /\ treeLoop' = [treeLoop EXCEPT !.pc = "end", !.tx = FALSE]
      /\ UNCHANGED <<treeDb, leafDb, leafDisk, pc, tree, sig, leafLoop, script, returned, kept, shardTrees>>
  BY DEF TreePruneCommit, TreePruning, history
<1>2. /\ treeLoop'.pc = "end" /\ treeLoop'.err = treeLoop.err /\ ~treeLoop'.tx
      /\ treeLoop'.prune = treeLoop.prune /\ treeLoop'.next = treeLoop.next
      /\ treeLoop'.checkpoints = treeLoop.checkpoints /\ treeLoop' \in LoopStates
  BY <1>1 DEF IInv, Types, LoopStates
<1>3. Types'
  BY <1>1, <1>2 DEF IInv, Types
<1>4. Control'
  BY SMTT(60), <1>1, <1>2 DEF IInv, Control, Writing
<1>5. Scripts(script)' /\ Memory' /\ Saves' /\ Prunes'
  BY <1>1, <1>2, PlansKeep
<1>6. LeafTop' = LeafTop /\ RootTop' = RootTop /\ BranchTop' = BranchTop
  BY <1>1, <1>2 DEF LeafTop, RootTop, BranchTop, Written
<1>7. Leaves'
  BY <1>1, <1>6, LeavesKeep DEF IInv
<1>8. Trees'
  BY <1>1, <1>6 DEF IInv, Trees
<1>9. Underway'
  BY <1>1, <1>2, <1>6 DEF IInv, Underway
<1> QED
  BY <1>3, <1>4, <1>5, <1>7, <1>8, <1>9 DEF IInv

(* The checkpoint to which a prune goes is not later than the oldest that  *)
(* is kept.                                                                *)
LEMMA PrunesToKept ==
  ASSUME NEW cps \in SUBSET (1 .. MaxVersion), \A c \in cps : Scheduled(c), NEW v \in Int,
         NEW kp \in 1 .. MaxVersion, Passed(v, kp)
  PROVE  FindPrevious(cps, v) \in Int /\ FindPrevious(cps, v) <= kp
<1> DEFINE p == FindPrevious(cps, v)
<1>1. \/ p \in cps /\ p <= v
      \/ p = -1
  BY FindPreviousIs
<1> HIDE DEF p
<1>2. CASE p = -1
  BY SMTT(60), <1>2 DEF p
<1>3. CASE p \in cps /\ p <= v
  <2>1. p \in 1 .. v /\ Scheduled(p)
    BY SMTT(60), <1>3
  <2> QED
    BY SMTT(60), <2>1 DEF Passed, p
<1> QED
  BY <1>1, <1>2, <1>3

(* Roots are deleted: they are all before the oldest version that is kept. *)
LEMMA TreePruneEndStep ==
  ASSUME IInv, TreePruneEnd
  PROVE  IInv'
<1> DEFINE p == FindPrevious(treeLoop.checkpoints, treeLoop.prune)
           db == [treeDb EXCEPT !.roots = RootsFrom(@, p)]
<1>1. /\ treeLoop.pc = "end" /\ treeDb' = db /\ treeDisk' = db
      /\ treeLoop' = [treeLoop EXCEPT !.pc = "select", !.prune = treeLoop.next, !.next = 0,
                                      !.tx = treeLoop.next # 0]
      /\ UNCHANGED <<leafDb, leafDisk, pc, tree, sig, leafLoop, script, returned, kept, shardTrees>>
  BY DEF TreePruneEnd, TreePruneNext, WriteTree, history, RootsFrom
<1>2. /\ treeLoop'.pc = "select" /\ treeLoop'.err = treeLoop.err /\ (treeLoop'.tx <=> treeLoop.next # 0)
      /\ treeLoop'.prune = treeLoop.next /\ treeLoop'.next = 0
      /\ treeLoop'.checkpoints = treeLoop.checkpoints /\ treeLoop' \in LoopStates
  <2>1. treeLoop \in LoopStates /\ 0 \in 0 .. MaxVersion /\ (treeLoop.next # 0) \in BOOLEAN
    BY SMTT(60), BoundsAssumption DEF IInv, Types
  <2> QED
    BY <1>1, <2>1 DEF LoopStates
<1>3. p \in Int /\ p <= kept
  <2>1. /\ treeLoop.checkpoints \in SUBSET (1 .. MaxVersion) /\ \A c \in treeLoop.checkpoints : Scheduled(c)
        /\ treeLoop.prune \in Int /\ Passed(treeLoop.prune, kept) /\ kept \in 1 .. MaxVersion
    BY SMTT(60) DEF IInv, Types, Prunes, LoopStates
  <2> QED
    BY <2>1, PrunesToKept
<1>4. /\ treeDb \in TreeDbs /\ shardTrees \in BOOLEAN /\ RootTop \in Nat /\ kept \in 1 .. MaxVersion
      /\ TreeRows(treeDb, script, shardTrees, kept, returned, RootTop, BranchTop)
  BY SMTT(60), Tops, BoundsAssumption DEF IInv, Types, Trees
<1> HIDE DEF p
<1>5. /\ db \in TreeDbs /\ TreeRows(db, script, shardTrees, kept, returned, RootTop, BranchTop)
      /\ kept .. RootTop \cap DOMAIN treeDb.roots \subseteq DOMAIN db.roots
  BY SMTT(60), <1>3, <1>4, TreeRowsEnded
<1> HIDE DEF db
<1>6. Types'
  BY <1>1, <1>2, <1>5 DEF IInv, Types
<1>7. Control'
  BY SMTT(60), <1>1, <1>2 DEF IInv, Control, Writing
<1>8. Scripts(script)' /\ Memory' /\ Saves'
  BY <1>1 DEF IInv, Memory, Saves
<1>9. Passed(treeLoop.next, kept)
  <2>1. CASE treeLoop.next = 0
    BY SMTT(60), <2>1 DEF Passed
  <2>2. CASE treeLoop.next # 0
    BY <2>2 DEF IInv, Prunes, Prune
  <2> QED
    BY <2>1, <2>2
<1>10. Prunes'
  BY SMTT(60), <1>1, <1>2, <1>9 DEF IInv, Prunes, Prune
<1>11. LeafTop' = LeafTop /\ RootTop' = RootTop /\ BranchTop' = BranchTop
  BY <1>1, <1>2 DEF LeafTop, RootTop, BranchTop, Written
<1>12. Leaves'
  BY <1>1, <1>11, LeavesKeep DEF IInv
<1>13. Trees'
  BY <1>1, <1>5, <1>11 DEF Trees
<1>14. Underway'
  BY <1>1, <1>2, <1>5, <1>11 DEF IInv, Underway
<1> QED
  BY <1>6, <1>7, <1>8, <1>10, <1>12, <1>13, <1>14 DEF IInv

-----------------------------------------------------------------------------
(* The steps of leafLoop.                                                  *)

(* A prune is interrupted, and committed.                                  *)
LEMMA LeafReceivesSaveStep ==
  ASSUME IInv, LeafReceivesSave
  PROVE  IInv'
<1>1. /\ pc = "leafCh" /\ leafLoop.pc = "select" /\ pc' = "treeResult" /\ leafDisk' = leafDb
      /\ leafLoop' = [leafLoop EXCEPT !.pc = "leaves", !.tx = FALSE]
      /\ UNCHANGED <<treeDb, treeDisk, leafDb, tree, sig, treeLoop, script, returned, kept, shardTrees>>
  BY DEF LeafReceivesSave, history
<1>2. /\ leafLoop'.pc = "leaves" /\ ~leafLoop'.tx
      /\ leafLoop'.prune = leafLoop.prune /\ leafLoop'.next = leafLoop.next
      /\ leafLoop'.checkpoints = leafLoop.checkpoints /\ leafLoop' \in LoopStates
  BY <1>1 DEF IInv, Types, LoopStates
<1>3. Types'
  BY <1>1, <1>2 DEF IInv, Types
<1>4. Control'
  BY SMTT(60), <1>1, <1>2 DEF IInv, Control, Writing
<1>5. Scripts(script)' /\ Memory' /\ Saves' /\ Prunes'
  BY <1>1, <1>2, PlansKeep
<1>6. LeafTop' = LeafTop /\ RootTop' = RootTop /\ BranchTop' = BranchTop
  BY <1>1, <1>2 DEF LeafTop, RootTop, BranchTop, Written
<1>7. Leaves'
  BY <1>1, <1>6 DEF IInv, Leaves
<1>8. Trees'
  BY <1>1, <1>6, TreesKeep DEF IInv
<1>9. Underway'
  BY <1>1, <1>6 DEF IInv, Underway
<1> QED
  BY <1>3, <1>4, <1>5, <1>7, <1>8, <1>9 DEF IInv

(* A commit in the middle of saveLeaves.                                   *)
LEMMA SaveSomeLeavesStep ==
  ASSUME IInv, SaveSomeLeaves
  PROVE  IInv'
<1> DEFINE r == returned
           new(ls, ds, os) == [leaves  |-> leafDb.leaves \cup ls, deletes |-> leafDb.deletes \cup ds,
                               orphans |-> leafDb.orphans \cup OrphansOf(os, sig.version)]
<1>1. /\ leafLoop.pc = "leaves"
      /\ UNCHANGED <<treeDb, treeDisk, pc, tree, sig, treeLoop, leafLoop, script, returned, kept, shardTrees>>
  BY DEF SaveSomeLeaves, history
<1>2. PICK ls \in SUBSET sig.leaves, ds \in SUBSET sig.deletes, os \in SUBSET sig.leafOrphans :
        leafDb' = new(ls, ds, os) /\ leafDisk' = new(ls, ds, os)
  BY DEF SaveSomeLeaves, WriteLeaf, OrphansOf
<1>3. sig.kind = "save"
  BY <1>1 DEF IInv, Control
<1>4. /\ sig.version = r + 1 /\ r \in DOMAIN script /\ r + 1 \in DOMAIN script /\ r + 1 \in 1 .. MaxVersion
  BY <1>3, Tops
<1>5. /\ ls \in SUBSET LeavesOf(script, r + 1) /\ ds \in SUBSET DeletesOf(script, r + 1)
      /\ os \in SUBSET NodeKeys /\ \A n \in os : n[1] < r + 1 /\ script[r + 1][n[2]] # n[1]
  BY <1>3, <1>4 DEF IInv, Saves
<1>6. /\ LeafTop = r /\ LeafTop' = LeafTop /\ RootTop' = RootTop /\ BranchTop' = BranchTop
  BY <1>1 DEF LeafTop, RootTop, BranchTop, Written
<1>7. LeafRows(leafDb.leaves, leafDb.deletes, leafDb.orphans, script, kept, r) /\ Scripts(script)
  BY <1>6 DEF IInv, Leaves
<1>8. LeafRows(leafDb.leaves \cup ls, leafDb.deletes \cup ds, leafDb.orphans \cup OrphansOf(os, r + 1),
               script, kept, r)
  BY <1>4, <1>5, <1>7, LeafRowsSome
<1>9. new(ls, ds, os) \in LeafDbs
  <2>1. leafDb \in LeafDbs
    BY DEF IInv, Types
  <2>2. ls \in SUBSET NodeKeys /\ ds \in SUBSET NodeKeys
    BY SMTT(60), <1>4, <1>5 DEF NodeKeys, LeavesOf, DeletesOf
  <2>3. OrphansOf(os, r + 1) \in SUBSET (NodeKeys \X (1 .. MaxVersion))
    BY SMTT(60), <1>4, <1>5 DEF OrphansOf
  <2> QED
    BY <1>4, <2>1, <2>2, <2>3 DEF LeafDbs
<1>10. LET db == new(ls, ds, os) IN LeafRows(db.leaves, db.deletes, db.orphans, script, kept, r)
  BY <1>4, <1>8
<1> HIDE DEF new
<1>11. Types'
  BY <1>1, <1>2, <1>9 DEF IInv, Types
<1>12. Control'
  BY <1>1, <1>2 DEF IInv, Control
<1>13. Scripts(script)' /\ Memory' /\ Saves' /\ Prunes'
  BY <1>1, CallKeeps
<1>14. Leaves'
  BY <1>1, <1>2, <1>6, <1>10 DEF Leaves
<1>15. Trees'
  BY <1>1, <1>6, TreesKeep DEF IInv
<1>16. Underway'
  BY <1>1, <1>6 DEF IInv, Underway
<1> QED
  BY <1>11, <1>12, <1>13, <1>14, <1>15, <1>16 DEF IInv

(* The rows of the version enter the change log.                           *)
LEMMA SaveLeavesStep ==
  ASSUME IInv, SaveLeaves
  PROVE  IInv'
<1> DEFINE r == returned
           ls == leafDb.leaves \cup sig.leaves
           ds == leafDb.deletes \cup sig.deletes
           os == leafDb.orphans \cup OrphansOf(sig.leafOrphans, sig.version)
           db == [leaves |-> ls, deletes |-> ds, orphans |-> os]
<1>1. /\ leafLoop.pc = "leaves" /\ leafDb' = db /\ leafDisk' = db
      /\ leafLoop' = [leafLoop EXCEPT !.pc = "result"]
      /\ UNCHANGED <<treeDb, treeDisk, pc, tree, sig, treeLoop, script, returned, kept, shardTrees>>
  BY DEF SaveLeaves, WriteLeaf, history, OrphansOf
<1>2. /\ leafLoop'.pc = "result" /\ leafLoop'.tx = leafLoop.tx
      /\ leafLoop'.prune = leafLoop.prune /\ leafLoop'.next = leafLoop.next
      /\ leafLoop'.checkpoints = leafLoop.checkpoints /\ leafLoop' \in LoopStates
  BY <1>1 DEF IInv, Types, LoopStates
<1>3. pc \in {"treeResult", "leafResult"} /\ sig.kind = "save" /\ ~leafLoop.tx
  BY <1>1 DEF IInv, Control
<1>4. /\ sig.version = r + 1 /\ r \in DOMAIN script /\ r + 1 \in DOMAIN script
      /\ kept \in 1 .. MaxVersion /\ kept <= r /\ r \in 1 .. MaxVersion /\ r + 1 \in 1 .. MaxVersion
  BY <1>3, Tops
<1>5. /\ sig.leaves = LeavesOf(script, r + 1) /\ sig.deletes = DeletesOf(script, r + 1)
      /\ sig.leafOrphans \subseteq NodeKeys
      /\ \A n \in sig.leafOrphans : n[1] < r + 1 /\ script[r + 1][n[2]] # n[1]
  BY <1>3, <1>4 DEF IInv, Saves
<1>6. /\ LeafTop = r /\ LeafTop' = r + 1 /\ RootTop' = RootTop /\ BranchTop' = BranchTop
  BY <1>1, <1>2, <1>4 DEF LeafTop, RootTop, BranchTop, Written
<1>7. LeafRows(leafDb.leaves, leafDb.deletes, leafDb.orphans, script, kept, r) /\ Scripts(script)
  BY <1>6 DEF IInv, Leaves
<1>8. LeafRows(ls, ds, os, script, kept, r + 1)
  <2>1. LeafRows(leafDb.leaves \cup LeavesOf(script, r + 1), leafDb.deletes \cup DeletesOf(script, r + 1),
                 leafDb.orphans \cup OrphansOf(sig.leafOrphans, r + 1), script, kept, r + 1)
    BY <1>4, <1>5, <1>7, LeafRowsSaved
  <2> QED
    BY <1>4, <1>5, <2>1
<1>9. /\ ls \in SUBSET NodeKeys /\ ds \in SUBSET NodeKeys /\ os \in SUBSET (NodeKeys \X (1 .. MaxVersion))
  <2>1. leafDb \in LeafDbs
    BY DEF IInv, Types
  <2>2. sig.leaves \in SUBSET NodeKeys /\ sig.deletes \in SUBSET NodeKeys
    BY SMTT(60), <1>4, <1>5 DEF NodeKeys, LeavesOf, DeletesOf
  <2> QED
    BY SMTT(60), <1>4, <1>5, <2>1, <2>2 DEF LeafDbs, OrphansOf
<1> HIDE DEF ls, ds, os
<1>10. /\ db \in LeafDbs /\ db.leaves = ls /\ db.deletes = ds /\ db.orphans = os
  BY <1>9 DEF LeafDbs
<1> HIDE DEF db
<1>11. Types'
  BY <1>1, <1>2, <1>10 DEF IInv, Types
<1>12. Control'
  BY SMTT(60), <1>1, <1>2, <1>3 DEF IInv, Control, Writing
<1>13. Scripts(script)' /\ Memory' /\ Saves' /\ Prunes'
  BY <1>1, <1>2, PlansKeep
<1>14. Leaves'
  BY <1>1, <1>6, <1>8, <1>10 DEF Leaves
<1>15. Trees'
  BY <1>1, <1>6, TreesKeep DEF IInv
<1>16. Underway'
  BY <1>1, <1>6 DEF IInv, Underway
<1> QED
  BY <1>11, <1>12, <1>13, <1>14, <1>15, <1>16 DEF IInv

(* One leaf is pruned: no version that is kept has it.                     *)
LEMMA LeafPruneRowStep ==
  ASSUME IInv, NEW o \in leafDb.orphans, LeafPruneRow(o)
  PROVE  IInv'
<1> DEFINE db == [leafDb EXCEPT !.leaves = @ \ {o[1]}, !.orphans = @ \ {o}]
<1>1. /\ leafLoop.pc = "select" /\ leafLoop.tx /\ o[2] <= leafLoop.prune /\ leafDb' = db
      /\ UNCHANGED <<treeDb, treeDisk, pc, tree, sig, treeLoop, leafLoop, script, returned, kept, shardTrees>>
      /\ leafDisk' = leafDisk \/ leafDisk' = db
  BY DEF LeafPruneRow, LeafPruning, DueOrphans, WriteLeaf, history
<1>2. leafDb \in LeafDbs /\ Scripts(script) /\ LeafTop \in DOMAIN script /\ kept \in 1 .. MaxVersion
  BY Tops DEF IInv, Types
<1>3. leafDb.orphans \in SUBSET (NodeKeys \X (1 .. MaxVersion)) /\ o[2] <= kept
  <2>1. leafLoop.prune <= kept /\ leafLoop.prune \in 0 .. MaxVersion
    BY DEF IInv, Prunes, Types, LoopStates
  <2>2. leafDb.orphans \in SUBSET (NodeKeys \X (1 .. MaxVersion))
    BY <1>2 DEF LeafDbs
  <2> QED
    BY SMTT(60), <1>1, <1>2, <2>1, <2>2
<1>4. LeafRows(leafDb.leaves, leafDb.deletes, leafDb.orphans, script, kept, LeafTop)
  BY DEF IInv, Leaves
<1>5. LeafRows(leafDb.leaves \ {o[1]}, leafDb.deletes, leafDb.orphans \ {o}, script, kept, LeafTop)
  BY <1>2, <1>3, <1>4, LeafRowsPruned
<1>6. /\ db \in LeafDbs /\ db.leaves = leafDb.leaves \ {o[1]} /\ db.deletes = leafDb.deletes
      /\ db.orphans = leafDb.orphans \ {o}
  BY <1>2 DEF LeafDbs
<1> HIDE DEF db
<1>7. Types'
  BY <1>1, <1>6 DEF IInv, Types
<1>8. Control'
  BY <1>1 DEF IInv, Control, Writing
<1>9. Scripts(script)' /\ Memory' /\ Saves' /\ Prunes'
  BY <1>1 DEF IInv, Memory, Saves, Prunes, Prune
<1>10. LeafTop' = LeafTop /\ RootTop' = RootTop /\ BranchTop' = BranchTop
  BY <1>1 DEF LeafTop, RootTop, BranchTop, Written
<1>11. Leaves'
  BY <1>1, <1>5, <1>6, <1>10 DEF IInv, Leaves
<1>12. Trees'
  BY <1>1, <1>10, TreesKeep DEF IInv
<1>13. Underway'
  BY <1>1, <1>10 DEF IInv, Underway
<1> QED
  BY <1>7, <1>8, <1>9, <1>11, <1>12, <1>13 DEF IInv

(* startPrune finds a checkpoint, and it is not later than the oldest that *)
(* is kept.                                                                *)
LEMMA LeafStarts ==
  ASSUME NEW loop \in LoopStates, NEW v, Prune(v, loop.checkpoints), kept \in 1 .. MaxVersion
  PROVE  \E p \in 1 .. MaxVersion :
           /\ p <= kept /\ Passed(p, kept)
           /\ LeafStart(loop, v) = [loop EXCEPT !.prune = p, !.tx = TRUE]
<1> DEFINE p == FindPrevious(loop.checkpoints, v)
<1>1. /\ loop.checkpoints \in SUBSET (1 .. MaxVersion) /\ v \in 1 .. MaxVersion /\ v \in Int
      /\ Passed(v, kept) /\ \A c \in loop.checkpoints : Scheduled(c)
      /\ \E c \in loop.checkpoints : c <= v
  BY SMTT(60), BoundsAssumption DEF Prune
<1>2. p \in loop.checkpoints /\ p <= v
  BY <1>1, FindPreviousIs
<1>3. p <= kept
  BY <1>1, PrunesToKept
<1>4. p # -1 /\ p \in 1 .. MaxVersion
  <2> HIDE DEF p
  <2> QED
    BY SMTT(60), <1>1, <1>2
<1>5. LeafStart(loop, v) = [loop EXCEPT !.prune = p, !.tx = TRUE]
  BY <1>4 DEF LeafStart
<1> HIDE DEF p
<1>6. Passed(p, kept)
  BY SMTT(60), <1>1, <1>2, <1>4 DEF Passed
<1> QED
  BY <1>3, <1>4, <1>5, <1>6

(* A prune begins, or waits for the one before.                            *)
LEMMA LeafReceivesPruneStep ==
  ASSUME IInv, LeafReceivesPrune
  PROVE  IInv'
<1> DEFINE l == [leafLoop EXCEPT !.checkpoints = sig.checkpoints]
<1>1. /\ pc = "leafPruneCh" /\ leafLoop.pc = "select" /\ pc' = "idle" /\ sig' = NoSignal
      /\ leafLoop' = IF leafLoop.prune # 0 THEN [l EXCEPT !.next = sig.version] ELSE LeafStart(l, sig.version)
      /\ UNCHANGED <<treeDb, treeDisk, leafDb, leafDisk, tree, treeLoop, script, returned, kept, shardTrees>>
  BY DEF LeafReceivesPrune, history, dbs
<1>2. sig.kind = "prune" /\ Prune(sig.version, sig.checkpoints) /\ sig'.kind = "none"
  BY <1>1 DEF IInv, Control, Prunes, NoSignal
<1>3. /\ sig.version \in 0 .. MaxVersion /\ sig.checkpoints \in SUBSET (1 .. MaxVersion)
      /\ kept \in 1 .. MaxVersion /\ leafLoop \in LoopStates /\ (leafLoop.tx <=> leafLoop.prune # 0)
      /\ \A c \in sig.checkpoints : Scheduled(c)
  BY SMTT(60), <1>1, <1>2, BoundsAssumption DEF Prune, IInv, Types, Control
<1>4. /\ l \in LoopStates /\ l.pc = "select" /\ l.prune = leafLoop.prune /\ l.next = leafLoop.next
      /\ l.checkpoints = sig.checkpoints /\ (l.tx <=> leafLoop.tx)
  BY <1>1, <1>3 DEF LoopStates
<1> HIDE DEF l
<1>5. \E p \in 0 .. MaxVersion, n \in 0 .. MaxVersion :
        /\ leafLoop' = [l EXCEPT !.prune = p, !.next = n, !.tx = TRUE]
        /\ p # 0 /\ p <= kept /\ Passed(p, kept) /\ (n # 0 => Prune(n, sig.checkpoints))
  <2>1. CASE leafLoop.prune # 0
    <3>1. leafLoop' = [l EXCEPT !.prune = leafLoop.prune, !.next = sig.version, !.tx = TRUE]
      BY <1>1, <1>3, <1>4, <2>1 DEF LoopStates
    <3>2. leafLoop.prune \in 0 .. MaxVersion /\ leafLoop.prune <= kept /\ Passed(leafLoop.prune, kept)
      BY DEF IInv, Types, LoopStates, Prunes
    <3> QED
      BY <1>2, <1>3, <2>1, <3>1, <3>2
  <2>2. CASE leafLoop.prune = 0
    <3>1. PICK p \in 1 .. MaxVersion : /\ p <= kept /\ Passed(p, kept)
                                       /\ LeafStart(l, sig.version) = [l EXCEPT !.prune = p, !.tx = TRUE]
      BY <1>2, <1>3, <1>4, LeafStarts
    <3>2. leafLoop.next = 0
      BY <2>2 DEF IInv, Prunes
    <3>3. leafLoop' = [l EXCEPT !.prune = p, !.next = 0, !.tx = TRUE]
      BY <1>1, <1>4, <2>2, <3>1, <3>2 DEF LoopStates
    <3>4. p \in 0 .. MaxVersion /\ 0 \in 0 .. MaxVersion /\ p # 0
      BY SMTT(60), BoundsAssumption
    <3> QED
      BY <3>1, <3>3, <3>4
  <2> QED
    BY <2>1, <2>2
<1>6. /\ leafLoop'.pc = "select" /\ leafLoop'.tx /\ leafLoop'.prune # 0 /\ leafLoop'.prune <= kept
      /\ Passed(leafLoop'.prune, kept) /\ (leafLoop'.next # 0 => Prune(leafLoop'.next, sig.checkpoints))
      /\ leafLoop'.checkpoints = sig.checkpoints /\ leafLoop' \in LoopStates
  BY <1>4, <1>5 DEF LoopStates
<1>7. Types'
  BY <1>1, <1>6 DEF IInv, Types
<1>8. Control'
  BY <1>1, <1>2, <1>6 DEF IInv, Control, Writing
<1>9. Scripts(script)' /\ Memory' /\ Saves'
  BY <1>1, <1>2 DEF IInv, Memory, Saves
<1>10. Prunes'
  BY <1>1, <1>2, <1>3, <1>6 DEF IInv, Prunes, Prune
<1>11. LeafTop' = LeafTop /\ RootTop' = RootTop /\ BranchTop' = BranchTop
  BY <1>1, <1>2, <1>6 DEF LeafTop, RootTop, BranchTop, Written
<1>12. Leaves' /\ Trees'
  BY <1>1, <1>11, LeavesKeep, TreesKeep DEF IInv
<1>13. Underway'
  <2>1. treeLoop.pc \notin {"branches", "root"}
    BY <1>1 DEF IInv, Control
  <2> QED
    BY <1>1, <1>11, <2>1 DEF IInv, Underway
<1> QED
  BY <1>7, <1>8, <1>9, <1>10, <1>12, <1>13 DEF IInv

(* All rows are pruned, and committed.                                     *)
LEMMA LeafPruneCommitStep ==
  ASSUME IInv, LeafPruneCommit
  PROVE  IInv'
<1>1. /\ leafLoop.pc = "select" /\ leafDisk' = leafDb
      /\ leafLoop' = [leafLoop EXCEPT !.pc = "end", !.tx = FALSE]
      /\ UNCHANGED <<treeDb, treeDisk, leafDb, pc, tree, sig, treeLoop, script, returned, kept, shardTrees>>
  BY DEF LeafPruneCommit, LeafPruning, history
<1>2. /\ leafLoop'.pc = "end" /\ ~leafLoop'.tx
      /\ leafLoop'.prune = leafLoop.prune /\ leafLoop'.next = leafLoop.next
      /\ leafLoop'.checkpoints = leafLoop.checkpoints /\ leafLoop' \in LoopStates
  BY <1>1 DEF IInv, Types, LoopStates
<1>3. Types'
  BY <1>1, <1>2 DEF IInv, Types
<1>4. Control'
  BY SMTT(60), <1>1, <1>2 DEF IInv, Control, Writing
<1>5. Scripts(script)' /\ Memory' /\ Saves' /\ Prunes'
  BY <1>1, <1>2, PlansKeep
<1>6. LeafTop' = LeafTop /\ RootTop' = RootTop /\ BranchTop' = BranchTop
  BY <1>1, <1>2 DEF LeafTop, RootTop, BranchTop, Written
<1>7. Leaves'
  BY <1>1, <1>6 DEF IInv, Leaves
<1>8. Trees'
  BY <1>1, <1>6, TreesKeep DEF IInv
<1>9. Underway'
  BY SMTT(60), <1>1, <1>6 DEF IInv, Underway
<1> QED
  BY <1>3, <1>4, <1>5, <1>7, <1>8, <1>9 DEF IInv

(* Deletions are deleted: no replay begins before them.                    *)
LEMMA LeafPruneEndStep ==
  ASSUME IInv, LeafPruneEnd
  PROVE  IInv'
<1> DEFINE ds == {d \in leafDb.deletes : d[1] >= leafLoop.prune}
           db == [leafDb EXCEPT !.deletes = ds]
           l == [leafLoop EXCEPT !.pc = "select", !.next = 0]
<1>1. /\ leafLoop.pc = "end" /\ leafDb' = db /\ leafDisk' = db
      /\ leafLoop' = IF leafLoop.next # 0 THEN LeafStart(l, leafLoop.next) ELSE [l EXCEPT !.prune = 0]
      /\ UNCHANGED <<treeDb, treeDisk, pc, tree, sig, treeLoop, script, returned, kept, shardTrees>>
  BY DEF LeafPruneEnd, WriteLeaf, history
<1>2. /\ leafDb \in LeafDbs /\ Scripts(script) /\ LeafTop \in DOMAIN script /\ kept \in 1 .. MaxVersion
      /\ leafLoop \in LoopStates /\ ~leafLoop.tx /\ leafLoop.prune \in Int /\ leafLoop.prune <= kept
  <2>1. /\ leafDb \in LeafDbs /\ Scripts(script) /\ LeafTop \in DOMAIN script /\ kept \in 1 .. MaxVersion
        /\ leafLoop \in LoopStates /\ ~leafLoop.tx /\ leafLoop.prune <= kept
    BY <1>1, Tops DEF IInv, Types, Control, Prunes
  <2>2. leafLoop.prune \in 0 .. MaxVersion
    BY <2>1 DEF LoopStates
  <2> QED
    BY <2>1, <2>2, BoundsAssumption, SMTT(60)
<1>3. /\ l \in LoopStates /\ l.pc = "select" /\ l.next = 0 /\ l.checkpoints = leafLoop.checkpoints /\ ~l.tx
  <2>1. 0 \in 0 .. MaxVersion
    BY SMTT(60), BoundsAssumption
  <2> QED
    BY <1>2, <2>1 DEF LoopStates
<1> HIDE DEF l
<1>4. \E p \in 0 .. MaxVersion : /\ leafLoop' = [l EXCEPT !.prune = p, !.tx = (p # 0)]
                                 /\ p <= kept /\ Passed(p, kept)
  <2>1. CASE leafLoop.next # 0
    <3>1. Prune(leafLoop.next, l.checkpoints)
      BY <1>3, <2>1 DEF IInv, Prunes
    <3>2. PICK p \in 1 .. MaxVersion : /\ p <= kept /\ Passed(p, kept)
                                       /\ LeafStart(l, leafLoop.next) = [l EXCEPT !.prune = p, !.tx = TRUE]
      BY <1>2, <1>3, <3>1, LeafStarts
    <3>3. p \in 0 .. MaxVersion /\ (p # 0) = TRUE
      BY SMTT(60), BoundsAssumption
    <3>4. leafLoop' = [l EXCEPT !.prune = p, !.tx = (p # 0)]
      BY <1>1, <2>1, <3>2, <3>3
    <3> QED
      BY <3>2, <3>3, <3>4
  <2>2. CASE leafLoop.next = 0
    <3>1. leafLoop' = [l EXCEPT !.prune = 0, !.tx = (0 # 0)]
      BY <1>1, <1>3, <2>2 DEF LoopStates
    <3>2. 0 \in 0 .. MaxVersion /\ 0 <= kept /\ Passed(0, kept)
      BY SMTT(60), <1>2, BoundsAssumption DEF Passed
    <3> QED
      BY <3>1, <3>2
  <2> QED
    BY <2>1, <2>2
<1>5. /\ leafLoop'.pc = "select" /\ (leafLoop'.tx <=> leafLoop'.prune # 0) /\ leafLoop'.prune <= kept
      /\ Passed(leafLoop'.prune, kept) /\ leafLoop'.next = 0
      /\ leafLoop'.checkpoints = leafLoop.checkpoints /\ leafLoop' \in LoopStates
  BY <1>3, <1>4 DEF LoopStates
<1>6. LeafRows(leafDb.leaves, ds, leafDb.orphans, script, kept, LeafTop)
  <2>1. LeafRows(leafDb.leaves, leafDb.deletes, leafDb.orphans, script, kept, LeafTop)
    BY DEF IInv, Leaves
  <2> QED
    BY SMTT(60), <1>2, <2>1, LeafRowsEnded
<1>7. /\ db \in LeafDbs /\ db.leaves = leafDb.leaves /\ db.deletes = ds /\ db.orphans = leafDb.orphans
  BY <1>2 DEF LeafDbs
<1> HIDE DEF db, ds
<1>8. Types'
  BY <1>1, <1>5, <1>7 DEF IInv, Types
<1>9. Control'
  BY SMTT(60), <1>1, <1>5 DEF IInv, Control, Writing
<1>10. Scripts(script)' /\ Memory' /\ Saves'
  BY <1>1 DEF IInv, Memory, Saves
<1>11. Prunes'
  BY <1>1, <1>5 DEF IInv, Prunes, Prune
<1>12. LeafTop' = LeafTop /\ RootTop' = RootTop /\ BranchTop' = BranchTop
  BY <1>1, <1>5 DEF LeafTop, RootTop, BranchTop, Written
<1>13. Leaves'
  BY <1>1, <1>6, <1>7, <1>12 DEF Leaves
<1>14. Trees'
  BY <1>1, <1>12, TreesKeep DEF IInv
<1>15. Underway'
  BY <1>1, <1>12 DEF IInv, Underway
<1> QED
  BY <1>8, <1>9, <1>10, <1>11, <1>13, <1>14, <1>15 DEF IInv
=============================================================================
