------------------------------- MODULE Legacy -------------------------------
(***************************************************************************)
(* A database written by an older release, taken over by this one          *)
(* (src/nodedb.go, src/mutable_tree.go, src/node.go).  The versions up to  *)
(* the legacy latest one are stored in the old format: a root record per   *)
(* version, nodes under their hashes, and an orphan record <to, from,      *)
(* hash> for each node that an old version replaced.  Later versions are   *)
(* in the new format and go on using the old nodes they did not replace.   *)
(* The old versions are deleted at once: DeleteVersionsTo removes the      *)
(* nodes that only the last of them uses, and starts a goroutine that      *)
(* removes the old records through the batch the writer uses too.  Nobody  *)
(* waits for it and nobody commits for it.                                 *)
(*                                                                         *)
(* An old node is <version, number>, number 1 being the inner root that    *)
(* the version wrote and the others its leaves.  Nodes of the new format   *)
(* are the subject of NodeDB and Pruning and left out here: a tree is the  *)
(* old nodes in it.  A new version whose root is an old node is a          *)
(* reference to <version, 0>, where SaveVersion writes that node again.    *)
(*                                                                         *)
(* The process may end at any time.  If it ends before what the goroutine  *)
(* deletes is committed, or if DeleteVersionsTo is called for the legacy   *)
(* latest version itself, then ndb is told of old versions that are gone   *)
(* and later calls fail: `clean` records that neither has happened.        *)
(*                                                                         *)
(* Hazards: "gap" allows a rollback over old versions that the older       *)
(* release had pruned; "rewritten" allows a rollback to before a version   *)
(* that wrote an old root again; "sameVersion" allows two old nodes of one *)
(* version to be written again under the same key.                         *)
(***************************************************************************)
EXTENDS Integers, FiniteSetsExt

CONSTANTS
    Databases,      \* the old databases: [latest, roots, trees]
    MaxVersion,     \* bound: the last version that is saved
    Hazards         \* the hazards that may happen, see above

ASSUME HazardsAssumption ==
    Hazards \subseteq {"gap", "rewritten", "sameVersion"}

VARIABLES
    disk,                   \* what the database holds
    batch,                  \* the deletions waiting in the shared batch
    trees,                  \* history: the tree of each version saved last
    live,                   \* history: the versions nobody deleted
    legacyLatestVersion,    \* ndb's fields: 0 is unknown, -1 is none
    firstVersion,
    latestVersion,
    pc,                     \* "idle", or "commit": the caller is to commit
    routine,                \* the goroutine of deleteLegacyVersions
    failed,                 \* did DeleteVersionsTo return an error
    clean                   \* history: the deletion of old versions was let end

memory == <<legacyLatestVersion, firstVersion, latestVersion>>
vars == <<disk, batch, trees, live, memory, pc, routine, failed, clean>>

Versions == 1..MaxVersion
Own == <<0, 0>>     \* a root of the new format that is no old node

NoTree == [root |-> Own, legacy |-> {}, copied |-> {}]

Nothing == [nodes |-> {}, roots |-> {}, orphans |-> {}, copies |-> {}, new |-> {}]

Union(a, b) == [kind \in DOMAIN Nothing |-> a[kind] \cup b[kind]]

\* the batch with more deletions, of which those of absent keys do nothing
With(d, a, b) ==
    [kind \in DOMAIN Nothing |->
        (a[kind] \cup b[kind]) \cap
            (IF kind = "copies" THEN {n[1] : n \in d.copies} ELSE d[kind])]

\* Write: the deletions reach the database
Write(d, b) ==
    [nodes |-> d.nodes \ b.nodes, roots |-> d.roots \ b.roots,
     orphans |-> d.orphans \ b.orphans,
     copies |-> {n \in d.copies : n[1] \notin b.copies}, new |-> d.new \ b.new]

-----------------------------------------------------------------------------
(* What ndb knows of the versions.                                         *)

\* getLegacyLatestVersion
LegacyOnDisk(d) == IF d.roots = {} THEN -1 ELSE Max(d.roots)
LegacyLatest == IF legacyLatestVersion # 0 THEN legacyLatestVersion
                ELSE LegacyOnDisk(disk)

\* getLatestVersion: the highest key of the new format, or the legacy one
LatestOnDisk(d) ==
    LET versions == d.new \cup {n[1] : n \in d.copies}
    IN  IF versions # {} THEN Max(versions) ELSE LegacyOnDisk(d)

\* getFirstVersion: the old roots come before the search among the new ones
FirstOnDisk(d) == IF d.roots # {} THEN Min(d.roots)
                  ELSE IF d.new # {} THEN Min(d.new) ELSE latestVersion
First == IF firstVersion > 0 THEN firstVersion ELSE FirstOnDisk(disk)

VersionExists(v) ==
    IF v <= LegacyLatest THEN v \in disk.roots
    ELSE First <= v /\ v <= latestVersion

AvailableVersions ==
    IF LegacyLatest > First
    THEN {v \in First..(LegacyLatest - 1) : v \in disk.roots}
            \cup LegacyLatest..latestVersion
    ELSE First..latestVersion

-----------------------------------------------------------------------------
(* SaveVersion on a tree that still uses old nodes.                        *)

\* no change: the root is referred to, and rewritten if it is an old node
UnchangedTree(t) ==
    [t EXCEPT !.copied = IF t.root = Own THEN @ ELSE @ \cup {t.root}]

\* a change replaces the root and any of the other nodes; saveNewNodes refers
\* to those it keeps by their hashes, one that was written again included
ChangedTrees(t) ==
    {[root |-> Own, legacy |-> kept, copied |-> {}] :
        kept \in SUBSET {n \in t.legacy : n[2] # 1}}

\* removals leave one leaf, an old node, which becomes the root as it is
LastLeafTrees(t) ==
    {[root |-> n, legacy |-> {n}, copied |-> {n}] :
        n \in {m \in t.legacy : m[2] # 1 /\ m # t.root}}

\* SaveNode of an old root at <version, 0>, which may hold another node
Rewritten(copies, n) == {m \in copies : m[1] # n[1]} \cup {n}

SaveVersion ==
    LET version == latestVersion + 1
        saved == Write(disk, batch)
        Save(t) ==
            /\ "sameVersion" \in Hazards \/ t.root = Own
                \/ \A m \in disk.copies : m[1] = t.root[1] => m = t.root
            /\ disk' = [saved EXCEPT
                            !.new = @ \cup {version},
                            !.copies = IF t.root = Own THEN @
                                       ELSE Rewritten(@, t.root)]
            /\ trees' = [trees EXCEPT ![version] = t]
    IN  /\ pc = "idle" /\ version \in Versions
        /\ \/ Save(UnchangedTree(trees[latestVersion]))
           \/ \E t \in ChangedTrees(trees[latestVersion]) : Save(t)
           \/ \E t \in LastLeafTrees(trees[latestVersion]) : Save(t)
        /\ batch' = Nothing
        /\ live' = live \cup {version}
        /\ latestVersion' = version
        /\ legacyLatestVersion' = LegacyLatest
        /\ UNCHANGED <<firstVersion, pc, routine, failed, clean>>

-----------------------------------------------------------------------------
(* DeleteVersionsTo.                                                       *)

\* traverseOrphans(v, v + 1): the old nodes that the next version dropped
Orphans(v) == trees[v].legacy \ trees[v + 1].legacy

\* GetRoot finds the root of v, of which a reference must lead somewhere
HasRoot(v) ==
    \/ v \in disk.new /\ \/ trees[v].root = Own
                         \/ \E n \in disk.copies : n[1] = trees[v].root[1]
    \/ v \notin disk.new /\ v \in disk.roots

\* the traversal gets to its end: both roots and the orphans can be read
Traversable(v) ==
    /\ HasRoot(v) /\ HasRoot(v + 1)
    /\ \A n \in Orphans(v) : IF n \in trees[v].copied THEN n \in disk.copies
                             ELSE n \in disk.nodes

\* the orphans that deleteVersion sees in the new format: a root that was
\* written again, found by its new key, or by its hash in the node cache,
\* whose object SaveVersion changed in place
Reformatted(v, orphans, cached) == orphans \cap (trees[v].copied \cup cached)

\* Mutant: a rewritten root is deleted under its new key alone.
VersionDeletions_NewKeyOnly(v, orphans, cached) ==
    [Nothing EXCEPT !.nodes = orphans \ Reformatted(v, orphans, cached),
                    !.copies = {n[1] : n \in Reformatted(v, orphans, cached)},
                    !.new = {v}]

\* what deleteVersion deletes of a version: the root record, and its orphans,
\* under both keys if the orphan is in the new format
VersionDeletions(v, orphans, cached) ==
    [Nothing EXCEPT !.nodes = orphans,
                    !.copies = {n[1] : n \in Reformatted(v, orphans, cached)},
                    !.new = {v}]

AllDeletions(versions, cached) ==
    LET Of(v) == VersionDeletions(v, Orphans(v), cached)
    IN  [Nothing EXCEPT !.nodes = UNION {Of(v).nodes : v \in versions},
                        !.copies = UNION {Of(v).copies : v \in versions},
                        !.new = versions]

\* are old versions there to be deleted with the ones up to `to`
LegacyDue(to) == LegacyLatest <= to /\ LegacyLatest >= First

FirstToDelete(to) == IF LegacyDue(to) THEN LegacyLatest + 1 ELSE First

\* the old versions are deleted at once: not before the last of them is due
NotYetDue(to) ==
    /\ LegacyLatest > to
    /\ pc' = "commit"
    /\ UNCHANGED <<batch, live, legacyLatestVersion, firstVersion, routine, failed>>

\* the last old version cannot be compared with the next: an error
LegacyUnreadable(to) ==
    /\ LegacyDue(to) /\ ~Traversable(LegacyLatest)
    /\ \E some \in SUBSET Orphans(LegacyLatest) :
        batch' = With(disk, batch, [Nothing EXCEPT !.nodes = some])
    /\ failed' = TRUE
    /\ UNCHANGED <<live, legacyLatestVersion, firstVersion, pc, routine>>

\* resetFirstVersion, after each version that is deleted
FirstAfter(from, until) == IF until > from THEN until ELSE firstVersion

\* the versions before `until` are deleted, and the goroutine is started
DeletedUntil(to, until) ==
    /\ live' = live \ 1..(until - 1)
    /\ firstVersion' = FirstAfter(FirstToDelete(to), until)
    /\ legacyLatestVersion' = IF LegacyDue(to) THEN -1 ELSE LegacyLatest
    /\ routine' = IF LegacyDue(to)
                  THEN [at |-> "start", latest |-> LegacyLatest, todo |-> {}]
                  ELSE routine

DeletionsUntil(to, until, cached) ==
    LET new == AllDeletions(FirstToDelete(to)..(until - 1), cached)
    IN  IF LegacyDue(to) THEN [new EXCEPT !.nodes = @ \cup Orphans(LegacyLatest)] ELSE new

Stuck(to) == {v \in FirstToDelete(to)..to : ~Traversable(v)}

DeletesAll(to, cached) ==
    /\ LegacyLatest <= to /\ (LegacyDue(to) => Traversable(LegacyLatest))
    /\ Stuck(to) = {}
    /\ batch' = With(disk, batch, DeletionsUntil(to, to + 1, cached))
    /\ DeletedUntil(to, to + 1)
    /\ pc' = "commit"
    /\ UNCHANGED failed

\* a version cannot be compared with the next: an error, after some deletions
DeletesSome(to, cached) ==
    LET v == Min(Stuck(to))
    IN  /\ LegacyLatest <= to /\ (LegacyDue(to) => Traversable(LegacyLatest))
        /\ Stuck(to) # {}
        /\ \E some \in SUBSET Orphans(v) :
            batch' = With(disk, Union(batch, DeletionsUntil(to, v, cached)),
                          [VersionDeletions(v, some, cached) EXCEPT !.new = {}])
        /\ DeletedUntil(to, v)
        /\ failed' = TRUE
        /\ UNCHANGED pc

DeleteVersionsTo(to) ==
    /\ pc = "idle" /\ to < latestVersion
    /\ \/ NotYetDue(to)
       \/ LegacyUnreadable(to)
       \/ \E cached \in SUBSET disk.copies : DeletesAll(to, cached) \/ DeletesSome(to, cached)
    /\ clean' = (clean /\ to # LegacyLatest)
    /\ UNCHANGED <<disk, trees, latestVersion>>

-----------------------------------------------------------------------------
(* LoadVersionForOverwriting, with DeleteVersionsFrom.                     *)

\* deleteLegacyNodes: what the old versions from `from` on wrote themselves
LegacyDeletions(from) ==
    LET versions == {v \in disk.roots : v >= from}
    IN  [Nothing EXCEPT
            !.nodes = UNION {{n \in trees[v].legacy : n[1] >= v} : v \in versions},
            !.roots = versions]

\* Mutant: the legacy latest version is not read again.
AfterRollback_Cached(target) == LegacyLatest

\* what DeleteVersionsFrom leaves of the legacy latest version
AfterRollback(target) == IF LegacyLatest > target THEN 0 ELSE LegacyLatest

LoadVersionForOverwriting(target) ==
    /\ pc = "idle" /\ target \in live /\ VersionExists(target)
    /\ \/ "gap" \in Hazards
       \/ (target + 1)..LegacyLatest \subseteq disk.roots
    /\ \/ "rewritten" \in Hazards
       \/ \A v \in live : v > target => trees[v].copied \subseteq trees[target].copied
    /\ batch' = With(disk, batch,
                    [LegacyDeletions(target + 1) EXCEPT
                        !.new = {v \in disk.new : v > target /\ v > LegacyLatest}])
    /\ legacyLatestVersion' = AfterRollback(target)
    /\ latestVersion' = target
    /\ live' = {v \in live : v <= target}
    /\ pc' = "commit"
    /\ UNCHANGED <<disk, trees, firstVersion, routine, failed, clean>>

\* Commit, with which both calls end
Commit ==
    /\ pc = "commit"
    /\ disk' = Write(disk, batch)
    /\ batch' = Nothing
    /\ pc' = "idle"
    /\ UNCHANGED <<trees, live, memory, routine, failed, clean>>

-----------------------------------------------------------------------------
(* The goroutine: deleteLegacyVersions.                                    *)

\* Mutant: a node that the latest old version is the last to use is dead.
NodeIsDead_UpTo(r, latest) ==
    (r.from <= latest /\ r.to <= latest) \/ r.from > latest

\* is the node of an orphan record in no version from the latest old one on
NodeIsDead(r, latest) ==
    (r.from <= latest /\ r.to < latest) \/ r.from > latest

\* the orphan records come in the order of <to, from>
FirstOrphans(todo) ==
    {r \in todo : \A s \in todo :
        r.to < s.to \/ (r.to = s.to /\ r.from <= s.from)}

\* batch.Delete, which first writes a batch that is full
Delete(b) ==
    \/ batch' = With(disk, batch, b) /\ UNCHANGED disk
    \/ disk' = Write(disk, batch) /\ batch' = With(disk', Nothing, b)

\* an iterator sees the database as it was when the iterator was made
StartRoutine ==
    /\ routine.at = "start"
    /\ routine' = [routine EXCEPT !.at = "orphans", !.todo = disk.orphans]
    /\ UNCHANGED <<disk, batch>>

DeleteOrphan ==
    /\ routine.at = "orphans"
    /\ \E r \in FirstOrphans(routine.todo) :
        LET record == [Nothing EXCEPT !.orphans = {r}]
            node == [Nothing EXCEPT !.nodes =
                        IF NodeIsDead(r, routine.latest) THEN {r.node} ELSE {}]
        IN  /\ \/ Delete(Union(record, node))
               \/ /\ node # Nothing   \* the batch is full after the first of two
                  /\ disk' = Write(disk, Union(batch, record))
                  /\ batch' = With(disk', Nothing, node)
            /\ routine' = [routine EXCEPT !.todo = @ \ {r}]

OrphansDone ==
    /\ routine.at = "orphans" /\ routine.todo = {}
    /\ routine' = [routine EXCEPT !.at = "roots", !.todo = disk.roots]
    /\ UNCHANGED <<disk, batch>>

DeleteRoot ==
    /\ routine.at = "roots" /\ routine.todo # {}
    /\ Delete([Nothing EXCEPT !.roots = {Min(routine.todo)}])
    /\ routine' = [routine EXCEPT !.todo = @ \ {Min(@)}]

EndRoutine ==
    /\ routine.at = "roots" /\ routine.todo = {}
    /\ routine' = [routine EXCEPT !.at = "done"]
    /\ UNCHANGED <<disk, batch>>

RoutineStep ==
    /\ StartRoutine \/ DeleteOrphan \/ OrphansDone \/ DeleteRoot \/ EndRoutine
    /\ UNCHANGED <<trees, live, memory, pc, failed, clean>>

-----------------------------------------------------------------------------
NoRoutine == [at |-> "none", latest |-> 0, todo |-> {}]

\* the old versions are deleted and that is committed, or it is not begun
Settled == pc = "idle" /\ batch = Nothing /\ routine.at \in {"none", "done"}

\* the process ends, and Load reads the latest version of the database
Restart ==
    /\ clean' = (clean /\ Settled)
    /\ batch' = Nothing
    /\ routine' = NoRoutine
    /\ legacyLatestVersion' = LegacyOnDisk(disk)
    /\ latestVersion' = LatestOnDisk(disk)
    /\ firstVersion' = 0
    /\ pc' = "idle"
    /\ UNCHANGED <<disk, trees, live, failed>>

Init ==
    \E db \in Databases :
        LET nodes == UNION {db.trees[v].legacy : v \in db.roots}
            Uses(n) == {v \in db.roots : n \in db.trees[v].legacy}
        IN  /\ disk = [Nothing EXCEPT
                !.nodes = nodes, !.roots = db.roots,
                !.orphans = {[to |-> Max(Uses(n)), from |-> n[1], node |-> n] :
                                n \in nodes \ db.trees[db.latest].legacy}]
            /\ trees = [v \in Versions |->
                            IF v <= db.latest THEN db.trees[v]
                            ELSE NoTree]
            /\ live = db.roots
            /\ batch = Nothing
            /\ legacyLatestVersion = db.latest /\ firstVersion = 0
            /\ latestVersion = db.latest
            /\ pc = "idle" /\ routine = NoRoutine
            /\ failed = FALSE /\ clean = TRUE

Next ==
    \/ SaveVersion
    \/ \E to \in Versions : DeleteVersionsTo(to)
    \/ \E target \in Versions : LoadVersionForOverwriting(target)
    \/ Commit
    \/ RoutineStep
    \/ Restart

Spec == Init /\ [][Next]_vars

-----------------------------------------------------------------------------
(* The types of the state; a database key holds one node.                  *)
TypeOK ==
    /\ DOMAIN disk = DOMAIN Nothing /\ DOMAIN batch = DOMAIN Nothing
    /\ disk.roots \cup disk.new \subseteq Versions /\ live \subseteq Versions
    /\ \A m, n \in disk.copies : m[1] = n[1] => m = n
    /\ legacyLatestVersion \in {-1, 0} \cup Versions
    /\ firstVersion \in {0} \cup Versions /\ latestVersion \in Versions
    /\ pc \in {"idle", "commit"}
    /\ routine.at \in {"none", "start", "orphans", "roots", "done"}
    /\ failed \in BOOLEAN /\ clean \in BOOLEAN

(* Neither the goroutine, nor pruning, nor a rollback (nodedb.go:421, 494, *)
(* 549) deletes an old node that a version still there uses, under the key *)
(* by which that version finds it.                                         *)
VersionsReadable ==
    \A v \in live :
        /\ v \in disk.roots \cup disk.new
        /\ \A n \in trees[v].legacy :
            IF n \in trees[v].copied THEN n \in disk.copies ELSE n \in disk.nodes

(* VersionExists and AvailableVersions (mutable_tree.go:76, 97) report the *)
(* versions nobody deleted, while the old ones are still being removed and *)
(* after every restart, and DeleteVersionsTo of a version below the latest *)
(* one (nodedb.go:523) returns no error.                                   *)
CallsAreRight ==
    clean =>
        /\ ~failed
        /\ pc = "idle" => /\ \A v \in Versions : VersionExists(v) <=> v \in live
                         /\ AvailableVersions = live

(* Once the goroutine has ended and what it deleted is committed, the      *)
(* database holds no old record, no old node that no version uses, and no  *)
(* rewritten root that no version refers to (nodedb.go:342, 421).  There   *)
(* is one exception: the root was a last leaf, and the next version kept   *)
(* the leaf below a root of its own.                                       *)
LegacyGone ==
    clean /\ Settled /\ legacyLatestVersion = -1
    => /\ disk.roots = {} /\ disk.orphans = {}
       /\ disk.nodes \subseteq UNION {trees[v].legacy : v \in live}
       /\ \A n \in disk.copies :
            \/ \E v \in live : n \in trees[v].copied
            \/ \E v \in Versions \ {MaxVersion} :
                trees[v].root = n /\ trees[v + 1].root = Own /\ n \in trees[v + 1].legacy

=============================================================================
