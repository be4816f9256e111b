------------------------------ MODULE MCNodeDB ------------------------------
(* NodeDB for TLC, and the map of versions that it stands for.             *)
EXTENDS NodeDB

(* saved is what is on disk: VersionsReadable and VersionsFound.           *)
Store == INSTANCE VersionedMap WITH
           Values <- 1 .. MaxVersion, working <- Total(root),
           vers <- [v \in DOMAIN saved |-> saved[v].holds]

(* ImplementsVersionedMap: every call of MutableTree does to the versions  *)
(* and to the working tree what it promises.  A version is added only      *)
(* after the last one and never replaced; loading, replaying and rolling   *)
(* back give the working tree what a version holds.                        *)
ImplementsVersionedMap == Store!Spec

-----------------------------------------------------------------------------
Database ==
  INSTANCE Pruning WITH
    Nonces <- 1 .. 2 * Cardinality(Keys),
    nodesOf <- [v \in 0 .. MaxVersion |-> IF v \in DOMAIN saved THEN saved[v].nodes ELSE {}],
    rootOf <- [v \in 0 .. MaxVersion |-> IF v \in DOMAIN saved THEN saved[v].root ELSE LegacyKey],
    keys <- DOMAIN disk, first <- firstVersion, latest <- latestVersion

(* ImplementsPruning: every step does to the keys of the database what     *)
(* Pruning says, with the nodes of the new working tree as those of the    *)
(* new version.  DeleteVersionsTo of several versions is several steps of  *)
(* Pruning: see BatchIsSequential.  A database that has version 1 from the *)
(* beginning is what the first SaveNewNodes leaves.                        *)
ImplementsPruning ==
  /\ Database!Init \/ (DOMAIN saved = {1} /\ DOMAIN disk = saved[1].nodes)
  /\ [][\/ UNCHANGED <<disk, saved, firstVersion, latestVersion>>
        \/ firstVersion' > firstVersion + 1 /\ firstVersion > 0
        \/ Database!deleteVersion
        \/ Database!SaveNewNodes(Recorded(root').nodes)
        \/ root' # NilNode /\ Database!SaveRoot(Recorded(root').nodes, NodeAt(root'.nodeKey))
        \/ Database!SaveEmptyRoot
        \/ Database!DeleteVersionsAfter(version')]_vars

(* Deleting several versions with one batch, where each deletion reads the *)
(* database as it was before all of them, leaves what deleting them one    *)
(* after the other leaves.  A root that two of the deletions touch is the  *)
(* hard case: moved by one, an orphan to the next.                         *)
BatchIsSequential ==
  \A to \in firstVersion + 1 .. latestVersion - 1 :
    firstVersion > 0 =>
      LET before == Written(disk, PruneBatch(disk, firstVersion, to - 1))
      IN  Written(disk, PruneBatch(disk, firstVersion, to)) =
            Written(before, deleteVersion(before, to))

(* PruningExact (traverseOrphans, deleteVersion, DeleteVersionsTo): the    *)
(* orphans of a version are found exactly, deleting several versions at    *)
(* once is deleting them in turn, and the database holds the nodes and the *)
(* roots of the versions that exist and nothing else.                      *)
PruningExact == OrphansExact /\ BatchIsSequential /\ NoStrayNodes
=============================================================================
