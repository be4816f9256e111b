------------------------------ MODULE Pruning -------------------------------
(***************************************************************************)
(* Which keys the database of a nodeDB holds, and why pruning the oldest   *)
(* version with nothing but the next version at hand is enough.            *)
(*                                                                         *)
(* This is NodeDB without the trees: a version is the set of its nodes.  A *)
(* node is <<v, n>>, the version that created it and its nonce there, and  *)
(* <<v, 1>> is the root that version v created, if it did.  Keys are pairs *)
(* as well; the key of a node is the node, except that the root of a       *)
(* pruned version is moved to <<v, 0>>.  The key <<v, 1>> also exists for  *)
(* a version that is empty or has the root of an earlier version.          *)
(***************************************************************************)
EXTENDS Integers

CONSTANTS
  MaxVersion,   \* bound: no later version is saved
  Nonces        \* the nonces a node can have

ASSUME MaxVersionAssumption == MaxVersion \in Nat
ASSUME NoncesAssumption == Nonces \subseteq Nat \ {0} /\ 1 \in Nonces

VARIABLES
  nodesOf,   \* the nodes of each version
  rootOf,    \* the root of each version, NoRoot if it is empty
  keys,      \* the keys in the database
  first,     \* the oldest version, 0 if there is none
  latest     \* the newest version, 0 if there is none

vars == <<nodesOf, rootOf, keys, first, latest>>

Versions == 0 .. MaxVersion
AllNodes == Versions \X Nonces
AllKeys == Versions \X (Nonces \cup {0})

NoRoot == <<0, 0>>

(* GetRootKey.                                                             *)
RootKey(v) == <<v, 1>>

Live == {v \in first .. latest : v > 0}

Init ==
  /\ nodesOf = [v \in Versions |-> {}]
  /\ rootOf = [v \in Versions |-> NoRoot]
  /\ keys = {}
  /\ first = 0 /\ latest = 0

-----------------------------------------------------------------------------
(* SaveVersion.                                                            *)

Append(ns, r) ==
  /\ latest < MaxVersion
  /\ nodesOf' = [nodesOf EXCEPT ![latest + 1] = ns]
  /\ rootOf' = [rootOf EXCEPT ![latest + 1] = r]
  /\ first' = IF first = 0 THEN latest + 1 ELSE first
  /\ latest' = latest + 1

(* A changed tree: its root is new, its nodes are new or nodes of the      *)
(* version before, but not the root of that version, which is a leaf only  *)
(* if the version has a single key.                                        *)
SaveNewNodes(ns) ==
  /\ RootKey(latest + 1) \in ns
  /\ \A n \in ns : n[1] = latest + 1 \/ (n \in nodesOf[latest] /\ n[2] # 1)
  /\ Append(ns, RootKey(latest + 1))
  /\ keys' = keys \cup {n \in ns : n[1] = latest + 1}

(* A tree without new nodes: SaveRoot.  It is the tree of the version      *)
(* before, or a subtree of it that a removal left over.                    *)
SaveRoot(ns, r) ==
  /\ r \in ns /\ ns \subseteq nodesOf[latest]
  /\ \A n \in ns : n[2] = 1 => n = r
  /\ Append(ns, r)
  /\ keys' = keys \cup {RootKey(latest + 1)}

SaveEmptyRoot ==
  /\ Append({}, NoRoot)
  /\ keys' = keys \cup {RootKey(latest + 1)}

-----------------------------------------------------------------------------
(* deleteVersion of the oldest version.                                    *)

(* Mutant: what the version created is deleted, used or not.               *)
Orphans_Created == {n \in nodesOf[first] : n[1] = first}

Orphans == nodesOf[first] \ nodesOf[first + 1]

(* Mutant: the orphan is deleted where it was.                             *)
OrphanKey_Unmoved(n) == n

(* An orphan that is the root of an earlier version has been moved.        *)
OrphanKey(n) == IF n[2] = 1 /\ n[1] < first THEN <<n[1], 0>> ELSE n

deleteVersion ==
  /\ 0 < first /\ first < latest
  /\ keys' =
       (keys \ ({OrphanKey(n) : n \in Orphans}
                  \cup {k \in {RootKey(first)} : rootOf[first] # k \/ rootOf[first + 1] = k}))
         \cup {k \in {<<first, 0>>} : rootOf[first + 1] = RootKey(first)}
  /\ nodesOf' = [nodesOf EXCEPT ![first] = {}]
  /\ rootOf' = [rootOf EXCEPT ![first] = NoRoot]
  /\ first' = first + 1
  /\ UNCHANGED latest

(* Mutant: off by one.                                                     *)
DeleteVersionsAfter_OffByOne(t) ==
  /\ t \in Live
  /\ keys' = {k \in keys : k[1] <= t + 1}
  /\ nodesOf' = [v \in Versions |-> IF v > t THEN {} ELSE nodesOf[v]]
  /\ rootOf' = [v \in Versions |-> IF v > t THEN NoRoot ELSE rootOf[v]]
  /\ latest' = t
  /\ UNCHANGED first

(* DeleteVersionsFrom(t + 1): every key of a later version is deleted.     *)
DeleteVersionsAfter(t) ==
  /\ t \in Live
  /\ keys' = {k \in keys : k[1] <= t}
  /\ nodesOf' = [v \in Versions |-> IF v > t THEN {} ELSE nodesOf[v]]
  /\ rootOf' = [v \in Versions |-> IF v > t THEN NoRoot ELSE rootOf[v]]
  /\ latest' = t
  /\ UNCHANGED first

Next ==
  \/ \E new \in SUBSET Nonces, kept \in SUBSET nodesOf[latest] :
       SaveNewNodes(({latest + 1} \X new) \cup kept)
  \/ \E ns \in SUBSET nodesOf[latest] : \E r \in ns : SaveRoot(ns, r)
  \/ SaveEmptyRoot \/ deleteVersion
  \/ \E t \in Versions : DeleteVersionsAfter(t)

Spec == Init /\ [][Next]_vars

-----------------------------------------------------------------------------
(* TypeOK: versions, nodes and keys are in their bounds.                   *)
TypeOK ==
  /\ nodesOf \in [Versions -> SUBSET AllNodes]
  /\ rootOf \in [Versions -> AllNodes \cup {NoRoot}]
  /\ keys \in SUBSET AllKeys
  /\ first \in Versions /\ latest \in Versions

(* The key of a node: the root of a pruned version has been moved.         *)
KeyOf(n) == IF n[2] = 1 /\ n[1] < first THEN <<n[1], 0>> ELSE n

(* NothingLost: every node of a version that exists is in the database,    *)
(* where GetRoot and GetNode look for it.                                  *)
NothingLost == \A v \in Live : \A n \in nodesOf[v] : KeyOf(n) \in keys

(* NothingLeaked: every key in the database is that of a node of a version *)
(* that exists, or of the root of one.                                     *)
NothingLeaked ==
  \A k \in keys :
    \/ \E v \in Live : k = RootKey(v)
    \/ \E v \in Live : \E n \in nodesOf[v] : k = KeyOf(n)

(* RootsMarkVersions: hasVersion is true of exactly the versions that      *)
(* exist, so that the binary search of getFirstVersion finds the oldest,   *)
(* and no key is of a later version than the latest, so that               *)
(* getLatestVersion finds that one.                                        *)
RootsMarkVersions ==
  /\ \A v \in Versions : RootKey(v) \in keys <=> v \in Live
  /\ \A k \in keys : k[1] <= latest
=============================================================================
