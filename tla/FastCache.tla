----------------------------- MODULE FastCache ------------------------------
(***************************************************************************)
(* The cache in front of the fast index, and the goroutines that share it: *)
(* a writer that saves versions and, rarely, goes back to an old one, and  *)
(* readers that call Get on trees from GetImmutable.                       *)
(*                                                                         *)
(* Every access to the cache is made under ndb.mtx, but a call is not: the *)
(* writer takes the lock once for each key that it writes, then once to    *)
(* commit, and resetLatestVersion comes after that.  A reader takes it to  *)
(* look into the cache and the index, and compares latestVersion after it  *)
(* has let go of it.  FastStorage has the same calls one after the other.  *)
(***************************************************************************)
EXTENDS Integers, Sequences

CONSTANTS
  Keys,         \* byte strings, as numbers in the same order
  Values,       \* values that can be stored
  NoValue,      \* nil
  MaxVersion,   \* bound: no later version is saved
  CacheSize,    \* fastNodeCacheSize
  Readers,      \* goroutines with an ImmutableTree
  Hazards       \* the overlaps, out of HazardNames, that may happen

HazardNames == {"unsettled", "overwrite"}

ASSUME KeysAssumption == Keys \subseteq Nat
ASSUME NoValueAssumption == NoValue \notin Values
ASSUME BoundsAssumption == MaxVersion \in Nat /\ CacheSize \in Nat \ {0}
ASSUME HazardsAssumption == Hazards \subseteq HazardNames

VARIABLES
  saved,          \* what each version holds
  newest,         \* the newest version that is on disk
  index,          \* the index on disk: the fast node of each key
  batch,          \* what the batch does to the index
  dict,           \* fastNodeCache: the fast node of each key
  ll,             \* fastNodeCache: its keys, the last used first
  latestVersion,  \* ndb.latestVersion
  phase,          \* what the writer is doing
  writes,         \* the keys it has still to write to the index
  deletes,        \* the keys it has still to delete from the index
  unsettled,      \* the keys on which batch, index and tree may differ
  working,        \* what the working tree holds
  additions,      \* unsavedFastNodeAdditions
  removals,       \* unsavedFastNodeRemovals
  reader          \* the Get of each reader

disk == <<saved, newest, index, batch>>
cache == <<dict, ll>>
call == <<phase, writes, deletes, unsettled>>
tree == <<working, additions, removals>>
vars == <<disk, cache, latestVersion, call, tree, reader>>

Versions == 0 .. MaxVersion
Contents == [Keys -> Values \cup {NoValue}]
Nothing == [k \in Keys |-> NoValue]

(* A fast node, its absence, and what a batch has for other keys.          *)
FastNode(x, v) == [value |-> x, version |-> v]
NoNode == FastNode(NoValue, 0)
NoWrite == FastNode(NoValue, -1)
FastNodes == [value : Values, version : 1 .. MaxVersion]
NoNodes == [k \in Keys |-> NoNode]
NoWrites == [k \in Keys |-> NoWrite]

Written == [k \in Keys |-> IF batch[k] = NoWrite THEN index[k] ELSE batch[k]]

-----------------------------------------------------------------------------
(* lruCache.                                                               *)

Others(k) == SelectSeq(ll, LAMBDA other : other # k)

(* The nodes without the last of the keys in used, if these are too many.  *)
Kept(used) ==
  IF Len(used) > CacheSize THEN [dict EXCEPT ![used[Len(used)]] = NoNode] ELSE dict

Add(k, node) ==
  LET used == <<k>> \o Others(k)
  IN  /\ dict' = [Kept(used) EXCEPT ![k] = node]
      /\ ll' = IF Len(used) > CacheSize THEN SubSeq(used, 1, CacheSize) ELSE used

(* Get, of a node that is there.                                           *)
Hit(k) == ll' = <<k>> \o Others(k) /\ UNCHANGED dict

CacheRemove(k) == dict' = [dict EXCEPT ![k] = NoNode] /\ ll' = Others(k)

-----------------------------------------------------------------------------
(* The working tree.                                                       *)

Set(k, x) ==
  /\ phase = "idle" /\ newest < MaxVersion
  /\ working' = [working EXCEPT ![k] = x]
  /\ additions' = [additions EXCEPT ![k] = FastNode(x, newest + 1)]
  /\ removals' = removals \ {k}
  /\ UNCHANGED <<disk, cache, latestVersion, call, reader>>

Remove(k) ==
  /\ phase = "idle" /\ newest < MaxVersion
  /\ working[k] # NoValue
  /\ working' = [working EXCEPT ![k] = NoValue]
  /\ additions' = [additions EXCEPT ![k] = NoNode]
  /\ removals' = removals \cup {k}
  /\ UNCHANGED <<disk, cache, latestVersion, call, reader>>

-----------------------------------------------------------------------------
(* SaveVersion: the additions and then the removals, each in the order of  *)
(* the keys, go to the batch and to the cache.                             *)

SaveVersion ==
  /\ phase = "idle" /\ newest < MaxVersion
  /\ phase' = "save"
  /\ writes' = {k \in Keys : additions[k] # NoNode} /\ deletes' = removals
  /\ UNCHANGED <<disk, cache, latestVersion, unsettled, tree, reader>>

First(ks, k) == k \in ks /\ \A other \in ks : k <= other

(* An operation on the batch; the batch may be written out before it.      *)
Batched(k, node) ==
  \/ /\ batch' = [batch EXCEPT ![k] = node]
     /\ UNCHANGED <<saved, newest, index>>
  \/ /\ index' = Written
     /\ batch' = [NoWrites EXCEPT ![k] = node]
     /\ UNCHANGED <<saved, newest>>

SaveFastNode(k) ==
  /\ phase = "save" /\ First(writes, k)
  /\ writes' = writes \ {k} /\ unsettled' = unsettled \cup {k}
  /\ Batched(k, additions[k])
  /\ Add(k, additions[k])
  /\ UNCHANGED <<latestVersion, phase, deletes, tree, reader>>

(* Mutant: the cache is not told.                                          *)
DeleteFastNode_Cached(k) ==
  /\ \/ phase = "save" /\ writes = {}
     \/ phase = "rebuild"
  /\ First(deletes, k)
  /\ deletes' = deletes \ {k} /\ unsettled' = unsettled \cup {k}
  /\ Batched(k, NoNode)
  /\ UNCHANGED <<cache, latestVersion, phase, writes, tree, reader>>

DeleteFastNode(k) ==
  /\ \/ phase = "save" /\ writes = {}
     \/ phase = "rebuild"
  /\ First(deletes, k)
  /\ deletes' = deletes \ {k} /\ unsettled' = unsettled \cup {k}
  /\ Batched(k, NoNode)
  /\ CacheRemove(k)
  /\ UNCHANGED <<latestVersion, phase, writes, tree, reader>>

(* Commit: the nodes of the version are in the same batch.                 *)
CommitSave ==
  /\ phase = "save" /\ writes = {} /\ deletes = {}
  /\ index' = Written /\ batch' = NoWrites
  /\ newest' = newest + 1 /\ saved' = [saved EXCEPT ![newest + 1] = working]
  /\ phase' = "committed"
  /\ UNCHANGED <<cache, latestVersion, writes, deletes, unsettled, tree, reader>>

resetLatestVersion ==
  /\ phase = "committed"
  /\ latestVersion' = newest
  /\ additions' = NoNodes /\ removals' = {}
  /\ phase' = "idle" /\ unsettled' = {}
  /\ UNCHANGED <<disk, cache, writes, deletes, working, reader>>

-----------------------------------------------------------------------------
(* LoadVersionForOverwriting.  The versions go first, then the index is    *)
(* built again from the tree that is loaded, because its label is not      *)
(* latestVersion.  Nobody reads a version that goes, and there are no      *)
(* unsaved changes (FastStorage has what happens to them).                 *)

LoadVersionForOverwriting(target) ==
  /\ phase = "idle"
  /\ 0 < target /\ target < newest
  /\ additions = NoNodes /\ removals = {}
  /\ \A r \in Readers :
       reader[r].busy => "overwrite" \in Hazards /\ reader[r].version <= target
  /\ newest' = target /\ latestVersion' = target
  /\ saved' = [v \in Versions |-> IF v <= target THEN saved[v] ELSE Nothing]
  /\ working' = saved[target]
  /\ phase' = "rebuild" /\ unsettled' = Keys
  /\ deletes' = {k \in Keys : index[k] # NoNode}
  /\ writes' = {k \in Keys : saved[target][k] # NoValue}
  /\ UNCHANGED <<index, batch, cache, additions, removals, reader>>

SaveFastNodeNoCache(k) ==
  /\ phase = "rebuild" /\ deletes = {} /\ First(writes, k)
  /\ writes' = writes \ {k}
  /\ Batched(k, FastNode(working[k], newest))
  /\ UNCHANGED <<cache, latestVersion, phase, deletes, unsettled, tree, reader>>

CommitRebuild ==
  /\ phase = "rebuild" /\ writes = {} /\ deletes = {}
  /\ index' = Written /\ batch' = NoWrites
  /\ phase' = "idle" /\ unsettled' = {}
  /\ UNCHANGED <<saved, newest, cache, latestVersion, writes, deletes, tree, reader>>

-----------------------------------------------------------------------------
(* ImmutableTree.Get.                                                      *)

NoRead == [busy |-> FALSE]

(* A tree of version v, which is on disk and not empty, and its            *)
(* GetFastNode.                                                            *)
GetFastNode(r, v, k) ==
  /\ ~reader[r].busy
  /\ 0 < v /\ v <= newest /\ saved[v] # Nothing
  /\ dict[k] = NoNode /\ k \in unsettled => "unsettled" \in Hazards
  /\ LET node == IF dict[k] # NoNode THEN dict[k] ELSE index[k]
     IN  reader' = [reader EXCEPT ![r] =
                      [busy |-> TRUE, version |-> v, key |-> k, node |-> node]]
  /\ \/ dict[k] # NoNode /\ Hit(k)
     \/ dict[k] = NoNode /\ index[k] # NoNode /\ Add(k, index[k])
     \/ dict[k] = NoNode /\ index[k] = NoNode /\ UNCHANGED cache
  /\ UNCHANGED <<disk, latestVersion, call, tree>>

(* Mutant: an absent fast node is taken for an absent key.                 *)
Answer_AnyVersion(get) ==
  CASE get.node = NoNode -> NoValue
    [] get.node # NoNode /\ get.node.version <= get.version -> get.node.value
    [] OTHER -> saved[get.version][get.key]

(* What Get returns if it goes on now: the fast node, unless it is newer   *)
(* than the tree; nothing, if there is none and the tree is the latest;    *)
(* or what the nodes of the tree say.                                      *)
Answer(get) ==
  CASE get.node = NoNode /\ get.version = latestVersion -> NoValue
    [] get.node # NoNode /\ get.node.version <= get.version -> get.node.value
    [] OTHER -> saved[get.version][get.key]

Return(r) ==
  /\ reader[r].busy
  /\ reader' = [reader EXCEPT ![r] = NoRead]
  /\ UNCHANGED <<disk, cache, latestVersion, call, tree>>

-----------------------------------------------------------------------------
Init ==
  /\ saved = [v \in Versions |-> Nothing] /\ newest = 0
  /\ index = NoNodes /\ batch = NoWrites
  /\ dict = NoNodes /\ ll = <<>>
  /\ latestVersion = 0
  /\ phase = "idle" /\ writes = {} /\ deletes = {} /\ unsettled = {}
  /\ working = Nothing /\ additions = NoNodes /\ removals = {}
  /\ reader = [r \in Readers |-> NoRead]

Next ==
  \/ \E k \in Keys :
       \/ \E x \in Values : Set(k, x)
       \/ Remove(k) \/ SaveFastNode(k) \/ DeleteFastNode(k) \/ SaveFastNodeNoCache(k)
  \/ SaveVersion \/ CommitSave \/ resetLatestVersion \/ CommitRebuild
  \/ \E v \in Versions : LoadVersionForOverwriting(v)
  \/ \E r \in Readers :
       \/ \E v \in Versions, k \in Keys : GetFastNode(r, v, k)
       \/ Return(r)

Spec == Init /\ [][Next]_vars

-----------------------------------------------------------------------------
(* TypeOK: the list of the cache has the keys of its map, each one once,   *)
(* and never more than its limit.                                          *)
TypeOK ==
  /\ \A k \in Keys :
       /\ index[k] \in FastNodes \cup {NoNode}
       /\ dict[k] \in FastNodes \cup {NoNode}
       /\ batch[k] \in FastNodes \cup {NoNode, NoWrite}
  /\ latestVersion \in Versions /\ newest \in Versions
  /\ Len(ll) <= CacheSize
  /\ {ll[i] : i \in DOMAIN ll} = {k \in Keys : dict[k] # NoNode}
  /\ \A i, j \in DOMAIN ll : ll[i] = ll[j] => i = j

(* CacheIsIndex: when the writer is done, the cache holds nothing but      *)
(* nodes of the index, whatever the readers brought into it meanwhile and  *)
(* whatever it had to drop; and the index is the live state.               *)
CacheIsIndex ==
  phase = "idle" =>
    \A k \in Keys : /\ dict[k] # NoNode => dict[k] = index[k]
                    /\ index[k].value = saved[newest][k]

(* ReadsAreTrue: a Get of a version that is not deleted returns what the   *)
(* version holds, whatever the writer has done since the Get looked into   *)
(* the cache, and whichever version the node it found there is of.         *)
ReadsAreTrue ==
  \A r \in Readers :
    reader[r].busy => Answer(reader[r]) = saved[reader[r].version][reader[r].key]
=============================================================================
