---------------------------- MODULE FastStorage -----------------------------
(***************************************************************************)
(* The fast index of MutableTree: a copy, keyed by key, of the live state, *)
(* which Get, GetVersioned and the iterators read instead of the tree.     *)
(*                                                                         *)
(* The index is only right by agreement of several pieces of state: the    *)
(* versions on disk, the index on disk, the label that names the version   *)
(* the index was last written for, and the additions and removals that     *)
(* the working tree has not saved yet.  The module has all of them, and    *)
(* the process restarts, the switch skipFastStorageUpgrade and the partial *)
(* batch writes that can set them apart.                                   *)
(*                                                                         *)
(* A tree is what it holds: a function from every key to a value or        *)
(* NoValue.  AVLTree shows that the nodes keep that promise.               *)
(***************************************************************************)
EXTENDS Integers

CONSTANTS
  Keys,         \* byte strings, as numbers in the same order
  Values,       \* values that can be stored
  NoValue,      \* nil
  MaxVersion,   \* bound: no later version is saved
  OldVersions,  \* bound: versions a database from before the index may have
  Hazards       \* the patterns of use, out of HazardNames, that may happen

HazardNames == {"upgradeOld", "restamp", "reload"}

ASSUME KeysAssumption == Keys \subseteq Nat
ASSUME NoValueAssumption == NoValue \notin Values
ASSUME MaxVersionAssumption ==
  MaxVersion \in Nat /\ OldVersions \in Nat /\ OldVersions <= MaxVersion
ASSUME HazardsAssumption == Hazards \subseteq HazardNames

VARIABLES
  \* On disk.
  saved,        \* what each version holds
  first,        \* the oldest version, 0 if there is none
  latest,       \* the newest version, 0 if there is none
  fastVal,      \* the index: the value of each key
  fastVer,      \* the index: the version each key was last updated at
  label,        \* the version in the storage version "1.1.0-<version>"
  \* In memory.
  skip,         \* skipFastStorageUpgrade
  phase,        \* what the process is doing
  version,      \* the version of the working tree
  working,      \* what the working tree holds
  addVal,       \* unsavedFastNodeAdditions: the value of each key
  addVer,       \* unsavedFastNodeAdditions: the version of each key
  removals      \* unsavedFastNodeRemovals

disk == <<saved, first, latest, fastVal, fastVer, label>>
unsaved == <<addVal, addVer, removals>>
vars == <<disk, skip, phase, version, working, unsaved>>

Versions == 0 .. MaxVersion
Contents == [Keys -> Values \cup {NoValue}]
Nothing == [k \in Keys |-> NoValue]
NoVersion == [k \in Keys |-> 0]

(* The storage version "1.0.0", which names no version.                    *)
NoLabel == -1

(* "new": NewMutableTree was called; "idle": between two calls; "delete"   *)
(* and "rebuild": LoadVersionForOverwriting before its second and its      *)
(* third commit.                                                           *)
Phases == {"new", "idle", "delete", "rebuild"}

Init ==
  /\ latest \in 0 .. OldVersions
  /\ first = IF latest = 0 THEN 0 ELSE 1
  /\ \E old \in [1 .. latest -> Contents] :
       saved = [v \in Versions |-> IF v \in 1 .. latest THEN old[v] ELSE Nothing]
  /\ fastVal = Nothing /\ fastVer = NoVersion /\ label = NoLabel
  /\ skip \in BOOLEAN
  /\ phase = "new" /\ version = 0 /\ working = Nothing
  /\ addVal = Nothing /\ addVer = NoVersion /\ removals = {}

Live == {v \in first .. latest : v > 0}

(* hasUpgradedToFastStorage.                                               *)
Upgraded == label # NoLabel

(* IsUpgradeable: the index was never built, or its label does not name    *)
(* the latest version.                                                     *)
IsUpgradeable == ~skip /\ (~Upgraded \/ label # latest)

(* Neither additions nor removals wait for the next SaveVersion.           *)
NothingUnsaved == addVal = Nothing /\ removals = {}

(* When v becomes the latest version, the label says that the index is up  *)
(* to date, although this process does not write the index.                *)
Restamps(v) == skip /\ label = v /\ latest # v

-----------------------------------------------------------------------------
(* Changes of the working tree.                                            *)

(* Mutant: the fast node has the version of the tree, not the next.        *)
Set_TreeVersion(k, v) ==
  /\ phase = "idle"
  /\ working' = [working EXCEPT ![k] = v]
  /\ IF skip THEN UNCHANGED unsaved
     ELSE /\ addVal' = [addVal EXCEPT ![k] = v]
          /\ addVer' = [addVer EXCEPT ![k] = version]
          /\ removals' = removals \ {k}
  /\ UNCHANGED <<disk, skip, phase, version>>

Set(k, v) ==
  /\ phase = "idle"
  /\ working' = [working EXCEPT ![k] = v]
  /\ IF skip THEN UNCHANGED unsaved
     ELSE /\ addVal' = [addVal EXCEPT ![k] = v]
          /\ addVer' = [addVer EXCEPT ![k] = version + 1]
          /\ removals' = removals \ {k}
  /\ UNCHANGED <<disk, skip, phase, version>>

Remove(k) ==
  /\ phase = "idle"
  /\ working[k] # NoValue
  /\ working' = [working EXCEPT ![k] = NoValue]
  /\ IF skip THEN UNCHANGED unsaved
     ELSE /\ addVal' = [addVal EXCEPT ![k] = NoValue]
          /\ addVer' = [addVer EXCEPT ![k] = 0]
          /\ removals' = removals \cup {k}
  /\ UNCHANGED <<disk, skip, phase, version>>

(* Mutant: the unsaved additions and removals survive.                     *)
Rollback_KeepsUnsaved ==
  /\ phase = "idle"
  /\ working' = IF version > 0 THEN saved[version] ELSE Nothing
  /\ UNCHANGED <<disk, skip, phase, version, unsaved>>

(* Rollback goes back to lastSaved, which is the version that was loaded   *)
(* or saved last.                                                          *)
Rollback ==
  /\ phase = "idle"
  /\ working' = IF version > 0 THEN saved[version] ELSE Nothing
  /\ IF skip THEN UNCHANGED unsaved
     ELSE addVal' = Nothing /\ addVer' = NoVersion /\ removals' = {}
  /\ UNCHANGED <<disk, skip, phase, version>>

-----------------------------------------------------------------------------
(* SaveVersion.                                                            *)

VersionExists(v) == first <= v /\ v <= latest

(* The index after saveFastNodeAdditions and saveFastNodeRemovals have     *)
(* written the additions in adds and the removals in rems.                 *)
FastValAfter(adds, rems) ==
  [k \in Keys |-> CASE k \in rems -> NoValue
                    [] k \in adds \ rems -> addVal[k]
                    [] OTHER -> fastVal[k]]

FastVerAfter(adds, rems) ==
  [k \in Keys |-> CASE k \in rems -> 0
                    [] k \in adds \ rems -> addVer[k]
                    [] OTHER -> fastVer[k]]

Additions == {k \in Keys : addVal[k] # NoValue}

(* The version does not exist yet.  One batch holds the index, its label   *)
(* and the tree.                                                           *)
SaveNewVersion ==
  /\ phase = "idle"
  /\ version < MaxVersion
  /\ ~VersionExists(version + 1)
  /\ Restamps(version + 1) => "restamp" \in Hazards
  /\ saved' = [saved EXCEPT ![version + 1] = working]
  /\ first' = IF first = 0 THEN version + 1 ELSE first
  /\ latest' = version + 1
  /\ version' = version + 1
  /\ IF skip THEN UNCHANGED <<fastVal, fastVer, label, unsaved>>
     ELSE /\ fastVal' = FastValAfter(Additions, removals)
          /\ fastVer' = FastVerAfter(Additions, removals)
          /\ label' = version + 1
          /\ addVal' = Nothing /\ addVer' = NoVersion /\ removals' = {}
  /\ UNCHANGED <<skip, phase, working>>

(* The version exists and has the hash of the working tree, which implies  *)
(* that it holds the same: SaveVersion moves on to it.  The additions and  *)
(* the removals stay.  A different hash is an error and changes nothing.   *)
SaveExistingVersion ==
  /\ phase = "idle"
  /\ VersionExists(version + 1)
  /\ saved[version + 1] = working
  /\ version' = version + 1
  /\ UNCHANGED <<disk, skip, phase, working, unsaved>>

-----------------------------------------------------------------------------
(* Loading.                                                                *)

(* The version of every entry that a copy of t at version v makes.         *)
EntriesAt(t, v) == [k \in Keys |-> IF t[k] = NoValue THEN 0 ELSE v]

(* Mutant: the entries that are there are not deleted first.               *)
enableFastStorage_NoDelete(t, v) ==
  IF IsUpgradeable
  THEN /\ fastVal' = [k \in Keys |-> IF t[k] = NoValue THEN fastVal[k] ELSE t[k]]
       /\ fastVer' = [k \in Keys |-> IF t[k] = NoValue THEN fastVer[k] ELSE v]
       /\ label' = latest
  ELSE UNCHANGED <<fastVal, fastVer, label>>

(* enableFastStorageAndCommitIfNotEnabled, for the tree t of version v:    *)
(* every entry of the index is deleted, the tree is copied, and the label  *)
(* is the latest version.                                                  *)
enableFastStorage(t, v) ==
  IF IsUpgradeable
  THEN fastVal' = t /\ fastVer' = EntriesAt(t, v) /\ label' = latest
  ELSE UNCHANGED <<fastVal, fastVer, label>>

(* LoadVersion(target): 0 stands for the latest version.  With no version  *)
(* on disk the working tree stays as it is.                                *)
Load(target) ==
  LET v == IF target = 0 THEN latest ELSE target
      t == IF first = 0 THEN working ELSE saved[v]
  IN  /\ target = 0 \/ VersionExists(target)
      /\ NothingUnsaved \/ "reload" \in Hazards
      /\ IsUpgradeable /\ v # latest => "upgradeOld" \in Hazards
      /\ version' = IF first = 0 THEN version ELSE v
      /\ working' = t
      /\ enableFastStorage(t, v)
      /\ UNCHANGED <<saved, first, latest, skip, unsaved>>

LoadVersion(target) ==
  /\ phase \in {"new", "idle"}
  /\ Load(target)
  /\ phase' = "idle"

(* LoadVersionForOverwriting(target) commits three times: LoadVersion,     *)
(* DeleteVersionsFrom(target + 1), and the rebuild of the index that the   *)
(* label, now above the latest version, calls for.                         *)
LoadVersionForOverwriting(target) ==
  /\ phase \in {"new", "idle"}
  /\ target > 0
  /\ Restamps(target) => "restamp" \in Hazards
  /\ Load(target)
  /\ phase' = "delete"

DeleteVersionsFrom ==
  /\ phase = "delete"
  /\ saved' = [v \in Versions |-> IF v > version THEN Nothing ELSE saved[v]]
  /\ latest' = version
  /\ phase' = "rebuild"
  /\ UNCHANGED <<first, fastVal, fastVer, label, skip, version, working, unsaved>>

RebuildAfterOverwriting ==
  /\ phase = "rebuild"
  /\ enableFastStorage(working, version)
  /\ phase' = "idle"
  /\ UNCHANGED <<saved, first, latest, skip, version, working, unsaved>>

(* DeleteVersionsTo(to) refuses to delete the latest version.  Deleting    *)
(* the version that is loaded takes the nodes from under the working tree, *)
(* which has none here: that is left to NodeDB.                            *)
DeleteVersionsTo(to) ==
  /\ phase = "idle"
  /\ 0 < first /\ first <= to /\ to < latest /\ to < version
  /\ first' = to + 1
  /\ UNCHANGED <<saved, latest, fastVal, fastVer, label, skip, phase, version, working, unsaved>>

-----------------------------------------------------------------------------
(* The process ends, in any phase, and another one opens the database.     *)

Restart ==
  /\ skip' \in BOOLEAN
  /\ phase' = "new" /\ version' = 0 /\ working' = Nothing
  /\ addVal' = Nothing /\ addVer' = NoVersion /\ removals' = {}

Crash == Restart /\ UNCHANGED disk

(* The process ends while enableFastStorageAndCommit fills a batch, after  *)
(* the batch wrote itself out: all entries up to some key are deleted, or  *)
(* all are deleted and those of the tree are written up to some key.       *)
CrashInUpgrade(t, v, k) ==
  /\ IsUpgradeable
  /\ \/ /\ fastVal' = [x \in Keys |-> IF x <= k THEN NoValue ELSE fastVal[x]]
        /\ fastVer' = [x \in Keys |-> IF x <= k THEN 0 ELSE fastVer[x]]
     \/ /\ fastVal' = [x \in Keys |-> IF x <= k THEN t[x] ELSE NoValue]
        /\ fastVer' = EntriesAt(fastVal', v)
  /\ Restart
  /\ UNCHANGED <<saved, first, latest, label>>

CrashInLoad(target, k) ==
  /\ phase = "new"
  /\ VersionExists(target)
  /\ CrashInUpgrade(saved[target], target, k)

CrashInRebuild(k) ==
  /\ phase = "rebuild"
  /\ CrashInUpgrade(working, version, k)

(* The process ends while SaveVersion fills a batch, after the batch wrote *)
(* itself out: the additions up to some key, or all of them and the        *)
(* removals up to some key, are on disk and the label is not.              *)
CrashInSave(k) ==
  /\ phase = "idle"
  /\ ~skip
  /\ ~VersionExists(version + 1)
  /\ \/ /\ fastVal' = FastValAfter({x \in Additions : x <= k}, {})
        /\ fastVer' = FastVerAfter({x \in Additions : x <= k}, {})
     \/ /\ fastVal' = FastValAfter(Additions, {x \in removals : x <= k})
        /\ fastVer' = FastVerAfter(Additions, {x \in removals : x <= k})
  /\ Restart
  /\ UNCHANGED <<saved, first, latest, label>>

Next ==
  \/ \E k \in Keys, v \in Values : Set(k, v)
  \/ \E k \in Keys : Remove(k) \/ CrashInRebuild(k)
  \/ \E k \in Keys, v \in Versions : CrashInLoad(v, k)
  \/ \E v \in Versions : LoadVersion(v) \/ LoadVersionForOverwriting(v) \/ DeleteVersionsTo(v)
  \/ Rollback \/ SaveNewVersion \/ SaveExistingVersion
  \/ DeleteVersionsFrom \/ RebuildAfterOverwriting \/ Crash

Spec == Init /\ [][Next]_vars

(* As Spec, with batches of SaveVersion that pass the flush threshold.     *)
SplitSpec == Init /\ [][Next \/ \E k \in Keys : CrashInSave(k)]_vars

-----------------------------------------------------------------------------
(* Reading.                                                                *)

(* ImmutableTree.Get of the tree that holds t at version v.                *)
ImmutableGet(t, v, k) ==
  CASE t = Nothing -> NoValue
    [] t # Nothing /\ (skip \/ ~Upgraded) -> t[k]
    [] t # Nothing /\ ~skip /\ Upgraded /\ fastVal[k] = NoValue ->
         IF v = latest THEN NoValue ELSE t[k]
    [] OTHER -> IF fastVer[k] <= v THEN fastVal[k] ELSE t[k]

(* MutableTree.Get.                                                        *)
Get(k) ==
  CASE working = Nothing -> NoValue
    [] working # Nothing /\ ~skip /\ addVal[k] # NoValue -> addVal[k]
    [] working # Nothing /\ ~skip /\ addVal[k] = NoValue /\ k \in removals -> NoValue
    [] OTHER -> ImmutableGet(working, version, k)

IsFastCacheEnabled == ~skip /\ version = latest /\ Upgraded

(* MutableTree.GetVersioned of a live version.                             *)
GetVersioned(k, v) ==
  CASE IsFastCacheEnabled /\ fastVal[k] = NoValue /\ v = latest -> NoValue
    [] IsFastCacheEnabled /\ fastVal[k] # NoValue /\ fastVer[k] <= v -> fastVal[k]
    [] OTHER -> ImmutableGet(saved[v], v, k)

(* What MutableTree.Iterator yields: the index under the unsaved changes,  *)
(* or the tree.                                                            *)
Iterated ==
  IF IsFastCacheEnabled THEN FastValAfter(Additions, removals) ELSE working

-----------------------------------------------------------------------------
TypeOK ==
  /\ saved \in [Versions -> Contents]
  /\ first \in Versions /\ latest \in Versions
  /\ fastVal \in Contents /\ fastVer \in [Keys -> Versions]
  /\ label \in Versions \cup {NoLabel}
  /\ skip \in BOOLEAN /\ phase \in Phases
  /\ version \in Versions /\ working \in Contents
  /\ addVal \in Contents /\ addVer \in [Keys -> 0 .. MaxVersion + 1]
  /\ removals \in SUBSET Keys

(* IndexIsLive: a label that names the latest version tells the truth: the *)
(* index holds exactly what that version holds.  LoadVersion trusts it and *)
(* rebuilds the index only when the label names another version.           *)
IndexIsLive == label = latest => fastVal = saved[latest]

(* ReadsAgree: between two calls, MutableTree.Get returns what the working *)
(* tree holds, whichever of the unsaved additions, the unsaved removals,   *)
(* the index and the tree it reads, and an iterator yields exactly the     *)
(* working tree, also when it merges the index with the unsaved changes.   *)
ReadsAgree ==
  phase = "idle" => (\A k \in Keys : Get(k) = working[k]) /\ Iterated = working

(* GetVersionedAgrees: GetVersioned returns what the version held when it  *)
(* was saved, also when it answers from the index, which may have been     *)
(* updated since then.                                                     *)
GetVersionedAgrees ==
  phase = "idle" => \A v \in Live, k \in Keys : GetVersioned(k, v) = saved[v][k]

(* What the users of a MutableTree see: the working tree through Get, and  *)
(* the versions through GetVersioned.  Nobody reads in the middle of a     *)
(* call.                                                                   *)
Seen == IF phase = "idle" THEN [k \in Keys |-> Get(k)] ELSE working
SeenVersions == [v \in Live |-> IF phase = "idle" THEN [k \in Keys |-> GetVersioned(k, v)] ELSE saved[v]]

Map == INSTANCE VersionedMap WITH vers <- SeenVersions, working <- Seen

(* A MutableTree read through the index is a versioned map: no reader can  *)
(* tell that there is an index, whatever process wrote it, rebuilt it or   *)
(* ended in the middle of that.                                            *)
ImplementsVersionedMap == Map!Spec
=============================================================================
