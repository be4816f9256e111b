------------------------- MODULE FastStorageProofs --------------------------
(***************************************************************************)
(* The index is right for any keys, values and number of versions, as long *)
(* as none of the hazards happens.                                         *)
(***************************************************************************)
EXTENDS FastStorage, TLAPS

(* A leaf is for Zenon unless it names the SMT solver; each prover has up to
   sixty seconds, so that no proof depends on the speed of a machine.       *)
USE ZenonT(60)

NoHazards == Hazards = {}

-----------------------------------------------------------------------------
(* The inductive invariant.                                                *)

(* The live versions are an interval, and the version 0 holds nothing.     *)
IntervalInv ==
  /\ first <= latest
  /\ first = 0 <=> latest = 0
  /\ saved[0] = Nothing

(* Where the working tree is, in each phase.                               *)
PhaseInv ==
  /\ version <= latest
  /\ phase # "new" => first <= version
  /\ phase = "new" => version = 0 /\ working = Nothing
  /\ phase # "idle" => NothingUnsaved
  /\ skip => NothingUnsaved
  /\ phase \in {"delete", "rebuild"} => working = saved[version] /\ version > 0
  /\ phase = "rebuild" => version = latest
  /\ phase = "delete" /\ label = version => latest = version
  /\ phase \in {"idle", "delete"} /\ ~skip => label = latest

(* A label that names the latest version vouches for the values of the     *)
(* index, and for the versions from which each value has been the same.    *)
ExactInv ==
  label = latest =>
    \A k \in Keys :
      /\ fastVal[k] = saved[latest][k]
      /\ fastVal[k] # NoValue =>
           \A v \in Versions :
             first <= v /\ v <= latest /\ fastVer[k] <= v => saved[v][k] = fastVal[k]

(* The unsaved additions and removals are the difference between the       *)
(* working tree and its version.                                           *)
UnsavedInv ==
  phase = "idle" /\ ~skip =>
    \A k \in Keys :
      /\ addVal[k] # NoValue =>
           /\ working[k] = addVal[k]
           /\ k \notin removals
           /\ addVer[k] <= version + 1
           /\ \A v \in Versions :
                first <= v /\ v <= version /\ addVer[k] <= v => saved[v][k] = addVal[k]
      /\ k \in removals => working[k] = NoValue
      /\ addVal[k] = NoValue /\ k \notin removals => working[k] = saved[version][k]

IndInv == TypeOK /\ IntervalInv /\ PhaseInv /\ ExactInv /\ UnsavedInv
-----------------------------------------------------------------------------
(* The invariant holds initially: the database is empty, or was written    *)
(* before there was an index.                                              *)
LEMMA InitInv == Init => IndInv
<1> SUFFICES ASSUME Init PROVE IndInv
  OBVIOUS
<1> USE NoValueAssumption, MaxVersionAssumption
<1>0. Nothing \in Contents /\ NoVersion \in [Keys -> Versions]
  BY SMTT(60) DEF Nothing, NoVersion, Contents, Versions
<1>1. TypeOK
  BY SMTT(60), <1>0 DEF Init, TypeOK, Versions, NoLabel, Phases, Contents, NoVersion
<1>2. IntervalInv
  BY SMTT(60) DEF Init, IntervalInv, Versions
<1>3. PhaseInv /\ ExactInv /\ UnsavedInv
  BY SMTT(60) DEF Init, PhaseInv, ExactInv, UnsavedInv, NothingUnsaved, NoLabel
<1> QED
  BY <1>1, <1>2, <1>3 DEF IndInv

(* Set keeps the unsaved additions in step with the working tree.          *)
LEMMA SetInv ==
  ASSUME IndInv, NEW k \in Keys, NEW v \in Values, Set(k, v)
  PROVE  IndInv'
<1> USE NoValueAssumption, MaxVersionAssumption DEF Set, disk, unsaved, IndInv
<1>1. TypeOK'
  <2>1. working' \in Contents /\ addVal' \in Contents
    BY SMTT(60) DEF TypeOK, Contents
  <2>2. addVer' \in [Keys -> 0 .. MaxVersion + 1]
    <3>1. version + 1 \in 0 .. MaxVersion + 1 /\ 0 \in 0 .. MaxVersion + 1
      BY SMTT(60) DEF TypeOK, Versions
    <3> QED
      BY <3>1 DEF TypeOK
  <2>3. removals' \in SUBSET Keys
    BY DEF TypeOK
  <2>4. saved' = saved /\ first' = first /\ latest' = latest /\ fastVal' = fastVal
        /\ fastVer' = fastVer /\ label' = label /\ skip' = skip /\ phase' = phase
        /\ version' = version
    OBVIOUS
  <2> QED
    BY <2>1, <2>2, <2>3, <2>4 DEF TypeOK
<1>2. IntervalInv' /\ ExactInv'
  BY DEF IntervalInv, ExactInv
<1>3. PhaseInv'
  BY DEF PhaseInv, NothingUnsaved
<1>4. UnsavedInv'
  BY SMTT(60) DEF UnsavedInv, TypeOK, Contents, Versions
<1> QED
  BY <1>1, <1>2, <1>3, <1>4

(* Remove keeps the unsaved removals in step with the working tree.        *)
LEMMA RemoveInv ==
  ASSUME IndInv, NEW k \in Keys, Remove(k)
  PROVE  IndInv'
<1> USE NoValueAssumption, MaxVersionAssumption DEF Remove, disk, unsaved, IndInv
<1>1. TypeOK'
  <2>1. working' \in Contents /\ addVal' \in Contents
    BY DEF TypeOK, Contents
  <2>2. addVer' \in [Keys -> 0 .. MaxVersion + 1]
    <3>1. version + 1 \in 0 .. MaxVersion + 1 /\ 0 \in 0 .. MaxVersion + 1
      BY SMTT(60) DEF TypeOK, Versions
    <3> QED
      BY <3>1 DEF TypeOK
  <2>3. removals' \in SUBSET Keys
    BY DEF TypeOK
  <2>4. saved' = saved /\ first' = first /\ latest' = latest /\ fastVal' = fastVal
        /\ fastVer' = fastVer /\ label' = label /\ skip' = skip /\ phase' = phase
        /\ version' = version
    OBVIOUS
  <2> QED
    BY <2>1, <2>2, <2>3, <2>4 DEF TypeOK
<1>2. IntervalInv' /\ ExactInv'
  BY DEF IntervalInv, ExactInv
<1>3. PhaseInv'
  BY DEF PhaseInv, NothingUnsaved
<1>4. UnsavedInv'
  BY SMTT(60) DEF UnsavedInv, TypeOK, Contents, Versions
<1> QED
  BY <1>1, <1>2, <1>3, <1>4

(* Rollback returns to the version and forgets the difference to it.       *)
LEMMA RollbackInv ==
  ASSUME IndInv, Rollback
  PROVE  IndInv'
<1> USE NoValueAssumption, MaxVersionAssumption DEF Rollback, disk, unsaved, IndInv
<1>0. Nothing \in Contents /\ NoVersion \in [Keys -> 0 .. MaxVersion + 1]
  BY SMTT(60) DEF Nothing, NoVersion, Contents
<1>1. TypeOK'
  BY <1>0 DEF TypeOK, Versions
<1>2. IntervalInv' /\ ExactInv'
  BY DEF IntervalInv, ExactInv
<1>3. PhaseInv'
  BY DEF PhaseInv, NothingUnsaved
<1>4. UnsavedInv'
  BY SMTT(60) DEF UnsavedInv, IntervalInv, TypeOK, Nothing, Versions
<1> QED
  BY <1>1, <1>2, <1>3, <1>4

(* A new version is saved only on top of the latest one.                   *)
LEMMA SavesOnTop ==
  ASSUME IndInv, SaveNewVersion
  PROVE  version = latest
BY SMTT(60) DEF IndInv, TypeOK, PhaseInv, SaveNewVersion, VersionExists, Versions

(* SaveVersion writes the difference to the index, so that the index       *)
(* holds the new version, and labels it; a process that skips the index    *)
(* leaves a label that does not name the new version.                      *)
LEMMA SaveNewVersionInv ==
  ASSUME NoHazards, IndInv, SaveNewVersion
  PROVE  IndInv'
<1> USE NoValueAssumption, MaxVersionAssumption DEF SaveNewVersion, unsaved, IndInv
<1>0. Nothing \in Contents /\ NoVersion \in [Keys -> 0 .. MaxVersion + 1]
  BY SMTT(60) DEF Nothing, NoVersion, Contents
<1>a. version = latest /\ version + 1 \in Versions /\ version \in Versions
  BY SMTT(60), SavesOnTop DEF TypeOK, Versions
<1>1. TypeOK'
  <2>1. (saved \in [Versions -> Contents])'
    BY <1>a DEF TypeOK
  <2>2. (first \in Versions /\ latest \in Versions /\ version \in Versions)'
    BY <1>a DEF TypeOK
  <2>3. (fastVal \in Contents)'
    BY DEF TypeOK, FastValAfter, Contents
  <2>4. (fastVer \in [Keys -> Versions])'
    <3>1. CASE skip
      BY <3>1 DEF TypeOK
    <3>2. CASE ~skip
      <4> SUFFICES ASSUME NEW k \in Keys
                   PROVE  FastVerAfter(Additions, removals)[k] \in Versions
        BY <3>2 DEF FastVerAfter
      <4>1. addVal[k] # NoValue => addVer[k] \in Versions
        BY SMTT(60), <1>a, <3>2 DEF UnsavedInv, TypeOK, Versions
      <4> QED
        BY SMTT(60), <4>1 DEF FastVerAfter, Additions, TypeOK, Versions
    <3> QED
      BY <3>1, <3>2 DEF TypeOK
  <2>5. (addVal \in Contents /\ addVer \in [Keys -> 0 .. MaxVersion + 1])'
    BY <1>0 DEF TypeOK
  <2> QED
    BY <1>a, <2>1, <2>2, <2>3, <2>4, <2>5 DEF TypeOK
<1>2. IntervalInv'
  BY SMTT(60), <1>a DEF IntervalInv, TypeOK, Versions
<1>3. PhaseInv'
  BY SMTT(60), <1>a DEF PhaseInv, NothingUnsaved, TypeOK, Versions, IntervalInv
<1>4. ExactInv'
  <2>1. CASE skip
    BY SMTT(60), <1>a, <2>1 DEF ExactInv, Restamps, NoHazards, TypeOK, Versions
  <2>2. CASE ~skip
    <3> SUFFICES ASSUME NEW k \in Keys
                 PROVE  /\ fastVal'[k] = working[k]
                        /\ fastVal'[k] # NoValue =>
                             \A v \in Versions :
                               first' <= v /\ v <= version + 1 /\ fastVer'[k] <= v
                                 => saved'[v][k] = fastVal'[k]
      BY <1>a, <2>2 DEF ExactInv, TypeOK
    <3>0. fastVal'[k] = FastValAfter(Additions, removals)[k] /\ fastVer'[k] = FastVerAfter(Additions, removals)[k]
      BY <2>2
    <3>a. \A v \in Versions : saved'[v] = IF v = version + 1 THEN working ELSE saved[v]
      BY <1>a DEF TypeOK
    <3>1. CASE k \in removals
      BY <2>2, <3>1 DEF FastValAfter, UnsavedInv
    <3>2. CASE k \notin removals /\ addVal[k] # NoValue
      <4>1. fastVal'[k] = addVal[k] /\ fastVer'[k] = addVer[k]
        BY <3>0, <3>2 DEF FastValAfter, FastVerAfter, Additions
      <4>2. working[k] = addVal[k]
        BY <2>2, <3>2 DEF UnsavedInv
      <4>3. ASSUME NEW v \in Versions, first' <= v, v <= version, addVer[k] <= v
            PROVE  saved[v][k] = addVal[k]
        <5>1. first <= v
          BY SMTT(60), <4>3, <1>a DEF TypeOK, Versions
        <5> QED
          BY <2>2, <3>2, <4>3, <5>1 DEF UnsavedInv
      <4> QED
        BY SMTT(60), <1>a, <3>a, <4>1, <4>2, <4>3 DEF Versions
    <3>3. CASE k \notin removals /\ addVal[k] = NoValue
      <4>1. fastVal'[k] = fastVal[k] /\ fastVer'[k] = fastVer[k]
        BY <3>0, <3>3 DEF FastValAfter, FastVerAfter, Additions
      <4>2. working[k] = saved[latest][k] /\ fastVal[k] = saved[latest][k]
        BY <1>a, <2>2, <3>3 DEF UnsavedInv, PhaseInv, ExactInv
      <4>3. ASSUME NEW v \in Versions, first' <= v, v <= version,
                   fastVer[k] <= v, fastVal[k] # NoValue
            PROVE  saved[v][k] = fastVal[k]
        <5>1. first <= v
          BY SMTT(60), <4>3, <1>a DEF TypeOK, Versions
        <5> QED
          BY <1>a, <2>2, <4>3, <5>1 DEF ExactInv, PhaseInv
      <4> QED
        BY SMTT(60), <1>a, <3>a, <4>1, <4>2, <4>3 DEF Versions
    <3> QED
      BY <3>1, <3>2, <3>3
  <2> QED
    BY <2>1, <2>2
<1>5. UnsavedInv'
  BY SMTT(60), <1>a DEF UnsavedInv, TypeOK, Nothing
<1> QED
  BY <1>1, <1>2, <1>3, <1>4, <1>5

(* Moving on to a version that exists leaves additions and removals that   *)
(* are also true of that version.                                          *)
LEMMA SaveExistingVersionInv ==
  ASSUME IndInv, SaveExistingVersion
  PROVE  IndInv'
<1> USE NoValueAssumption, MaxVersionAssumption DEF SaveExistingVersion, VersionExists, disk, unsaved, IndInv
<1>1. TypeOK'
  BY SMTT(60) DEF TypeOK, Versions
<1>2. IntervalInv' /\ ExactInv'
  BY DEF IntervalInv, ExactInv
<1>3. PhaseInv'
  BY DEF PhaseInv, NothingUnsaved, TypeOK, Versions
<1>4. UnsavedInv'
  BY SMTT(60) DEF UnsavedInv, TypeOK, Versions
<1> QED
  BY <1>1, <1>2, <1>3, <1>4
(* LoadVersion, alone or as the first part of LoadVersionForOverwriting:   *)
(* the index is right afterwards, because the label named the latest       *)
(* version or the index was rebuilt from it.                               *)
LEMMA LoadInv ==
  ASSUME NoHazards, IndInv, NEW target \in Versions, Load(target),
         phase \in {"new", "idle"},
         \/ phase' = "idle"
         \/ phase' = "delete" /\ target > 0 /\ ~Restamps(target)
  PROVE  IndInv'
<1> DEFINE v == IF target = 0 THEN latest ELSE target
           t == IF first = 0 THEN working ELSE saved[v]
<1> USE NoValueAssumption, MaxVersionAssumption DEF IndInv
<1>0. /\ NothingUnsaved /\ (IsUpgradeable => v = latest)
      /\ target = 0 \/ VersionExists(target)
      /\ version' = IF first = 0 THEN version ELSE v
      /\ working' = t /\ enableFastStorage(t, v)
      /\ UNCHANGED <<saved, first, latest, skip, addVal, addVer, removals>>
  BY DEF Load, NoHazards, unsaved
<1>1. v \in Versions /\ t \in Contents /\ v <= latest /\ (first # 0 => first <= v)
  BY SMTT(60), <1>0 DEF TypeOK, Versions, IntervalInv, VersionExists
<1>2. first = 0 => v = 0 /\ version = 0 /\ latest = 0
  BY SMTT(60), <1>0 DEF IntervalInv, VersionExists, PhaseInv, TypeOK, Versions
<1>3. ~skip => t = saved[v] /\ t = saved[version']
  <2>1. CASE first # 0
    BY <1>0, <2>1
  <2>2. CASE first = 0 /\ phase = "new"
    BY <1>0, <1>2, <2>2 DEF PhaseInv, IntervalInv
  <2>3. CASE first = 0 /\ phase = "idle" /\ ~skip
    <3>1. \A k \in Keys : working[k] = saved[version][k]
      BY <1>0, <2>3 DEF UnsavedInv, NothingUnsaved, Nothing, TypeOK
    <3>2. working = saved[version]
      BY SMTT(60), <3>1 DEF TypeOK, Contents
    <3> QED
      BY <1>0, <1>2, <2>3, <3>2
  <2> QED
    BY <2>1, <2>2, <2>3
<1>4. TypeOK'
  <2>1. (fastVal \in Contents /\ fastVer \in [Keys -> Versions] /\ label \in Versions \cup {NoLabel})'
    BY SMTT(60), <1>0, <1>1 DEF TypeOK, enableFastStorage, EntriesAt, Versions
  <2>2. (version \in Versions /\ working \in Contents)'
    BY <1>0, <1>1 DEF TypeOK
  <2> QED
    BY <1>0, <2>1, <2>2 DEF TypeOK, Phases
<1>5. IntervalInv'
  BY <1>0 DEF IntervalInv
<1>6. (~skip => label = latest)'
  BY <1>0 DEF enableFastStorage, IsUpgradeable
<1>7. PhaseInv'
  <2>1. (phase = "delete" => working = saved[version] /\ version > 0)'
    <3> SUFFICES ASSUME phase' = "delete"
                 PROVE  first # 0
      BY SMTT(60), <1>0, <1>1 DEF TypeOK, Versions, IntervalInv
    <3> QED
      BY SMTT(60), <1>0 DEF VersionExists, IntervalInv, TypeOK, Versions
  <2>2. (phase = "delete" /\ label = version => latest = version)'
    <3>1. CASE skip
      BY SMTT(60), <1>0, <3>1 DEF Restamps, enableFastStorage, IsUpgradeable, TypeOK, Versions, IntervalInv, VersionExists
    <3>2. CASE ~skip
      BY <1>0, <1>6, <3>2 DEF TypeOK
    <3> QED
      BY <3>1, <3>2
  <2>3. (version <= latest /\ first <= version)'
    BY <1>0, <1>1, <1>2 DEF TypeOK, Versions
  <2> QED
    BY <1>0, <1>6, <2>1, <2>2, <2>3 DEF PhaseInv, NothingUnsaved
<1>8. ExactInv'
  <2>1. CASE IsUpgradeable
    <3>1. v = latest /\ t = saved[latest]
      BY <1>0, <1>3, <2>1 DEF IsUpgradeable
    <3>2. fastVal' = saved[latest] /\ fastVer' = EntriesAt(saved[latest], latest)
      BY SMTT(60), <1>0, <2>1, <3>1 DEF enableFastStorage
    <3> QED
      BY SMTT(60), <1>0, <3>2 DEF ExactInv, EntriesAt, TypeOK, Versions
  <2>2. CASE ~IsUpgradeable
    BY <1>0, <2>2 DEF enableFastStorage, ExactInv
  <2> QED
    BY <2>1, <2>2
<1>9. UnsavedInv'
  BY <1>0, <1>3 DEF UnsavedInv, NothingUnsaved, Nothing
<1> QED
  BY <1>4, <1>5, <1>7, <1>8, <1>9

(* LoadVersion is Load, between two calls.                                 *)
LEMMA LoadVersionInv ==
  ASSUME NoHazards, IndInv, NEW target \in Versions, LoadVersion(target)
  PROVE  IndInv'
BY LoadInv DEF LoadVersion

(* LoadVersionForOverwriting begins with Load; no label is restamped.      *)
LEMMA LoadVersionForOverwritingInv ==
  ASSUME NoHazards, IndInv, NEW target \in Versions, LoadVersionForOverwriting(target)
  PROVE  IndInv'
BY LoadInv DEF LoadVersionForOverwriting, NoHazards

(* Deleting the later versions leaves a label above the latest version, or *)
(* deletes nothing.                                                        *)
LEMMA DeleteVersionsFromInv ==
  ASSUME IndInv, DeleteVersionsFrom
  PROVE  IndInv'
<1> USE NoValueAssumption, MaxVersionAssumption DEF DeleteVersionsFrom, unsaved, IndInv
<1>0. Nothing \in Contents
  BY DEF Nothing, Contents
<1>1. TypeOK'
  <2>1. saved' \in [Versions -> Contents]
    BY <1>0 DEF TypeOK
  <2> QED
    BY <2>1 DEF TypeOK, Phases
<1>2. IntervalInv'
  BY SMTT(60) DEF IntervalInv, PhaseInv, TypeOK, Versions
<1>3. PhaseInv'
  BY SMTT(60) DEF PhaseInv, NothingUnsaved, TypeOK, Versions
<1>4. ExactInv'
  <2> SUFFICES ASSUME label = version
               PROVE  ExactInv'
    BY DEF ExactInv
  <2>1. label = latest /\ latest' = latest
    BY DEF PhaseInv
  <2>2. \A w \in Versions : w <= latest => saved'[w] = saved[w]
    BY SMTT(60), <2>1 DEF TypeOK, Versions
  <2> QED
    BY SMTT(60), <2>1, <2>2 DEF ExactInv, TypeOK, Versions
<1>5. UnsavedInv'
  BY DEF UnsavedInv
<1> QED
  BY <1>1, <1>2, <1>3, <1>4, <1>5

(* The rebuild copies the version that is now the latest.                  *)
LEMMA RebuildInv ==
  ASSUME IndInv, RebuildAfterOverwriting
  PROVE  IndInv'
<1> USE NoValueAssumption, MaxVersionAssumption DEF RebuildAfterOverwriting, unsaved, IndInv
<1>0. working = saved[latest] /\ version = latest
  BY DEF PhaseInv
<1>1. TypeOK'
  <2>0. working \in Contents /\ version \in Versions /\ 0 \in Versions
    BY SMTT(60) DEF TypeOK, Versions
  <2>1. (fastVal \in Contents /\ fastVer \in [Keys -> Versions] /\ label \in Versions \cup {NoLabel})'
    BY <2>0 DEF TypeOK, enableFastStorage, EntriesAt
  <2> QED
    BY <2>1 DEF TypeOK, Phases
<1>2. IntervalInv'
  BY DEF IntervalInv
<1>3. PhaseInv'
  BY DEF PhaseInv, NothingUnsaved, enableFastStorage, IsUpgradeable, TypeOK, Versions
<1>4. ExactInv'
  <2>1. CASE IsUpgradeable
    <3>1. fastVal' = saved[latest] /\ fastVer' = EntriesAt(saved[latest], latest)
      BY <1>0, <2>1 DEF enableFastStorage
    <3> QED
      BY SMTT(60), <3>1 DEF EntriesAt, ExactInv, TypeOK, Versions
  <2>2. CASE ~IsUpgradeable
    BY <2>2 DEF enableFastStorage, ExactInv
  <2> QED
    BY <2>1, <2>2
<1>5. UnsavedInv'
  BY DEF UnsavedInv, PhaseInv, NothingUnsaved, Nothing
<1> QED
  BY <1>1, <1>2, <1>3, <1>4, <1>5

(* Pruning only narrows what the index must be right about.                *)
LEMMA DeleteVersionsToInv ==
  ASSUME IndInv, NEW to \in Versions, DeleteVersionsTo(to)
  PROVE  IndInv'
<1> USE NoValueAssumption, MaxVersionAssumption DEF DeleteVersionsTo, unsaved, IndInv
<1>1. TypeOK'
  BY SMTT(60) DEF TypeOK, Versions
<1>2. IntervalInv'
  BY SMTT(60) DEF IntervalInv, TypeOK, Versions
<1>3. PhaseInv'
  BY SMTT(60) DEF PhaseInv, NothingUnsaved, TypeOK, Versions
<1>4. ExactInv'
  BY SMTT(60) DEF ExactInv, TypeOK, Versions
<1>5. UnsavedInv'
  BY SMTT(60) DEF UnsavedInv, TypeOK, Versions
<1> QED
  BY <1>1, <1>2, <1>3, <1>4, <1>5

(* A process that ends leaves the disk, on which a label that does not     *)
(* name the latest version vouches for nothing.                            *)
LEMMA RestartInv ==
  ASSUME IndInv, Restart, UNCHANGED <<saved, first, latest, label>>,
         fastVal' \in Contents, fastVer' \in [Keys -> Versions],
         label # latest \/ UNCHANGED <<fastVal, fastVer>>
  PROVE  IndInv'
<1> USE NoValueAssumption, MaxVersionAssumption DEF Restart, IndInv
<1>0. /\ Nothing \in Contents /\ NoVersion \in [Keys -> 0 .. MaxVersion + 1]
      /\ 0 \in Versions
  BY SMTT(60) DEF Nothing, NoVersion, Contents, Versions
<1>1. TypeOK'
  BY <1>0 DEF TypeOK, Phases
<1>2. IntervalInv'
  BY DEF IntervalInv
<1>3. PhaseInv'
  BY SMTT(60) DEF PhaseInv, NothingUnsaved, TypeOK, Versions
<1>4. ExactInv'
  BY DEF ExactInv
<1>5. UnsavedInv'
  BY DEF UnsavedInv
<1> QED
  BY <1>1, <1>2, <1>3, <1>4, <1>5

(* A rebuild that is cut off leaves an index with a label that does not    *)
(* name the latest version.                                                *)
LEMMA CrashInUpgradeInv ==
  ASSUME IndInv, NEW t \in Contents, NEW v \in Versions, NEW k \in Keys,
         CrashInUpgrade(t, v, k)
  PROVE  IndInv'
<1>1. fastVal' \in Contents
  BY DEF CrashInUpgrade, IndInv, TypeOK, Contents
<1>2. fastVer' \in [Keys -> Versions]
  <2>1. 0 \in Versions /\ fastVer \in [Keys -> Versions]
    BY SMTT(60), MaxVersionAssumption DEF IndInv, TypeOK, Versions
  <2>2. CASE fastVer' = EntriesAt(fastVal', v)
    BY <2>1, <2>2 DEF EntriesAt
  <2>3. CASE fastVer' = [x \in Keys |-> IF x <= k THEN 0 ELSE fastVer[x]]
    BY <2>1, <2>3
  <2> QED
    BY <2>2, <2>3 DEF CrashInUpgrade
<1>3. label # latest
  BY SMTT(60) DEF CrashInUpgrade, IsUpgradeable, Upgraded, NoLabel, IndInv, TypeOK, Versions
<1> QED
  BY <1>1, <1>2, <1>3, RestartInv DEF CrashInUpgrade
(* Every step keeps the invariant.                                         *)
LEMMA NextInv ==
  ASSUME NoHazards, IndInv, [Next]_vars
  PROVE  IndInv'
<1>1. ASSUME NEW k \in Keys, NEW v \in Values, Set(k, v) PROVE IndInv'
  BY <1>1, SetInv
<1>2. ASSUME NEW k \in Keys, Remove(k) PROVE IndInv'
  BY <1>2, RemoveInv
<1>3. ASSUME NEW k \in Keys, CrashInRebuild(k) PROVE IndInv'
  <2>1. working \in Contents /\ version \in Versions
    BY DEF IndInv, TypeOK
  <2> QED
    BY <1>3, <2>1, CrashInUpgradeInv DEF CrashInRebuild
<1>4. ASSUME NEW k \in Keys, NEW v \in Versions, CrashInLoad(v, k) PROVE IndInv'
  <2>1. saved[v] \in Contents
    BY DEF IndInv, TypeOK
  <2> QED
    BY <1>4, <2>1, CrashInUpgradeInv DEF CrashInLoad
<1>5. ASSUME NEW v \in Versions, LoadVersion(v) PROVE IndInv'
  BY <1>5, LoadVersionInv
<1>6. ASSUME NEW v \in Versions, LoadVersionForOverwriting(v) PROVE IndInv'
  BY <1>6, LoadVersionForOverwritingInv
<1>7. ASSUME NEW v \in Versions, DeleteVersionsTo(v) PROVE IndInv'
  BY <1>7, DeleteVersionsToInv
<1>8. CASE Crash
  BY <1>8, RestartInv DEF Crash, disk, IndInv, TypeOK
<1>9. CASE UNCHANGED vars
  BY SMTT(60), <1>9 DEF vars, disk, unsaved, IndInv, TypeOK, IntervalInv, PhaseInv, ExactInv,
              UnsavedInv, NothingUnsaved
<1> QED
  BY <1>1, <1>2, <1>3, <1>4, <1>5, <1>6, <1>7, <1>8, <1>9, RollbackInv, SaveNewVersionInv,
     SaveExistingVersionInv, DeleteVersionsFromInv, RebuildInv
  DEF Next

(* The invariant is enough for what a reader sees.                         *)
LEMMA GetIsRight ==
  ASSUME IndInv
  PROVE  phase = "idle" => \A k \in Keys : Get(k) = working[k]
<1> SUFFICES ASSUME phase = "idle", NEW k \in Keys
             PROVE  Get(k) = working[k]
  OBVIOUS
<1> USE NoValueAssumption DEF IndInv
<1>1. CASE working = Nothing
  BY <1>1 DEF Get, Nothing
<1>2. CASE working # Nothing /\ skip
  BY <1>2 DEF Get, ImmutableGet
<1>3. CASE working # Nothing /\ ~skip /\ (addVal[k] # NoValue \/ k \in removals)
  BY <1>3 DEF Get, UnsavedInv
<1>4. CASE working # Nothing /\ ~skip /\ addVal[k] = NoValue /\ k \notin removals
  <2>1. Get(k) = ImmutableGet(working, version, k)
    BY <1>4 DEF Get
  <2>2. working[k] = saved[version][k] /\ label = latest
    BY <1>4 DEF UnsavedInv, PhaseInv
  <2>3. /\ fastVal[k] = saved[latest][k]
        /\ fastVal[k] # NoValue /\ fastVer[k] <= version => saved[version][k] = fastVal[k]
    BY <2>2 DEF ExactInv, PhaseInv, TypeOK
  <2> QED
    BY <1>4, <2>1, <2>2, <2>3 DEF ImmutableGet
<1> QED
  BY <1>1, <1>2, <1>3, <1>4

(* An entry answers for every version since the one it was written at.     *)
LEMMA GetVersionedIsRight ==
  ASSUME IndInv
  PROVE  GetVersionedAgrees
<1> SUFFICES ASSUME phase = "idle", NEW v \in Live, NEW k \in Keys
             PROVE  GetVersioned(k, v) = saved[v][k]
  BY DEF GetVersionedAgrees
<1> USE NoValueAssumption DEF IndInv
<1>0. v \in Versions /\ first <= v /\ v <= latest
  BY SMTT(60), MaxVersionAssumption DEF Live, TypeOK, Versions
<1>1. CASE skip
  BY <1>1 DEF GetVersioned, IsFastCacheEnabled, ImmutableGet, Nothing
<1>2. CASE ~skip
  <2>1. label = latest
    BY <1>2 DEF PhaseInv
  <2>2. /\ fastVal[k] = saved[latest][k]
        /\ fastVal[k] # NoValue /\ fastVer[k] <= v => saved[v][k] = fastVal[k]
    BY <1>0, <2>1 DEF ExactInv
  <2>3. ImmutableGet(saved[v], v, k) = saved[v][k]
    BY <1>2, <2>2 DEF ImmutableGet, Nothing
  <2> QED
    BY <2>2, <2>3 DEF GetVersioned
<1> QED
  BY <1>1, <1>2

(* The index under the unsaved changes is the working tree.                *)
LEMMA IterationIsRight ==
  ASSUME IndInv
  PROVE  phase = "idle" => Iterated = working
<1> SUFFICES ASSUME phase = "idle", IsFastCacheEnabled
             PROVE  FastValAfter(Additions, removals) = working
  BY DEF Iterated
<1> USE NoValueAssumption DEF IndInv
<1>1. ~skip /\ version = latest /\ label = latest
  BY DEF IsFastCacheEnabled, PhaseInv
<1>2. ASSUME NEW k \in Keys
      PROVE  FastValAfter(Additions, removals)[k] = working[k]
  <2>1. fastVal[k] = saved[version][k]
    BY <1>1 DEF ExactInv
  <2> QED
    BY <1>1, <2>1 DEF UnsavedInv, FastValAfter, Additions
<1> QED
  BY <1>2 DEF FastValAfter, TypeOK, Contents

(* ExactInv, key by key, is equality of the index and the latest version.  *)
LEMMA IndexIsRight ==
  ASSUME IndInv
  PROVE  IndexIsLive
<1> SUFFICES ASSUME label = latest
             PROVE  fastVal = saved[latest]
  BY DEF IndexIsLive
<1>1. \A k \in Keys : fastVal[k] = saved[latest][k]
  BY DEF IndInv, ExactInv
<1>2. fastVal \in Contents /\ saved[latest] \in Contents
  BY DEF IndInv, TypeOK
<1> QED
  BY SMTT(60), <1>1, <1>2 DEF Contents

-----------------------------------------------------------------------------
(* The invariant holds in every state, for any keys, values and bounds.    *)
LEMMA Invariance == NoHazards /\ Spec => []IndInv
<1>1. Init => IndInv
  BY InitInv
<1>2. NoHazards /\ IndInv /\ [Next]_vars => IndInv'
  BY NextInv
<1>3. NoHazards => NoHazards'
  BY DEF NoHazards
<1> QED
  BY <1>1, <1>2, <1>3, PTL DEF Spec

(* Every variable keeps its type: no step of the index, of SaveVersion or  *)
(* of LoadVersion leaves the values it is specified for.                   *)
THEOREM TypeCorrect == NoHazards /\ Spec => []TypeOK
BY Invariance, PTL DEF IndInv

(* A label that names the latest version is true: LoadVersion may trust it *)
(* after any crash, also one in the middle of a rebuild.                   *)
THEOREM IndexIsLiveAlways == NoHazards /\ Spec => []IndexIsLive
BY Invariance, IndexIsRight, PTL

(* ReadsAgreeAlways: Get of the working tree, through the unsaved changes  *)
(* and the index, is what the tree holds, and so is the merge of the index *)
(* with the unsaved changes that the iterators make (ReadsAgree).          *)
THEOREM ReadsAgreeAlways == NoHazards /\ Spec => []ReadsAgree
<1>1. IndInv => ReadsAgree
  BY GetIsRight, IterationIsRight DEF ReadsAgree
<1> QED
  BY <1>1, Invariance, PTL

(* GetVersionedAgreesAlways: GetVersioned, which takes the value from the  *)
(* index if the index has not changed since the version, is what the       *)
(* version holds (GetVersionedAgrees).                                     *)
THEOREM GetVersionedAgreesAlways == NoHazards /\ Spec => []GetVersionedAgrees
BY Invariance, GetVersionedIsRight, PTL

-----------------------------------------------------------------------------
(* A MutableTree that is read through the index is a versioned map.        *)

(* What the versions hold, whoever reads them.                             *)
Held == [v \in Live |-> saved[v]]

(* Readers see what the working tree and the versions hold.                *)
LEMMA SeenIsHeld == IndInv => Seen = working /\ SeenVersions = Held
<1> SUFFICES ASSUME IndInv PROVE Seen = working /\ SeenVersions = Held
  OBVIOUS
<1>1. working \in Contents /\ \A v \in Live : saved[v] \in Contents
  BY SMTT(60), MaxVersionAssumption DEF IndInv, TypeOK, Live, Versions
<1>2. CASE phase # "idle"
  BY <1>2 DEF Seen, SeenVersions, Held
<1>3. CASE phase = "idle"
  <2>1. Seen = working
    BY <1>1, <1>3, GetIsRight DEF Seen, Contents
  <2>2. ASSUME NEW v \in Live PROVE [k \in Keys |-> GetVersioned(k, v)] = saved[v]
    BY <1>1, <1>3, GetVersionedIsRight DEF GetVersionedAgrees, Contents
  <2> QED
    BY <1>3, <2>1, <2>2 DEF SeenVersions, Held
<1> QED
  BY <1>2, <1>3

(* The same, after a step.                                                 *)
LEMMA SeenIsHeldNext == IndInv' => (Seen = working /\ SeenVersions = Held)'
BY SeenIsHeld, PTL

(* The versions that are there are numbers, and so is the one loaded.      *)
LEMMA HeldDomain ==
  ASSUME IndInv
  PROVE  /\ DOMAIN Held = Live /\ \A v \in Live : Held[v] = saved[v]
         /\ \A v : v \in Live <=> v \in Versions /\ v > 0 /\ first <= v /\ v <= latest
         /\ version \in Versions /\ first \in Versions /\ latest \in Versions
         /\ version > 0 /\ phase # "new" => version \in Live
         /\ first = 0 <=> latest = 0
<1>1. version \in Versions /\ first \in Versions /\ latest \in Versions
  BY DEF IndInv, TypeOK
<1>2. \A v : v \in Live <=> v \in Versions /\ v > 0 /\ first <= v /\ v <= latest
  BY SMTT(60), <1>1, MaxVersionAssumption DEF Live, Versions
<1>3. (version > 0 /\ phase # "new" => version \in Live) /\ (first = 0 <=> latest = 0)
  BY <1>1, <1>2 DEF IndInv, PhaseInv, IntervalInv
<1> QED
  BY <1>1, <1>2, <1>3 DEF Held

(* Every step is one of the versioned map, or changes nothing of it.       *)
LEMMA Simulation ==
  ASSUME NoHazards, IndInv, IndInv', [Next]_vars
  PROVE  [Map!Next]_(Map!vars)
<1>1. Seen = working /\ SeenVersions = Held /\ Seen' = working' /\ SeenVersions' = Held'
  BY SeenIsHeld, SeenIsHeldNext
<1>2. UNCHANGED <<saved, first, latest>> => UNCHANGED SeenVersions
  BY <1>1 DEF Held, Live
<1>3. UNCHANGED <<saved, first, latest, version, working>> => UNCHANGED Map!vars
  BY <1>1, <1>2 DEF Map!vars
<1>4. Map!Empty = Nothing
  BY DEF Map!Empty, Nothing
<1>5. working \in Contents /\ working' \in Contents
  BY DEF IndInv, TypeOK
<1>6. ASSUME NEW k \in Keys,
             Remove(k) \/ \E v \in Values : Set(k, v)
      PROVE  Map!Next
  <2>1. /\ UNCHANGED <<saved, first, latest, version>>
        /\ working' = [working EXCEPT ![k] = working'[k]]
        /\ working'[k] \in Values \cup {NoValue}
    BY <1>5, <1>6 DEF Set, Remove, disk, Contents
  <2>2. Map!Change(k)
    BY <1>1, <1>2, <2>1 DEF Map!Change
  <2> QED
    BY <2>2 DEF Map!Next
<1>7. CASE Rollback
  <2>1. UNCHANGED <<saved, first, latest, version>> /\ phase = "idle"
    BY <1>7 DEF Rollback, disk
  <2>2. working' = IF version = 0 THEN Nothing ELSE Held[version]
    BY SMTT(60), <1>7, <2>1, HeldDomain DEF Rollback, Versions
  <2>3. Map!Rollback
    BY <1>1, <1>2, <1>4, <2>1, <2>2 DEF Map!Rollback
  <2> QED
    BY <2>3 DEF Map!Next
<1>8. CASE SaveNewVersion
  <2>1. version = latest /\ version + 1 \in Versions
    BY SMTT(60), <1>8, SavesOnTop, HeldDomain, MaxVersionAssumption DEF SaveNewVersion, Versions
  <2>2. /\ saved' = [saved EXCEPT ![version + 1] = working] /\ latest' = version + 1 /\ version' = version + 1
        /\ first' = (IF first = 0 THEN version + 1 ELSE first) /\ UNCHANGED working
    BY <1>8 DEF SaveNewVersion
  <2>3. \A v : v \in Live' <=> v \in Live \/ v = version + 1
    <3>1. first \in Nat /\ latest \in Nat /\ first <= latest /\ (first = 0 <=> latest = 0)
      BY SMTT(60), HeldDomain, MaxVersionAssumption DEF Versions, IndInv, IntervalInv
    <3>2. first' \in Nat /\ latest' = latest + 1 /\ version = latest
      BY SMTT(60), <2>1, <2>2, <3>1
    <3>3. Live' = {v \in first' .. latest' : v > 0}
      BY DEF Live
    <3>4. CASE first = 0
      BY SMTT(60), <2>1, <2>2, <3>1, <3>2, <3>3, <3>4 DEF Live
    <3>5. CASE first # 0
      BY SMTT(60), <2>2, <3>1, <3>2, <3>3, <3>5 DEF Live
    <3> QED
      BY <3>4, <3>5
  <2>4. Live' = Live \cup {version + 1}
    BY <2>3
  <2>5. Held' = [v \in Live \cup {version + 1} |-> IF v = version + 1 THEN working ELSE Held[v]]
    <3>1. saved \in [Versions -> Contents] /\ \A v \in Live : v \in Versions /\ Held[v] = saved[v]
      BY HeldDomain DEF IndInv, TypeOK
    <3>2. \A v \in Live \cup {version + 1} : saved'[v] = IF v = version + 1 THEN working ELSE Held[v]
      BY <2>1, <2>2, <3>1
    <3> QED
      BY <2>4, <3>2 DEF Held
  <2>6. \A v \in Live : v <= version
    BY <2>1, HeldDomain
  <2>7. Map!Save
    BY <1>1, <2>2, <2>5, <2>6, HeldDomain DEF Map!Save
  <2> QED
    BY <2>7 DEF Map!Next
<1>9. CASE SaveExistingVersion
  <2>1. /\ version' = version + 1 /\ UNCHANGED <<saved, first, latest, working>>
        /\ saved[version + 1] = working /\ first <= version + 1 /\ version + 1 <= latest
    BY <1>9 DEF SaveExistingVersion, VersionExists, disk
  <2>2. version + 1 \in Live
    BY SMTT(60), <2>1, HeldDomain, MaxVersionAssumption DEF Versions
  <2>3. Map!Replay
    BY <1>1, <1>2, <2>1, <2>2, HeldDomain DEF Map!Replay
  <2> QED
    BY <2>3 DEF Map!Next
<1>10. ASSUME NEW target \in Versions, Load(target)
       PROVE  [Map!Next]_(Map!vars)
  <2> DEFINE v == IF target = 0 THEN latest ELSE target
  <2>1. /\ UNCHANGED <<saved, first, latest>> /\ (target = 0 \/ VersionExists(target))
        /\ version' = (IF first = 0 THEN version ELSE v)
        /\ working' = (IF first = 0 THEN working ELSE saved[v])
    BY <1>10 DEF Load
  <2>2. CASE first = 0
    BY <1>3, <2>1, <2>2
  <2>3. CASE first # 0
    <3>1. v \in Live
      <4>1. first <= latest /\ first \in Nat /\ latest \in Nat /\ target \in Nat
        BY SMTT(60), HeldDomain, MaxVersionAssumption DEF IndInv, IntervalInv, Versions
      <4> QED
        BY SMTT(60), <2>1, <2>3, <4>1, HeldDomain DEF VersionExists
    <3>2. Map!Load(v)
      BY <1>1, <1>2, <2>1, <2>3, <3>1, HeldDomain DEF Map!Load
    <3> QED
      BY <1>1, <3>1, <3>2, HeldDomain DEF Map!Next
  <2> QED
    BY <2>2, <2>3
<1>11. CASE DeleteVersionsFrom
  <2>1. /\ phase = "delete" /\ latest' = version /\ UNCHANGED <<first, version, working>>
        /\ saved' = [v \in Versions |-> IF v > version THEN Nothing ELSE saved[v]]
    BY <1>11 DEF DeleteVersionsFrom
  <2>2. working = saved[version] /\ version > 0 /\ version \in Live
    BY <2>1, HeldDomain DEF IndInv, PhaseInv
  <2>3. \A v : v \in Live' <=> v \in Live /\ v <= version
    BY SMTT(60), <2>1, <2>2, HeldDomain, MaxVersionAssumption DEF Live, Versions
  <2>4. Live' = {v \in Live : v <= version}
    BY <2>3
  <2>5. Held' = [v \in {w \in Live : w <= version} |-> Held[v]]
    <3>1. \A v \in Live : v \in Versions /\ v \in Nat /\ Held[v] = saved[v]
      BY SMTT(60), HeldDomain DEF Versions
    <3>2. \A v \in {w \in Live : w <= version} : saved'[v] = Held[v]
      BY SMTT(60), <2>1, <2>2, <3>1
    <3> QED
      BY <2>4, <3>2 DEF Held
  <2>6. Map!Overwrite(version)
    BY <1>1, <2>1, <2>2, <2>5, HeldDomain DEF Map!Overwrite, Map!Keep
  <2> QED
    BY <1>1, <2>2, <2>6, HeldDomain DEF Map!Next
<1>12. ASSUME NEW to \in Versions, DeleteVersionsTo(to)
       PROVE  Map!Next
  <2>1. /\ 0 < first /\ first <= to /\ to < latest /\ to < version /\ first' = to + 1
        /\ UNCHANGED <<saved, latest, version, working>>
    BY <1>12 DEF DeleteVersionsTo
  <2>2. to \in Live /\ version \in Live
    BY SMTT(60), <2>1, HeldDomain, MaxVersionAssumption DEF Versions, IndInv, PhaseInv
  <2>3. \A v : v \in Live' <=> v \in Live /\ v > to
    BY SMTT(60), <2>1, HeldDomain, MaxVersionAssumption DEF Live, Versions
  <2>4. Held' = [v \in {w \in Live : w > to} |-> Held[v]]
    <3>1. Live' = {w \in Live : w > to}
      BY <2>3
    <3> QED
      BY <2>1, <3>1, HeldDomain DEF Held
  <2>5. DOMAIN Held' = {w \in Live : w > to} /\ version \in DOMAIN Held'
    BY <2>1, <2>2, <2>4
  <2>6. Map!Prune(to)
    BY <1>1, <2>1, <2>4, <2>5, HeldDomain DEF Map!Prune, Map!Keep
  <2> QED
    BY <1>1, <2>2, <2>6, HeldDomain DEF Map!Next
<1>13. ASSUME Restart, UNCHANGED <<saved, first, latest>>
       PROVE  Map!Next
  <2>1. Map!Restart
    BY <1>1, <1>2, <1>4, <1>13 DEF Map!Restart, Restart
  <2> QED
    BY <2>1 DEF Map!Next
<1>14. CASE RebuildAfterOverwriting
  BY <1>3, <1>14 DEF RebuildAfterOverwriting
<1>15. CASE UNCHANGED vars
  BY <1>3, <1>15 DEF vars, disk
<1>16. ASSUME NEW k \in Keys, NEW v \in Versions, CrashInLoad(v, k)
       PROVE  Map!Next
  BY <1>13, <1>16 DEF CrashInLoad, CrashInUpgrade
<1>17. ASSUME NEW k \in Keys, CrashInRebuild(k)
       PROVE  Map!Next
  BY <1>13, <1>17 DEF CrashInRebuild, CrashInUpgrade
<1>18. CASE Crash
  BY <1>13, <1>18 DEF Crash, disk
<1>19. ASSUME NEW v \in Versions, LoadVersion(v) \/ LoadVersionForOverwriting(v)
       PROVE  [Map!Next]_(Map!vars)
  BY <1>10, <1>19 DEF LoadVersion, LoadVersionForOverwriting
<1> QED
  BY <1>6, <1>7, <1>8, <1>9, <1>11, <1>12, <1>14, <1>15, <1>16, <1>17, <1>18, <1>19 DEF Next

(* A MutableTree read through the index is a versioned map: no reader can  *)
(* tell that there is an index, whatever process wrote it, rebuilt it or   *)
(* ended in the middle of that (ImplementsVersionedMap).                   *)
THEOREM ImplementsVersionedMapAlways == NoHazards /\ Spec => ImplementsVersionedMap
<1>1. Init /\ IndInv => Map!Init
  <2> SUFFICES ASSUME Init, IndInv PROVE Map!Init
    OBVIOUS
  <2>1. Seen = working
    BY SeenIsHeld
  <2>2. Map!Empty = Nothing
    BY DEF Map!Empty, Nothing
  <2> QED
    BY <2>1, <2>2 DEF Map!Init, Init
<1>2. NoHazards /\ IndInv /\ IndInv' /\ [Next]_vars => [Map!Next]_(Map!vars)
  BY Simulation
<1>3. NoHazards => []NoHazards
  <2>1. NoHazards => NoHazards'
    BY DEF NoHazards
  <2> QED
    BY <2>1, PTL
<1> QED
  BY <1>1, <1>2, <1>3, Invariance, PTL DEF Spec, ImplementsVersionedMap, Map!Spec
=============================================================================
