---------------------------- MODULE VersionedMap ----------------------------
(***************************************************************************)
(* What a MutableTree promises to its users: a working map, and a series   *)
(* of immutable versions of it that only grows at its end, is only cut at  *)
(* its beginning (pruning) or at its end (overwriting), and outlives the   *)
(* process.                                                                *)
(***************************************************************************)
EXTENDS Integers

CONSTANTS
  Keys,      \* keys of the map
  Values,    \* values that can be stored
  NoValue    \* what an absent key has

VARIABLES
  vers,      \* the versions: a function from an interval of numbers to maps
  version,   \* the version the working map is based on, 0 if on none
  working    \* the working map

vars == <<vers, version, working>>

Empty == [k \in Keys |-> NoValue]

(* The versions that were there before do not matter.                      *)
Init == version = 0 /\ working = Empty

Change(k) ==
  /\ UNCHANGED <<version, vers>>
  /\ working' = [working EXCEPT ![k] = working'[k]]
  /\ working'[k] \in Values \cup {NoValue}

Rollback ==
  /\ UNCHANGED <<version, vers>>
  /\ working' = IF version = 0 THEN Empty ELSE vers[version]

(* A new version follows the last one; it never takes the place of         *)
(* another one.                                                            *)
Save ==
  /\ \A v \in DOMAIN vers : v <= version
  /\ vers' = [v \in DOMAIN vers \cup {version + 1} |->
                IF v = version + 1 THEN working ELSE vers[v]]
  /\ version' = version + 1
  /\ UNCHANGED working

(* Saving again what the next version already holds.                       *)
Replay ==
  /\ version + 1 \in DOMAIN vers
  /\ version' = version + 1 /\ UNCHANGED vers
  /\ vers[version + 1] = working /\ UNCHANGED working

Keep(vs) == vers' = [v \in vs |-> vers[v]]

Load(v) ==
  /\ v \in DOMAIN vers
  /\ version' = v /\ UNCHANGED vers
  /\ working' = vers[v]

Overwrite(v) ==
  /\ v \in DOMAIN vers
  /\ version' = v /\ Keep({w \in DOMAIN vers : w <= v})
  /\ working' = vers[v]

Prune(to) ==
  /\ Keep({w \in DOMAIN vers : w > to})
  /\ version \in DOMAIN vers'
  /\ UNCHANGED <<version, working>>

Restart ==
  /\ version' = 0 /\ UNCHANGED vers
  /\ working' = Empty

Next ==
  \/ \E k \in Keys : Change(k)
  \/ Rollback \/ Save \/ Replay \/ Restart
  \/ \E v \in DOMAIN vers : Load(v) \/ Overwrite(v) \/ Prune(v)

Spec == Init /\ [][Next]_vars
=============================================================================
