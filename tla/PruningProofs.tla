---------------------------- MODULE PruningProofs ---------------------------
(***************************************************************************)
(* For any number of versions and of nodes: deleting what the oldest       *)
(* version has and the next one has not loses nothing and leaks nothing.   *)
(*                                                                         *)
(* deleteVersion compares two versions only.  That this is enough rests on *)
(* SharedSinceCreation: a node belongs to an unbroken run of versions that *)
(* starts with the one that created it.                                    *)
(***************************************************************************)
EXTENDS Pruning, TLAPS

(* A leaf is for Zenon unless it names the SMT solver; each prover has up to
   sixty seconds, so that no proof depends on the speed of a machine.       *)
USE ZenonT(60)

(* The versions that exist form an interval.                               *)
IntervalInv ==
  /\ first = 0 <=> latest = 0
  /\ first <= latest
  /\ \A v \in Versions \ Live : nodesOf[v] = {} /\ rootOf[v] = NoRoot

(* A version has no node of a later one, and a node is in every version    *)
(* from the one that created it up to any other that has it.               *)
SharedSinceCreation ==
  /\ \A v \in Live : \A n \in nodesOf[v] : n[1] <= v /\ n[1] > 0
  /\ \A v, w \in Live : \A n \in nodesOf[w] : n[1] <= v /\ v <= w => n \in nodesOf[v]

(* The nonce 1 is that of a root; a version has at most one such node.     *)
OneRoot ==
  \A v \in Live :
    /\ rootOf[v] # NoRoot => rootOf[v] \in nodesOf[v]
    /\ \A n \in nodesOf[v] : n[2] = 1 => rootOf[v] = n
    /\ RootKey(v) \in nodesOf[v] <=> rootOf[v] = RootKey(v)

(* The keys in the database, by the three kinds they have.                 *)
KeysExact ==
  \A k \in AllKeys :
    k \in keys <=>
      \/ k[2] = 1 /\ k[1] \in Live
      \/ k[2] > 1 /\ \E v \in Live : k \in nodesOf[v]
      \/ k[2] = 0 /\ k[1] < first /\ \E v \in Live : <<k[1], 1>> \in nodesOf[v]

IndInv ==
  TypeOK /\ IntervalInv /\ SharedSinceCreation /\ OneRoot /\ KeysExact

-----------------------------------------------------------------------------
(* The components of nodes.                                                *)
LEMMA NodesArePairs ==
  \A n \in AllNodes : n[1] \in Nat /\ n[2] \in Nat \ {0} /\ n[1] \in Versions /\ n = <<n[1], n[2]>>
<1> SUFFICES ASSUME NEW v \in Versions, NEW m \in Nonces
             PROVE  v \in Nat /\ m \in Nat \ {0}
  BY SMTT(60) DEF AllNodes
<1> QED
  BY SMTT(60), MaxVersionAssumption, NoncesAssumption DEF Versions

(* The components of keys.                                                 *)
LEMMA KeysArePairs ==
  \A k \in AllKeys : k[1] \in Nat /\ k[2] \in Nat /\ k[1] \in Versions /\ k = <<k[1], k[2]>>
<1> SUFFICES ASSUME NEW v \in Versions, NEW m \in Nonces \cup {0}
             PROVE  v \in Nat /\ m \in Nat
  BY SMTT(60) DEF AllKeys
<1> QED
  BY SMTT(60), MaxVersionAssumption, NoncesAssumption DEF Versions

(* An empty database satisfies the invariant.                              *)
LEMMA InitInv == Init => IndInv
<1> SUFFICES ASSUME Init PROVE IndInv
  OBVIOUS
<1>1. Live = {}
  BY SMTT(60) DEF Init, Live
<1>2. TypeOK
  <2>1. 0 \in Versions
    BY SMTT(60), MaxVersionAssumption DEF Versions
  <2> QED
    BY <2>1 DEF TypeOK, Init
<1>3. IntervalInv
  BY SMTT(60), <1>1 DEF IntervalInv, Init
<1>4. SharedSinceCreation /\ OneRoot
  BY <1>1 DEF SharedSinceCreation, OneRoot
<1>5. KeysExact
  <2> SUFFICES ASSUME NEW k \in AllKeys PROVE ~(k[2] = 0 /\ k[1] < 0 /\ FALSE)
    BY <1>1 DEF KeysExact, Init
  <2> QED
    OBVIOUS
<1> QED
  BY <1>2, <1>3, <1>4, <1>5 DEF IndInv

(* The versions that exist after a new one, and the ones before it.        *)
LEMMA LiveAfterAppend ==
  ASSUME TypeOK, IntervalInv, NEW ns, NEW r, Append(ns, r)
  PROVE  /\ Live' = Live \cup {latest + 1}
         /\ latest + 1 \in Versions /\ latest + 1 \notin Live
         /\ latest' = latest + 1 /\ latest' > 0 /\ first' > 0 /\ first' <= latest'
         /\ Live # {} => first' = first
         /\ \A v \in Live : v \in Versions /\ v <= latest
         /\ latest \in Live \/ Live = {}
  BY SMTT(60), MaxVersionAssumption DEF TypeOK, IntervalInv, Append, Live, Versions

(* What the three kinds of SaveVersion have in common preserves the        *)
(* invariant: the nodes of the new version are new or nodes of the version *)
(* before.                                                                 *)
LEMMA AppendInv ==
  ASSUME IndInv, NEW ns \in SUBSET AllNodes, NEW r \in AllNodes \cup {NoRoot},
         \A n \in ns : n[1] = latest + 1 \/ n \in nodesOf[latest],
         r # NoRoot => r \in ns,
         \A n \in ns : n[2] = 1 => r = n,
         RootKey(latest + 1) \in ns <=> r = RootKey(latest + 1),
         Append(ns, r),
         keys' = keys \cup {RootKey(latest + 1)} \cup {n \in ns : n[1] = latest + 1}
  PROVE  IndInv'
<1> DEFINE new == latest + 1
<1>l. /\ Live' = Live \cup {new}
      /\ new \in Versions /\ new \notin Live /\ new > 0
      /\ latest' = new /\ first' > 0 /\ first' <= latest'
      /\ Live # {} => first' = first
      /\ \A v \in Live : v \in Versions /\ v <= latest /\ v < new /\ v > 0
      /\ latest \in Live \/ Live = {}
  <2>1. \A v \in Live : v > 0 /\ v \in Int
    BY SMTT(60) DEF Live, IndInv, TypeOK, Versions
  <2>2. latest \in Int
    BY SMTT(60) DEF IndInv, TypeOK, Versions
  <2> QED
    BY SMTT(60), LiveAfterAppend, <2>1, <2>2 DEF IndInv
<1>t. TypeOK /\ latest \in Versions /\ first \in Versions /\ latest \in Int /\ first \in Int
  BY SMTT(60) DEF IndInv, TypeOK, Versions
<1>n. /\ nodesOf'[new] = ns /\ rootOf'[new] = r
      /\ \A v \in Versions \ {new} : nodesOf'[v] = nodesOf[v] /\ rootOf'[v] = rootOf[v]
  BY <1>t, <1>l DEF Append, TypeOK
<1>o. \A v \in Live : nodesOf'[v] = nodesOf[v] /\ rootOf'[v] = rootOf[v]
  BY <1>n, <1>l
<1>a. \A n \in AllNodes : n[1] \in Nat /\ n[2] \in Nat \ {0} /\ n[1] \in Versions
  BY NodesArePairs
<1>h. \A n \in ns : n[1] = new \/ (latest \in Live /\ n \in nodesOf[latest])
  BY <1>l, <1>t DEF IndInv, IntervalInv
<1>1. TypeOK'
  <2>1. nodesOf' \in [Versions -> SUBSET AllNodes]
    BY <1>t DEF Append, TypeOK
  <2>2. rootOf' \in [Versions -> AllNodes \cup {NoRoot}]
    BY <1>t DEF Append, TypeOK
  <2>3. RootKey(new) \in AllKeys
    BY <1>l, NoncesAssumption DEF RootKey, AllKeys
  <2>4. keys' \in SUBSET AllKeys
    <3>1. ns \subseteq AllKeys
      BY DEF AllNodes, AllKeys
    <3> QED
      BY <2>3, <3>1, <1>t DEF TypeOK
  <2>5. latest' \in Versions /\ first' \in Versions
    BY <1>l, <1>t DEF Append
  <2> QED
    BY <2>1, <2>2, <2>4, <2>5 DEF TypeOK
<1>2. IntervalInv'
  <2>1. (first = 0 <=> latest = 0)' /\ (first <= latest)'
    BY SMTT(60), <1>l, <1>1 DEF TypeOK, Versions
  <2>2. ASSUME NEW v \in Versions \ Live' PROVE nodesOf'[v] = {} /\ rootOf'[v] = NoRoot
    BY <1>l, <1>n DEF IndInv, IntervalInv
  <2> QED
    BY <2>1, <2>2 DEF IntervalInv
<1>3. SharedSinceCreation'
  <2>1. ASSUME NEW v \in Live', NEW n \in nodesOf'[v] PROVE n[1] <= v /\ n[1] > 0
    <3>1. CASE v \in Live
      BY <3>1, <1>o DEF IndInv, SharedSinceCreation
    <3>2. CASE v = new
      <4>1. n \in ns
        BY <3>2, <1>n
      <4>2. CASE n[1] = new
        BY SMTT(60), <4>2, <3>2, <1>l, <1>t
      <4>3. CASE latest \in Live /\ n \in nodesOf[latest]
        <5>1. n[1] <= latest /\ n[1] > 0
          BY <4>3 DEF IndInv, SharedSinceCreation
        <5> QED
          BY SMTT(60), <5>1, <4>1, <3>2, <1>t, <1>a
      <4> QED
        BY <4>1, <4>2, <4>3, <1>h
    <3> QED
      BY <3>1, <3>2, <1>l
  <2>2. ASSUME NEW v \in Live', NEW w \in Live', NEW n \in nodesOf'[w], n[1] <= v, v <= w
        PROVE  n \in nodesOf'[v]
    <3>1. CASE w \in Live
      <4>1. v \in Live
        BY SMTT(60), <3>1, <2>2, <1>l, <1>t DEF Versions
      <4> QED
        BY <3>1, <4>1, <2>2, <1>o DEF IndInv, SharedSinceCreation
    <3>2. CASE w = new /\ v \in Live
      <4>1. n \in ns /\ n[1] # new
        BY SMTT(60), <3>2, <2>2, <1>n, <1>l, <1>t
      <4>2. latest \in Live /\ n \in nodesOf[latest]
        BY <4>1, <1>h
      <4>3. n \in nodesOf[v]
        BY <4>2, <3>2, <2>2, <1>l DEF IndInv, SharedSinceCreation
      <4> QED
        BY <4>3, <3>2, <1>o
    <3>3. CASE w = new /\ v = new
      BY <3>3
    <3> QED
      BY <3>1, <3>2, <3>3, <1>l
  <2> QED
    BY <2>1, <2>2 DEF SharedSinceCreation
<1>4. OneRoot'
  <2> SUFFICES ASSUME NEW v \in Live'
               PROVE  /\ rootOf'[v] # NoRoot => rootOf'[v] \in nodesOf'[v]
                      /\ \A n \in nodesOf'[v] : n[2] = 1 => rootOf'[v] = n
                      /\ RootKey(v) \in nodesOf'[v] <=> rootOf'[v] = RootKey(v)
    BY DEF OneRoot, RootKey
  <2>1. CASE v \in Live
    BY <2>1, <1>o DEF IndInv, OneRoot
  <2>2. CASE v = new
    BY <2>2, <1>n
  <2> QED
    BY <2>1, <2>2, <1>l
<1>5. KeysExact'
  <2> SUFFICES ASSUME NEW k \in AllKeys
               PROVE  k \in keys' <=>
                        \/ k[2] = 1 /\ k[1] \in Live'
                        \/ k[2] > 1 /\ \E v \in Live' : k \in nodesOf'[v]
                        \/ k[2] = 0 /\ k[1] < first' /\ \E v \in Live' : <<k[1], 1>> \in nodesOf'[v]
    BY DEF KeysExact
  <2>k. k = <<k[1], k[2]>> /\ k[1] \in Nat /\ k[2] \in Nat
    BY KeysArePairs
  <2>e. k \in keys <=>
           \/ k[2] = 1 /\ k[1] \in Live
           \/ k[2] > 1 /\ \E v \in Live : k \in nodesOf[v]
           \/ k[2] = 0 /\ k[1] < first /\ \E v \in Live : <<k[1], 1>> \in nodesOf[v]
    BY DEF IndInv, KeysExact
  <2>u. \A n : (\E v \in Live' : n \in nodesOf'[v]) <=> (\E v \in Live : n \in nodesOf[v]) \/ n \in ns
    BY <1>l, <1>o, <1>n
  <2>v. \A n \in ns : n[1] = new \/ \E v \in Live : n \in nodesOf[v]
    BY <1>h
  <2>1. CASE k[2] = 1
    <3>1. k = RootKey(new) <=> k[1] = new
      BY SMTT(60), <2>1, <2>k DEF RootKey
    <3>2. k \in keys' <=> k[1] \in Live \/ k[1] = new
      BY SMTT(60), <2>1, <2>e, <2>k, <3>1
    <3> QED
      BY SMTT(60), <2>1, <3>2, <1>l, <2>k
  <2>2. CASE k[2] > 1
    <3>1. k # RootKey(new)
      BY SMTT(60), <2>2 DEF RootKey
    <3>2. k \in keys' <=> (\E v \in Live : k \in nodesOf[v]) \/ (k \in ns /\ k[1] = new)
      BY SMTT(60), <2>2, <2>e, <2>k, <3>1
    <3> QED
      BY SMTT(60), <2>2, <3>2, <2>u, <2>v, <2>k
  <2>3. CASE k[2] = 0
    <3>1. k # RootKey(new) /\ k \notin ns
      BY SMTT(60), <2>3, <1>a DEF RootKey
    <3>2. k \in keys' <=> k[1] < first /\ \E v \in Live : <<k[1], 1>> \in nodesOf[v]
      BY SMTT(60), <2>3, <2>e, <2>k, <3>1
    <3>3. ASSUME k[1] < first', <<k[1], 1>> \in ns PROVE \E v \in Live : <<k[1], 1>> \in nodesOf[v]
      <4>1. k[1] # new
        BY SMTT(60), <3>3, <1>l, <2>k, <1>1 DEF TypeOK, Versions
      <4> QED
        BY <4>1, <3>3, <2>v
    <3>4. (\E v \in Live : <<k[1], 1>> \in nodesOf[v]) => first' = first
      BY <1>l
    <3> QED
      BY SMTT(60), <2>3, <3>2, <3>3, <3>4, <2>u, <2>k
  <2> QED
    BY SMTT(60), <2>1, <2>2, <2>3, <2>k
<1> QED
  BY <1>1, <1>2, <1>3, <1>4, <1>5 DEF IndInv

(* A version with new nodes: its root is new, and the old root is not kept. *)
LEMMA SaveNewNodesInv ==
  ASSUME IndInv, NEW new \in SUBSET Nonces, NEW kept \in SUBSET nodesOf[latest],
         SaveNewNodes(({latest + 1} \X new) \cup kept)
  PROVE  IndInv'
<1> DEFINE ns == ({latest + 1} \X new) \cup kept
<1>1. latest \in Versions /\ latest + 1 \in Versions
  BY SMTT(60), MaxVersionAssumption DEF IndInv, TypeOK, Versions, SaveNewNodes, Append
<1>2. ns \in SUBSET AllNodes
  <2>1. kept \subseteq AllNodes
    BY <1>1 DEF IndInv, TypeOK
  <2>2. ({latest + 1} \X new) \subseteq AllNodes
    BY <1>1 DEF AllNodes
  <2> QED
    BY <2>1, <2>2
<1>3. RootKey(latest + 1) \in ns
  BY DEF SaveNewNodes
<1>4. RootKey(latest + 1) \in AllNodes
  BY <1>2, <1>3
<1>5. RootKey(latest + 1)[2] = 1
  BY DEF RootKey
<1>6. \A n \in ns : n[1] = latest + 1 \/ (n \in nodesOf[latest] /\ n[2] # 1)
  BY DEF SaveNewNodes
<1>7. \A n \in ns : n[2] = 1 => RootKey(latest + 1) = n
  BY <1>6, <1>2, NodesArePairs DEF RootKey
<1>8. keys' = keys \cup {RootKey(latest + 1)} \cup {n \in ns : n[1] = latest + 1}
  <2>1. RootKey(latest + 1) \in {n \in ns : n[1] = latest + 1}
    BY <1>3 DEF RootKey
  <2>2. keys' = keys \cup {n \in ns : n[1] = latest + 1}
    BY DEF SaveNewNodes
  <2> QED
    BY <2>1, <2>2
<1>9. Append(ns, RootKey(latest + 1))
  BY DEF SaveNewNodes
<1> HIDE DEF ns
<1> QED
  BY AppendInv, <1>2, <1>3, <1>4, <1>5, <1>6, <1>7, <1>8, <1>9

(* What is on the latest version, with no condition on its existence.      *)
LEMMA LatestFacts ==
  ASSUME IndInv
  PROVE  /\ latest \in Versions
         /\ nodesOf[latest] \in SUBSET AllNodes
         /\ \A n \in nodesOf[latest] : n[1] # latest + 1
         /\ RootKey(latest + 1) \notin nodesOf[latest]
<1>1. latest \in Versions /\ latest \in Nat /\ first \in Nat
  BY SMTT(60), MaxVersionAssumption DEF IndInv, TypeOK, Versions
<1>2. nodesOf[latest] \in SUBSET AllNodes /\ rootOf[latest] \in AllNodes \cup {NoRoot}
  BY <1>1 DEF IndInv, TypeOK
<1>3. CASE latest \in Live
  <2>1. \A n \in nodesOf[latest] : n[1] <= latest
    BY <1>3 DEF IndInv, SharedSinceCreation
  <2>2. \A n \in nodesOf[latest] : n[1] # latest + 1
    BY SMTT(60), <2>1, <1>1
  <2>3. RootKey(latest + 1) \notin nodesOf[latest]
    BY <2>2 DEF RootKey
  <2> QED
    BY <1>1, <1>2, <1>3, <2>2, <2>3 DEF IndInv, OneRoot
<1>4. CASE latest \notin Live
  BY <1>1, <1>2, <1>4 DEF IndInv, IntervalInv
<1> QED
  BY <1>3, <1>4

(* A version without new nodes refers to a node of the one before.         *)
LEMMA SaveRootInv ==
  ASSUME IndInv, NEW ns \in SUBSET nodesOf[latest], NEW r \in ns, SaveRoot(ns, r)
  PROVE  IndInv'
<1>1. keys' = keys \cup {RootKey(latest + 1)} \cup {n \in ns : n[1] = latest + 1}
  BY LatestFacts DEF SaveRoot
<1>2. RootKey(latest + 1) \notin ns /\ RootKey(latest + 1) # r
  BY LatestFacts
<1>3. Append(ns, r) /\ \A n \in ns : n[2] = 1 => r = n
  BY DEF SaveRoot
<1>4. ns \in SUBSET AllNodes /\ r \in AllNodes
  BY LatestFacts
<1> QED
  BY AppendInv, <1>1, <1>2, <1>3, <1>4

(* An empty version has a key and no node.                                 *)
LEMMA SaveEmptyRootInv ==
  ASSUME IndInv, SaveEmptyRoot
  PROVE  IndInv'
<1> DEFINE none == {}
<1>1. none \in SUBSET AllNodes
  OBVIOUS
<1>2. keys' = keys \cup {RootKey(latest + 1)} \cup {n \in none : n[1] = latest + 1}
  BY DEF SaveEmptyRoot
<1>3. Append(none, NoRoot)
  BY DEF SaveEmptyRoot
<1>4. RootKey(latest + 1) \in none <=> NoRoot = RootKey(latest + 1)
  BY SMTT(60) DEF RootKey, NoRoot
<1>5. \A n \in none : n[1] = latest + 1 \/ n \in nodesOf[latest]
  OBVIOUS
<1>6. \A n \in none : n[2] = 1 => NoRoot = n
  OBVIOUS
<1> HIDE DEF none
<1> QED
  BY AppendInv, <1>1, <1>2, <1>3, <1>4, <1>5, <1>6

(* Deleting the oldest version: an orphan of it is in no later version, by *)
(* SharedSinceCreation, and what is no orphan is in the next version.      *)
LEMMA deleteVersionInv ==
  ASSUME IndInv, deleteVersion
  PROVE  IndInv'
<1>t. /\ first \in Nat /\ latest \in Nat /\ 0 < first /\ first < latest
      /\ first \in Versions /\ latest \in Versions /\ first + 1 \in Versions
  BY SMTT(60), MaxVersionAssumption DEF IndInv, TypeOK, Versions, deleteVersion
<1>l. /\ Live' = Live \ {first} /\ first \in Live /\ first + 1 \in Live'
      /\ \A v \in Live' : v \in Versions /\ v \in Nat /\ v >= first + 1 /\ v \in Live
      /\ first' = first + 1 /\ latest' = latest
  <2>1. first' = first + 1 /\ latest' = latest
    BY DEF deleteVersion
  <2>2. Live' = (first + 1) .. latest
    BY SMTT(60), <2>1, <1>t DEF Live
  <2>3. Live = first .. latest
    BY SMTT(60), <1>t DEF Live
  <2> QED
    BY SMTT(60), <2>1, <2>2, <2>3, <1>t, MaxVersionAssumption DEF Versions
<1>m. \A v \in Live' : ~(v <= first)
  BY SMTT(60), <1>l, <1>t
<1>n. /\ nodesOf'[first] = {} /\ rootOf'[first] = NoRoot
      /\ \A v \in Versions \ {first} : nodesOf'[v] = nodesOf[v] /\ rootOf'[v] = rootOf[v]
  BY <1>t DEF deleteVersion, IndInv, TypeOK
<1>o. \A v \in Live' : nodesOf'[v] = nodesOf[v] /\ rootOf'[v] = rootOf[v]
  BY <1>n, <1>l, <1>t
<1>a. \A v \in Versions : \A n \in nodesOf[v] : n \in AllNodes
  BY DEF IndInv, TypeOK
<1>u. \A n \in Orphans : \A v \in Live' : n \notin nodesOf[v]
  <2> SUFFICES ASSUME NEW n \in Orphans, NEW v \in Live', n \in nodesOf[v] PROVE FALSE
    OBVIOUS
  <2>1. n \in nodesOf[first] /\ n \notin nodesOf[first + 1]
    BY DEF Orphans
  <2>2. n[1] <= first /\ n \in AllNodes
    BY <2>1, <1>l, <1>t, <1>a DEF IndInv, SharedSinceCreation
  <2>3. n[1] <= first + 1
    BY SMTT(60), <2>2, <1>t, NodesArePairs
  <2>4. n \in nodesOf[first + 1]
    BY <2>3, <1>l DEF IndInv, SharedSinceCreation
  <2> QED
    BY <2>1, <2>4
<1>w. \A n : n \in nodesOf[first] /\ n \notin Orphans => n \in nodesOf[first + 1]
  BY DEF Orphans
<1>x. \A n : (\E v \in Live' : n \in nodesOf'[v]) <=> (\E v \in Live : n \in nodesOf[v]) /\ n \notin Orphans
  BY <1>l, <1>o, <1>u, <1>w
<1>1. TypeOK'
  <2>1. nodesOf' \in [Versions -> SUBSET AllNodes]
    BY <1>t DEF deleteVersion, IndInv, TypeOK
  <2>2. rootOf' \in [Versions -> AllNodes \cup {NoRoot}]
    BY <1>t DEF deleteVersion, IndInv, TypeOK
  <2>3. <<first, 0>> \in AllKeys
    BY <1>t DEF AllKeys
  <2>4. keys' \in SUBSET AllKeys
    BY <2>3 DEF deleteVersion, IndInv, TypeOK
  <2> QED
    BY <2>1, <2>2, <2>4, <1>l, <1>t DEF TypeOK
<1>2. IntervalInv'
  <2>1. (first = 0 <=> latest = 0)' /\ (first <= latest)'
    BY SMTT(60), <1>l, <1>t
  <2>2. ASSUME NEW v \in Versions \ Live' PROVE nodesOf'[v] = {} /\ rootOf'[v] = NoRoot
    BY <1>l, <1>n DEF IndInv, IntervalInv
  <2> QED
    BY <2>1, <2>2 DEF IntervalInv
<1>3. SharedSinceCreation'
  BY <1>l, <1>o DEF IndInv, SharedSinceCreation
<1>4. OneRoot'
  BY <1>l, <1>o DEF IndInv, OneRoot, RootKey
<1>5. KeysExact'
  <2> SUFFICES ASSUME NEW k \in AllKeys
               PROVE  k \in keys' <=>
                        \/ k[2] = 1 /\ k[1] \in Live'
                        \/ k[2] > 1 /\ \E v \in Live' : k \in nodesOf'[v]
                        \/ k[2] = 0 /\ k[1] < first' /\ \E v \in Live' : <<k[1], 1>> \in nodesOf'[v]
    BY DEF KeysExact
  <2>k. k = <<k[1], k[2]>> /\ k[1] \in Nat /\ k[2] \in Nat
    BY KeysArePairs
  <2>e. k \in keys <=>
           \/ k[2] = 1 /\ k[1] \in Live
           \/ k[2] > 1 /\ \E v \in Live : k \in nodesOf[v]
           \/ k[2] = 0 /\ k[1] < first /\ \E v \in Live : <<k[1], 1>> \in nodesOf[v]
    BY DEF IndInv, KeysExact
  <2> DEFINE gone == \E n \in Orphans : k = OrphanKey(n)
             old == k = RootKey(first) /\ (rootOf[first] # k \/ rootOf[first + 1] = k)
             moved == k = <<first, 0>> /\ rootOf[first + 1] = RootKey(first)
  <2>d. k \in keys' <=> (k \in keys /\ ~gone /\ ~old) \/ moved
    BY DEF deleteVersion
  <2>p. \A n \in Orphans : n \in AllNodes /\ n[1] <= first /\ n \in nodesOf[first]
    BY <1>a, <1>t, <1>l DEF Orphans, IndInv, SharedSinceCreation
  <2>1. CASE k[2] = 1
    <3>1. ~moved
      BY SMTT(60), <2>1
    <3>2. gone => k \in Orphans /\ k[1] <= first
      BY SMTT(60), <2>1, <2>p DEF OrphanKey
    <3>3. CASE k[1] = first
      <4>1. k = RootKey(first)
        BY <2>1, <2>k, <3>3 DEF RootKey
      <4>2. ASSUME ~old PROVE gone
        <5>1. rootOf[first] = k /\ rootOf[first + 1] # k
          BY <4>1, <4>2
        <5>2. k \in nodesOf[first]
          BY <5>1, <4>1, <1>l DEF IndInv, OneRoot
        <5>3. k \notin nodesOf[first + 1]
          BY <5>1, <2>1, <1>l DEF IndInv, OneRoot
        <5>4. k \in Orphans
          BY <5>2, <5>3 DEF Orphans
        <5>5. OrphanKey(k) = k
          BY SMTT(60), <3>3, <1>t DEF OrphanKey
        <5> QED
          BY <5>4, <5>5
      <4>3. k[1] \notin Live'
        BY <3>3, <1>l
      <4> QED
        BY SMTT(60), <2>1, <2>d, <3>1, <4>2, <4>3
    <3>4. CASE k[1] # first
      <4>1. ~old
        BY SMTT(60), <3>4 DEF RootKey
      <4>2. k[1] \in Live' => ~gone
        <5>1. k[1] \in Live' => ~(k[1] <= first)
          BY <1>m
        <5> QED
          BY <5>1, <3>2
      <4>3. k[1] \in Live' <=> k[1] \in Live
        BY <3>4, <1>l
      <4> QED
        BY SMTT(60), <2>1, <2>e, <2>d, <3>1, <4>1, <4>2, <4>3
    <3> QED
      BY <3>3, <3>4
  <2>2. CASE k[2] > 1
    <3>1. ~moved /\ ~old
      BY SMTT(60), <2>2 DEF RootKey
    <3>2. gone <=> k \in Orphans
      <4>1. \A n \in Orphans : k = OrphanKey(n) => k = n
        BY SMTT(60), <2>2 DEF OrphanKey
      <4>2. OrphanKey(k) = k
        BY SMTT(60), <2>2, <2>k DEF OrphanKey
      <4> QED
        BY <4>1, <4>2
    <3>3. k \in keys <=> \E v \in Live : k \in nodesOf[v]
      BY SMTT(60), <2>2, <2>e, <2>k
    <3> QED
      BY SMTT(60), <2>2, <2>d, <2>k, <3>1, <3>2, <3>3, <1>x
  <2>3. CASE k[2] = 0
    <3> DEFINE n == <<k[1], 1>>
    <3>1. ~old
      BY SMTT(60), <2>3 DEF RootKey
    <3>2. k \in keys <=> k[1] < first /\ \E v \in Live : n \in nodesOf[v]
      BY SMTT(60), <2>3, <2>e, <2>k
    <3>3. k[1] < first => (gone <=> n \in Orphans)
      <4>1. \A m \in Orphans : k = OrphanKey(m) => m = n
        <5> SUFFICES ASSUME NEW m \in Orphans, k = OrphanKey(m) PROVE m = n
          OBVIOUS
        <5>1. m = <<m[1], m[2]>> /\ m[2] # 0
          BY <2>p, NodesArePairs
        <5>2. m[2] = 1 /\ k = <<m[1], 0>>
          BY <5>1, <2>3 DEF OrphanKey
        <5> QED
          BY SMTT(60), <5>1, <5>2
      <4>2. k[1] < first => OrphanKey(n) = k
        BY <2>3, <2>k DEF OrphanKey
      <4> QED
        BY <4>1, <4>2
    <3>4. CASE k[1] < first
      <4>1. ~moved
        BY SMTT(60), <3>4, <1>t
      <4>2. k[1] < first'
        BY SMTT(60), <3>4, <1>l, <1>t, <2>k
      <4>3. k \in keys' <=> (\E v \in Live : n \in nodesOf[v]) /\ n \notin Orphans
        BY <2>d, <3>1, <3>2, <3>3, <3>4, <4>1
      <4> QED
        BY SMTT(60), <2>3, <4>2, <4>3, <1>x
    <3>5. CASE k[1] = first
      <4>1. k \notin keys
        BY SMTT(60), <3>2, <3>5, <1>t
      <4>2. n = RootKey(first) /\ k = <<first, 0>> /\ n[2] = 1
        BY <3>5, <2>3, <2>k DEF RootKey
      <4>3. n \in nodesOf[first + 1] <=> rootOf[first + 1] = n
        <5>1. n # NoRoot
          BY SMTT(60) DEF NoRoot
        <5>2. first + 1 \in Live
          BY <1>l
        <5> QED
          BY SMTT(60), <4>2, <5>1, <5>2 DEF IndInv, OneRoot
      <4>4. n \in nodesOf[first + 1] <=> \E v \in Live' : n \in nodesOf'[v]
        <5>1. ASSUME NEW v \in Live', n \in nodesOf'[v] PROVE n \in nodesOf[first + 1]
          <6>1. n \in nodesOf[v] /\ n[1] = first /\ v \in Live /\ first <= first + 1 /\ first + 1 <= v
            BY SMTT(60), <5>1, <1>o, <3>5, <1>l, <1>t
          <6> QED
            BY <6>1, <1>l DEF IndInv, SharedSinceCreation
        <5> QED
          BY <5>1, <1>l, <1>o
      <4>5. k[1] < first'
        BY SMTT(60), <3>5, <1>l, <1>t
      <4> QED
        BY SMTT(60), <2>3, <2>d, <4>1, <4>2, <4>3, <4>4, <4>5
    <3>6. CASE k[1] > first
      <4>1. k \notin keys /\ ~moved
        BY SMTT(60), <3>2, <3>6, <1>t, <2>k
      <4>2. ~(k[1] < first')
        BY SMTT(60), <3>6, <1>l, <1>t, <2>k
      <4> QED
        BY SMTT(60), <2>3, <2>d, <4>1, <4>2
    <3> QED
      BY SMTT(60), <3>4, <3>5, <3>6, <2>k, <1>t
  <2> QED
    BY SMTT(60), <2>1, <2>2, <2>3, <2>k
<1> QED
  BY <1>1, <1>2, <1>3, <1>4, <1>5 DEF IndInv

(* Deleting every key of a later version than t: a node that such a        *)
(* version shares with t was created by t or before.                       *)
LEMMA DeleteVersionsAfterInv ==
  ASSUME IndInv, NEW t \in Versions, DeleteVersionsAfter(t)
  PROVE  IndInv'
<1>t. /\ first \in Nat /\ latest \in Nat /\ t \in Nat /\ 0 < first /\ first <= t /\ t <= latest
      /\ first \in Versions /\ latest \in Versions /\ t \in Live
  <2>1. t \in Live
    BY DEF DeleteVersionsAfter
  <2>2. first \in Versions /\ latest \in Versions /\ first \in Nat /\ latest \in Nat /\ t \in Nat
    BY SMTT(60), MaxVersionAssumption DEF IndInv, TypeOK, Versions
  <2>3. first <= t /\ t <= latest /\ t > 0
    BY SMTT(60), <2>1, <2>2 DEF Live
  <2>4. first # 0
    BY SMTT(60), <2>3, <2>2 DEF IndInv, IntervalInv
  <2> QED
    BY SMTT(60), <2>1, <2>2, <2>3, <2>4
<1>l. /\ first' = first /\ latest' = t
      /\ Live' = {v \in Live : v <= t} /\ t \in Live'
      /\ \A v \in Live : v \in Versions /\ v \in Nat /\ v > 0 /\ v >= first
  <2>1. first' = first /\ latest' = t
    BY DEF DeleteVersionsAfter
  <2>2. Live' = first .. t
    BY SMTT(60), <2>1, <1>t DEF Live
  <2>3. Live = first .. latest
    BY SMTT(60), <1>t DEF Live
  <2> QED
    BY SMTT(60), <2>1, <2>2, <2>3, <1>t, MaxVersionAssumption DEF Versions
<1>n. \A v \in Versions :
        /\ nodesOf'[v] = IF v > t THEN {} ELSE nodesOf[v]
        /\ rootOf'[v] = IF v > t THEN NoRoot ELSE rootOf[v]
  BY DEF DeleteVersionsAfter
<1>o. \A v \in Live' : nodesOf'[v] = nodesOf[v] /\ rootOf'[v] = rootOf[v] /\ v \in Live /\ v <= t
  BY SMTT(60), <1>l, <1>n, <1>t
<1>x. \A n \in AllNodes :
        (\E v \in Live' : n \in nodesOf'[v]) <=> (\E v \in Live : n \in nodesOf[v]) /\ n[1] <= t
  <2> TAKE n \in AllNodes
  <2>n. n[1] \in Nat
    BY NodesArePairs
  <2>1. ASSUME NEW v \in Live', n \in nodesOf'[v] PROVE n \in nodesOf[v] /\ v \in Live /\ n[1] <= t
    <3>1. n \in nodesOf[v] /\ v \in Live /\ v <= t /\ v \in Nat
      BY <2>1, <1>o, <1>l
    <3>2. n[1] <= v
      BY <3>1 DEF IndInv, SharedSinceCreation
    <3> QED
      BY SMTT(60), <3>1, <3>2, <2>n, <1>t
  <2>2. ASSUME NEW v \in Live, n \in nodesOf[v], n[1] <= t PROVE \E w \in Live' : n \in nodesOf'[w]
    <3>1. CASE v <= t
      <4>1. v \in Live'
        BY <3>1, <1>l
      <4> QED
        BY <4>1, <2>2, <1>o
    <3>2. CASE t <= v
      <4>1. n \in nodesOf[t]
        BY <3>2, <2>2, <1>t DEF IndInv, SharedSinceCreation
      <4> QED
        BY <4>1, <1>l, <1>o
    <3> QED
      BY SMTT(60), <3>1, <3>2, <1>l, <1>t
  <2> QED
    BY <2>1, <2>2
<1>1. TypeOK'
  <2>1. nodesOf' \in [Versions -> SUBSET AllNodes]
    BY DEF DeleteVersionsAfter, IndInv, TypeOK
  <2>2. rootOf' \in [Versions -> AllNodes \cup {NoRoot}]
    BY DEF DeleteVersionsAfter, IndInv, TypeOK
  <2>3. keys' \in SUBSET AllKeys
    BY DEF DeleteVersionsAfter, IndInv, TypeOK
  <2> QED
    BY <2>1, <2>2, <2>3, <1>l, <1>t DEF TypeOK
<1>2. IntervalInv'
  <2>1. (first = 0 <=> latest = 0)' /\ (first <= latest)'
    BY SMTT(60), <1>l, <1>t
  <2>2. ASSUME NEW v \in Versions \ Live' PROVE nodesOf'[v] = {} /\ rootOf'[v] = NoRoot
    <3>1. CASE v > t
      BY <3>1, <1>n
    <3>2. CASE ~(v > t)
      <4>1. v \notin Live
        BY SMTT(60), <3>2, <1>l, <1>t
      <4> QED
        BY <3>2, <4>1, <1>n DEF IndInv, IntervalInv
    <3> QED
      BY <3>1, <3>2
  <2> QED
    BY <2>1, <2>2 DEF IntervalInv
<1>3. SharedSinceCreation'
  BY <1>o DEF IndInv, SharedSinceCreation
<1>4. OneRoot'
  BY <1>o DEF IndInv, OneRoot, RootKey
<1>5. KeysExact'
  <2> SUFFICES ASSUME NEW k \in AllKeys
               PROVE  k \in keys' <=>
                        \/ k[2] = 1 /\ k[1] \in Live'
                        \/ k[2] > 1 /\ \E v \in Live' : k \in nodesOf'[v]
                        \/ k[2] = 0 /\ k[1] < first' /\ \E v \in Live' : <<k[1], 1>> \in nodesOf'[v]
    BY DEF KeysExact
  <2>k. k = <<k[1], k[2]>> /\ k[1] \in Nat /\ k[2] \in Nat /\ k[1] \in Versions
    BY KeysArePairs
  <2>e. k \in keys <=>
           \/ k[2] = 1 /\ k[1] \in Live
           \/ k[2] > 1 /\ \E v \in Live : k \in nodesOf[v]
           \/ k[2] = 0 /\ k[1] < first /\ \E v \in Live : <<k[1], 1>> \in nodesOf[v]
    BY DEF IndInv, KeysExact
  <2>d. k \in keys' <=> k \in keys /\ k[1] <= t
    BY DEF DeleteVersionsAfter
  <2>1. CASE k[2] = 1
    BY SMTT(60), <2>1, <2>d, <2>e, <1>l
  <2>2. CASE k[2] > 1
    <3>1. k \in AllNodes
      BY SMTT(60), <2>2 DEF AllKeys, AllNodes
    <3> QED
      BY SMTT(60), <2>2, <2>d, <2>e, <2>k, <3>1, <1>x
  <2>3. CASE k[2] = 0
    <3>1. <<k[1], 1>> \in AllNodes /\ <<k[1], 1>>[1] = k[1]
      BY <2>k, NoncesAssumption DEF AllNodes
    <3>2. k[1] < first => k[1] <= t
      BY SMTT(60), <2>k, <1>t
    <3> QED
      BY SMTT(60), <2>3, <2>d, <2>e, <2>k, <3>1, <3>2, <1>l, <1>x
  <2> QED
    BY SMTT(60), <2>1, <2>2, <2>3, <2>k
<1> QED
  BY <1>1, <1>2, <1>3, <1>4, <1>5 DEF IndInv

-----------------------------------------------------------------------------
(* Every step preserves the invariant.                                     *)
LEMMA NextInv == IndInv /\ [Next]_vars => IndInv'
<1> SUFFICES ASSUME IndInv, [Next]_vars PROVE IndInv'
  OBVIOUS
<1>1. ASSUME NEW new \in SUBSET Nonces, NEW kept \in SUBSET nodesOf[latest],
             SaveNewNodes(({latest + 1} \X new) \cup kept)
      PROVE  IndInv'
  BY <1>1, SaveNewNodesInv
<1>2. ASSUME NEW ns \in SUBSET nodesOf[latest], NEW r \in ns, SaveRoot(ns, r) PROVE IndInv'
  BY <1>2, SaveRootInv
<1>3. CASE SaveEmptyRoot
  BY <1>3, SaveEmptyRootInv
<1>4. CASE deleteVersion
  BY <1>4, deleteVersionInv
<1>5. ASSUME NEW t \in Versions, DeleteVersionsAfter(t) PROVE IndInv'
  BY <1>5, DeleteVersionsAfterInv
<1>6. CASE UNCHANGED vars
  BY SMTT(60), <1>6 DEF vars, IndInv, TypeOK, IntervalInv, SharedSinceCreation, OneRoot, KeysExact, Live
<1> QED
  BY <1>1, <1>2, <1>3, <1>4, <1>5, <1>6 DEF Next

(* The invariant holds in every state of every behaviour.                  *)
LEMMA Invariance == Spec => []IndInv
  BY InitInv, NextInv, PTL DEF Spec

(* The exact description of the keys implies the three properties.         *)
LEMMA KeysAreRight == IndInv => NothingLost /\ NothingLeaked /\ RootsMarkVersions
<1> SUFFICES ASSUME IndInv PROVE NothingLost /\ NothingLeaked /\ RootsMarkVersions
  OBVIOUS
<1>t. /\ first \in Nat /\ latest \in Nat
      /\ \A v \in Live : v \in Versions /\ v \in Nat /\ v <= latest /\ v >= first
  <2>1. first \in Versions /\ latest \in Versions
    BY DEF IndInv, TypeOK
  <2> QED
    BY SMTT(60), <2>1, MaxVersionAssumption DEF Versions, Live
<1>e. \A k \in AllKeys : k \in keys <=>
        \/ k[2] = 1 /\ k[1] \in Live
        \/ k[2] > 1 /\ \E v \in Live : k \in nodesOf[v]
        \/ k[2] = 0 /\ k[1] < first /\ \E v \in Live : <<k[1], 1>> \in nodesOf[v]
  BY DEF IndInv, KeysExact
<1>1. NothingLost
  <2> SUFFICES ASSUME NEW v \in Live, NEW n \in nodesOf[v] PROVE KeyOf(n) \in keys
    BY DEF NothingLost
  <2>1. n \in AllNodes /\ n[1] \in Nat /\ n[2] \in Nat \ {0} /\ n[1] \in Versions /\ n = <<n[1], n[2]>>
    BY <1>t, NodesArePairs DEF IndInv, TypeOK
  <2>2. n \in AllKeys /\ <<n[1], 0>> \in AllKeys
    BY <2>1 DEF AllNodes, AllKeys
  <2>3. n[1] <= v /\ n[1] > 0
    BY DEF IndInv, SharedSinceCreation
  <2>4. CASE n[2] = 1 /\ n[1] < first
    <3>1. <<<<n[1], 0>>[1], 1>> \in nodesOf[v]
      BY <2>1, <2>4
    <3> QED
      BY <2>2, <2>4, <3>1, <1>e DEF KeyOf
  <2>5. CASE n[2] = 1 /\ ~(n[1] < first)
    <3>1. n[1] \in Live
      BY SMTT(60), <2>1, <2>3, <2>5, <1>t DEF Live
    <3> QED
      BY <2>2, <2>5, <3>1, <1>e DEF KeyOf
  <2>6. CASE n[2] # 1
    <3>1. n[2] > 1
      BY SMTT(60), <2>1, <2>6
    <3> QED
      BY <2>2, <2>6, <3>1, <1>e DEF KeyOf
  <2> QED
    BY <2>4, <2>5, <2>6
<1>2. NothingLeaked
  <2> SUFFICES ASSUME NEW k \in keys
               PROVE  \/ \E v \in Live : k = RootKey(v)
                      \/ \E v \in Live : \E n \in nodesOf[v] : k = KeyOf(n)
    BY DEF NothingLeaked
  <2>1. k \in AllKeys /\ k[1] \in Nat /\ k[2] \in Nat /\ k = <<k[1], k[2]>>
    BY KeysArePairs DEF IndInv, TypeOK
  <2>2. CASE k[2] = 1 /\ k[1] \in Live
    BY <2>1, <2>2 DEF RootKey
  <2>3. ASSUME NEW v \in Live, k[2] > 1, k \in nodesOf[v] PROVE k = KeyOf(k)
    BY SMTT(60), <2>1, <2>3 DEF KeyOf
  <2>4. ASSUME NEW v \in Live, k[2] = 0, k[1] < first PROVE k = KeyOf(<<k[1], 1>>)
    BY <2>1, <2>4 DEF KeyOf
  <2> QED
    BY <2>1, <2>2, <2>3, <2>4, <1>e
<1>3. RootsMarkVersions
  <2>1. ASSUME NEW v \in Versions PROVE RootKey(v) \in keys <=> v \in Live
    <3>1. RootKey(v) \in AllKeys /\ RootKey(v)[1] = v /\ RootKey(v)[2] = 1
      BY NoncesAssumption DEF RootKey, AllKeys
    <3>2. \A k \in AllKeys : k[1] = v /\ k[2] = 1 => (k \in keys <=> v \in Live)
      <4> SUFFICES ASSUME NEW k \in AllKeys, k[1] = v, k[2] = 1 PROVE k \in keys <=> k[1] \in Live
        OBVIOUS
      <4>1. ~(k[2] > 1) /\ ~(k[2] = 0)
        BY SMTT(60)
      <4> QED
        BY <4>1, <1>e
    <3> HIDE DEF RootKey
    <3> QED
      BY <3>1, <3>2
  <2>2. ASSUME NEW k \in keys PROVE k[1] <= latest
    <3>1. k \in AllKeys /\ k[1] \in Nat
      BY KeysArePairs DEF IndInv, TypeOK
    <3>2. CASE k[1] \in Live
      BY <3>2, <1>t
    <3>3. ASSUME NEW v \in Live, k \in nodesOf[v] PROVE k[1] <= latest
      <4>1. k[1] <= v /\ v <= latest
        BY <3>3, <1>t DEF IndInv, SharedSinceCreation
      <4> QED
        BY SMTT(60), <4>1, <3>1, <1>t
    <3>4. CASE k[1] < first
      <4>1. first <= latest
        BY DEF IndInv, IntervalInv
      <4> QED
        BY SMTT(60), <4>1, <3>4, <3>1, <1>t
    <3> QED
      BY <3>1, <3>2, <3>3, <3>4, <1>e
  <2> QED
    BY <2>1, <2>2 DEF RootsMarkVersions
<1> QED
  BY <1>1, <1>2, <1>3

-----------------------------------------------------------------------------
(* Keys, nodes and versions have their types.                              *)
THEOREM TypeCorrect == Spec => []TypeOK
<1>1. IndInv => TypeOK
  BY DEF IndInv
<1> QED
  BY <1>1, Invariance, PTL

(* SaveVersion, deleteVersion and DeleteVersionsFrom, in any order and for *)
(* any number of versions and nodes, leave every node of every version     *)
(* that exists under the key it is looked for.                             *)
THEOREM NothingLostAlways == Spec => []NothingLost
  BY KeysAreRight, Invariance, PTL

(* Nor do they leave a key that no version uses: comparing a version with  *)
(* the next one finds everything that its deletion frees.                  *)
THEOREM NothingLeakedAlways == Spec => []NothingLeaked
  BY KeysAreRight, Invariance, PTL

(* hasVersion holds of an interval of versions, so that the binary search  *)
(* of getFirstVersion is right, and getLatestVersion finds its end.        *)
THEOREM RootsMarkVersionsAlways == Spec => []RootsMarkVersions
  BY KeysAreRight, Invariance, PTL
=============================================================================
