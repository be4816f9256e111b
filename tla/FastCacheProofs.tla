-------------------------- MODULE FastCacheProofs ---------------------------
(***************************************************************************)
(* Proofs about FastCache, for any number of keys, values and readers and  *)
(* for a cache of any size: as long as no Get looks for a key on which     *)
(* batch, index and tree may differ and which is not in the cache, and     *)
(* nobody goes back to an old version under a reader, the cache agrees     *)
(* with the index and every Get is right.                                  *)
(***************************************************************************)
EXTENDS FastCache, TLAPS

(* A leaf is for Zenon unless it names the SMT solver; each prover has up to
   sixty seconds, so that no proof depends on the speed of a machine.       *)
USE ZenonT(60)

Touched == {k \in Keys : additions[k] # NoNode} \cup removals

(* The node n is right about key k for every version that it speaks of.    *)
Truthful(k, n) ==
  \A w \in Versions : n.version <= w /\ w <= newest => saved[w][k] = n.value

(* The node n is what the index should have for key k.                     *)
Current(k, n) ==
  /\ n = NoNode => saved[newest][k] = NoValue
  /\ n # NoNode => n.version <= newest /\ Truthful(k, n)

Types ==
  /\ saved \in [Versions -> Contents]
  /\ newest \in Versions /\ latestVersion \in Versions
  /\ index \in [Keys -> FastNodes \cup {NoNode}]
  /\ batch \in [Keys -> FastNodes \cup {NoNode, NoWrite}]
  /\ dict \in [Keys -> FastNodes \cup {NoNode}]
  /\ phase \in {"idle", "save", "committed", "rebuild"}
  /\ writes \subseteq Keys /\ deletes \subseteq Keys /\ unsettled \subseteq Keys
  /\ working \in Contents
  /\ additions \in [Keys -> FastNodes \cup {NoNode}]
  /\ removals \subseteq Keys
  /\ reader \in [Readers -> {NoRead} \cup
                   [busy : {TRUE}, version : 1 .. MaxVersion, key : Keys,
                    node : FastNodes \cup {NoNode}]]

(* Where the writer is in its call.                                        *)
Phases ==
  /\ phase = "idle" =>
       writes = {} /\ deletes = {} /\ unsettled = {} /\ latestVersion = newest
  /\ phase = "save" =>
       /\ latestVersion = newest /\ newest < MaxVersion
       /\ writes \cup deletes \cup unsettled = Touched
       /\ \A k \in writes : additions[k] # NoNode /\ k \notin unsettled
       /\ \A k \in deletes : k \in removals /\ k \notin unsettled
  /\ phase = "committed" =>
       /\ writes = {} /\ deletes = {} /\ unsettled = Touched
       /\ newest = latestVersion + 1 /\ working = saved[newest] /\ batch = NoWrites
  /\ phase = "rebuild" =>
       /\ latestVersion = newest /\ newest > 0 /\ unsettled = Keys
       /\ additions = NoNodes /\ removals = {} /\ working = saved[newest]
       /\ \A k \in writes : working[k] # NoValue

(* What the working tree has not saved.                                    *)
Unsaved ==
  \A k \in Keys :
    /\ additions[k] # NoNode =>
         /\ additions[k] = FastNode(working[k], latestVersion + 1)
         /\ k \notin removals
    /\ k \in removals => working[k] = NoValue
    /\ k \notin Touched => working[k] = saved[latestVersion][k]

(* The keys that the call has not written, or that no call is writing.     *)
Settled ==
  \A k \in Keys \ unsettled :
    /\ batch[k] = NoWrite
    /\ dict[k] \in {NoNode, index[k]}
    /\ Current(k, index[k])

(* The keys that SaveVersion has written.                                  *)
Saved ==
  phase \in {"save", "committed"} =>
    \A k \in unsettled :
      Written[k] = additions[k] /\ dict[k] \in {NoNode, additions[k]}

(* The keys while the index is rebuilt.                                    *)
Rebuilt ==
  phase = "rebuild" =>
    \A k \in Keys :
      /\ dict[k] # NoNode => k \in deletes /\ Truthful(k, dict[k])
      /\ k \notin deletes =>
           Written[k] = IF k \in writes \/ working[k] = NoValue THEN NoNode
                        ELSE FastNode(working[k], newest)
      /\ k \in deletes => k \in writes \/ working[k] = NoValue

(* What a reader has found, now or some steps ago.                         *)
Found(get) ==
  /\ get.version <= newest
  /\ get.node # NoNode /\ get.node.version <= get.version =>
       saved[get.version][get.key] = get.node.value
  /\ get.node = NoNode /\ get.version \in {latestVersion, newest} =>
       saved[get.version][get.key] = NoValue

Reading == \A r \in Readers : reader[r].busy => Found(reader[r])

(* The inductive invariant.                                                *)
IInv == Types /\ Phases /\ Unsaved /\ Settled /\ Saved /\ Rebuilt /\ Reading

-----------------------------------------------------------------------------
(* A fast node is none of the absent ones.                                 *)
LEMMA NodesDiffer ==
  /\ NoNode \notin FastNodes /\ NoWrite \notin FastNodes /\ NoNode # NoWrite
  /\ \A x \in Values, v \in 1 .. MaxVersion : FastNode(x, v) \in FastNodes
BY SMTT(60), NoValueAssumption DEF NoNode, NoWrite, FastNode, FastNodes

(* What an operation on the batch does, whether or not it was written out: *)
(* only the key it is for changes, and keys without a write keep theirs.   *)
LEMMA BatchedLemma ==
  ASSUME Types, NEW k \in Keys, NEW node \in FastNodes \cup {NoNode}, Batched(k, node)
  PROVE  /\ index' \in [Keys -> FastNodes \cup {NoNode}]
         /\ batch' \in [Keys -> FastNodes \cup {NoNode, NoWrite}]
         /\ saved' = saved /\ newest' = newest
         /\ Written'[k] = node
         /\ \A j \in Keys \ {k} : Written'[j] = Written[j]
         /\ \A j \in Keys \ {k} : batch[j] = NoWrite => batch'[j] = NoWrite /\ index'[j] = index[j]
<1>1. node # NoWrite
  BY NodesDiffer
<1>2. CASE /\ batch' = [batch EXCEPT ![k] = node]
           /\ UNCHANGED <<saved, newest, index>>
  BY <1>1, <1>2 DEF Types, Written
<1>3. CASE /\ index' = Written
           /\ batch' = [NoWrites EXCEPT ![k] = node]
           /\ UNCHANGED <<saved, newest>>
  <2>1. Written \in [Keys -> FastNodes \cup {NoNode}]
    BY DEF Types, Written
  <2>2. NoWrites \in [Keys -> FastNodes \cup {NoNode, NoWrite}]
    BY DEF NoWrites
  <2>3. batch'[k] = node /\ \A j \in Keys \ {k} : batch'[j] = NoWrite
    BY <1>3, <2>2 DEF NoWrites
  <2>4. \A j \in Keys : Written'[j] = IF batch'[j] = NoWrite THEN index'[j] ELSE batch'[j]
    BY DEF Written
  <2>5. \A j \in Keys : batch[j] = NoWrite => Written[j] = index[j]
    BY DEF Written
  <2>6. batch' \in [Keys -> FastNodes \cup {NoNode, NoWrite}]
    BY <1>3, <2>2
  <2> QED
    BY <1>1, <1>3, <2>1, <2>3, <2>4, <2>5, <2>6
<1> QED
  BY <1>2, <1>3 DEF Batched

(* What Add does to the map of the cache: one more node, perhaps one less. *)
LEMMA AddLemma ==
  ASSUME Types, NEW k \in Keys, NEW node \in FastNodes, Add(k, node)
  PROVE  /\ dict' \in [Keys -> FastNodes \cup {NoNode}]
         /\ dict'[k] = node
         /\ \A j \in Keys \ {k} : dict'[j] \in {NoNode, dict[j]}
<1> DEFINE used == <<k>> \o Others(k)
<1>1. /\ Kept(used) \in [Keys -> FastNodes \cup {NoNode}]
      /\ \A j \in Keys : Kept(used)[j] \in {NoNode, dict[j]}
  <2> HIDE DEF used
  <2> QED BY DEF Types, Kept
<1>2. dict' = [Kept(used) EXCEPT ![k] = node]
  BY DEF Add
<1> HIDE DEF used
<1> QED
  BY <1>1, <1>2

-----------------------------------------------------------------------------
(* The invariant holds for an empty database.                              *)
LEMMA InitInv == Init => IInv
<1> SUFFICES ASSUME Init PROVE IInv
  OBVIOUS
<1> USE BoundsAssumption DEF Init
<1>1. Types
  BY SMTT(60), NodesDiffer DEF Types, Versions, Contents, Nothing, NoNodes, NoWrites
<1>2. Phases
  BY DEF Phases
<1>a. saved[0] = Nothing /\ \A k \in Keys : Nothing[k] = NoValue
  BY SMTT(60) DEF Versions, Nothing
<1>b. \A k \in Keys : NoNodes[k] = NoNode /\ NoWrites[k] = NoWrite
  BY DEF NoNodes, NoWrites
<1>3. Unsaved
  BY <1>a, <1>b DEF Unsaved
<1>4. Settled
  BY <1>a, <1>b DEF Settled, Current
<1>5. Saved /\ Rebuilt
  BY DEF Saved, Rebuilt
<1>6. Reading
  BY DEF Reading, NoRead
<1> QED
  BY <1>1, <1>2, <1>3, <1>4, <1>5, <1>6 DEF IInv

(* Steps that leave the database, the cache and the readers alone: what is *)
(* known of them stays true.                                               *)
LEMMA TreeStep ==
  ASSUME IInv, UNCHANGED <<disk, cache, latestVersion, call, reader>>,
         phase = "idle"
  PROVE  Settled' /\ Saved' /\ Rebuilt' /\ Reading'
<1> USE DEF disk, cache, call
<1>1. Settled'
  BY DEF IInv, Settled, Current, Truthful
<1>2. Saved' /\ Rebuilt'
  BY DEF IInv, Saved, Rebuilt
<1>3. Reading'
  BY DEF IInv, Reading, Found
<1> QED
  BY <1>1, <1>2, <1>3

(* Set and Remove change the working tree and what is unsaved.             *)
LEMMA SetStep ==
  ASSUME IInv, NEW k \in Keys, NEW x \in Values, Set(k, x)
  PROVE  IInv'
<1> USE DEF Set
<1>a. newest + 1 \in 1 .. MaxVersion
  BY SMTT(60), BoundsAssumption DEF IInv, Types, Versions
<1>0. /\ Types /\ Phases /\ Unsaved /\ phase = "idle" /\ latestVersion = newest
      /\ FastNode(x, newest + 1) \in FastNodes
  BY <1>a, NodesDiffer DEF IInv, Phases
<1>1. Types'
  BY <1>0 DEF Types, Contents, disk, cache, call
<1>2. Phases'
  BY <1>0 DEF Phases, call, disk
<1>3. Unsaved'
  <2> SUFFICES ASSUME NEW j \in Keys
               PROVE  /\ additions'[j] # NoNode =>
                           /\ additions'[j] = FastNode(working'[j], latestVersion' + 1)
                           /\ j \notin removals'
                      /\ j \in removals' => working'[j] = NoValue
                      /\ j \notin Touched' => working'[j] = saved'[latestVersion'][j]
    BY DEF Unsaved
  <2>1. CASE j = k
    BY <1>0, <2>1, NodesDiffer DEF Types, Contents, Touched
  <2>2. CASE j # k
    <3>1. additions'[j] = additions[j] /\ working'[j] = working[j] /\ (j \in removals' <=> j \in removals)
      BY <1>0, <2>2 DEF Types, Contents
    <3> QED
      BY <1>0, <3>1 DEF Unsaved, Touched, disk
  <2> QED
    BY <2>1, <2>2
<1> QED
  BY <1>1, <1>2, <1>3, TreeStep DEF IInv

(* Remove changes the unsaved changes only.                                *)
LEMMA RemoveStep ==
  ASSUME IInv, NEW k \in Keys, Remove(k)
  PROVE  IInv'
<1> USE DEF Remove
<1>0. Types /\ Phases /\ Unsaved /\ phase = "idle"
  BY DEF IInv
<1>1. Types'
  BY <1>0 DEF Types, Contents, disk, cache, call
<1>2. Phases'
  BY <1>0 DEF Phases, call, disk
<1>3. Unsaved'
  <2> SUFFICES ASSUME NEW j \in Keys
               PROVE  /\ additions'[j] # NoNode =>
                           /\ additions'[j] = FastNode(working'[j], latestVersion' + 1)
                           /\ j \notin removals'
                      /\ j \in removals' => working'[j] = NoValue
                      /\ j \notin Touched' => working'[j] = saved'[latestVersion'][j]
    BY DEF Unsaved
  <2>1. CASE j = k
    BY <1>0, <2>1 DEF Types, Contents, Touched
  <2>2. CASE j # k
    <3>1. additions'[j] = additions[j] /\ working'[j] = working[j] /\ (j \in removals' <=> j \in removals)
      BY <1>0, <2>2 DEF Types, Contents
    <3> QED
      BY <1>0, <3>1 DEF Unsaved, Touched, disk
  <2> QED
    BY <2>1, <2>2
<1> QED
  BY <1>1, <1>2, <1>3, TreeStep DEF IInv

(* SaveVersion begins: nothing is written yet.                             *)
LEMMA SaveVersionStep ==
  ASSUME IInv, SaveVersion
  PROVE  IInv'
<1> USE DEF SaveVersion, disk, cache, tree
<1>1. Types'
  BY DEF IInv, Types
<1>2. Phases'
  BY DEF IInv, Types, Phases, Touched
<1>3. Unsaved'
  BY DEF IInv, Unsaved, Touched
<1>4. Settled'
  BY DEF IInv, Settled, Current, Truthful
<1>5. Saved' /\ Rebuilt'
  BY DEF IInv, Phases, Saved, Rebuilt
<1>6. Reading'
  BY DEF IInv, Reading, Found
<1> QED
  BY <1>1, <1>2, <1>3, <1>4, <1>5, <1>6 DEF IInv

(* SaveFastNode: the key is written, in the batch and in the cache.  The   *)
(* node that the cache drops for it is missed by nobody.                   *)
LEMMA SaveFastNodeStep ==
  ASSUME IInv, NEW k \in Keys, SaveFastNode(k)
  PROVE  IInv'
<1> USE DEF SaveFastNode, First
<1>0. /\ Types /\ Phases /\ Unsaved /\ Settled /\ Saved
      /\ phase = "save" /\ phase' = "save" /\ k \in writes
      /\ additions[k] \in FastNodes /\ k \notin unsettled
  BY DEF IInv, Phases, Types
<1>1. /\ index' \in [Keys -> FastNodes \cup {NoNode}]
      /\ batch' \in [Keys -> FastNodes \cup {NoNode, NoWrite}]
      /\ saved' = saved /\ newest' = newest
      /\ Written'[k] = additions[k]
      /\ \A j \in Keys \ {k} : Written'[j] = Written[j]
      /\ \A j \in Keys \ {k} : batch[j] = NoWrite => batch'[j] = NoWrite /\ index'[j] = index[j]
  BY <1>0, BatchedLemma
<1>2. /\ dict' \in [Keys -> FastNodes \cup {NoNode}]
      /\ dict'[k] = additions[k]
      /\ \A j \in Keys \ {k} : dict'[j] \in {NoNode, dict[j]}
  BY <1>0, AddLemma
<1>3. Types'
  BY <1>0, <1>1, <1>2 DEF Types, tree
<1>4. Phases'
  <2>1. Touched' = Touched
    BY DEF Touched, tree
  <2>2. writes' \cup deletes' \cup unsettled' = writes \cup deletes \cup unsettled
    BY <1>0
  <2> QED
    BY <1>0, <1>1, <2>1, <2>2 DEF Phases, Unsaved, tree
<1>5. Unsaved'
  BY <1>0, <1>1 DEF Unsaved, Touched, tree
<1>6. Settled'
  <2> SUFFICES ASSUME NEW j \in Keys \ unsettled'
               PROVE  batch'[j] = NoWrite /\ dict'[j] \in {NoNode, index'[j]} /\ Current(j, index[j])'
    BY DEF Settled
  <2>1. j # k /\ j \in Keys \ unsettled
    BY <1>0
  <2>2. batch[j] = NoWrite /\ dict[j] \in {NoNode, index[j]} /\ Current(j, index[j])
    BY <1>0, <2>1 DEF Settled
  <2>3. batch'[j] = NoWrite /\ index'[j] = index[j] /\ dict'[j] \in {NoNode, dict[j]}
    BY <1>1, <1>2, <2>1, <2>2
  <2> QED
    BY <1>1, <2>2, <2>3 DEF Current, Truthful
<1>7. Saved'
  BY <1>0, <1>1, <1>2 DEF Saved, Types, tree
<1>8. Rebuilt'
  BY <1>0 DEF Rebuilt
<1>9. Reading'
  BY <1>1 DEF IInv, Reading, Found
<1> QED
  BY <1>3, <1>4, <1>5, <1>6, <1>7, <1>8, <1>9 DEF IInv

(* DeleteFastNode, of a removal or of the old index.                       *)
LEMMA DeleteFastNodeStep ==
  ASSUME IInv, NEW k \in Keys, DeleteFastNode(k)
  PROVE  IInv'
<1> USE DEF DeleteFastNode, First
<1>0. /\ Types /\ Phases /\ Unsaved /\ Settled /\ Saved /\ Rebuilt
      /\ phase \in {"save", "rebuild"} /\ phase' = phase /\ k \in deletes
  BY DEF IInv
<1>1. /\ index' \in [Keys -> FastNodes \cup {NoNode}]
      /\ batch' \in [Keys -> FastNodes \cup {NoNode, NoWrite}]
      /\ saved' = saved /\ newest' = newest
      /\ Written'[k] = NoNode
      /\ \A j \in Keys \ {k} : Written'[j] = Written[j]
      /\ \A j \in Keys \ {k} : batch[j] = NoWrite => batch'[j] = NoWrite /\ index'[j] = index[j]
  BY <1>0, BatchedLemma
<1>2. /\ dict' \in [Keys -> FastNodes \cup {NoNode}]
      /\ dict'[k] = NoNode
      /\ \A j \in Keys \ {k} : dict'[j] = dict[j]
  BY <1>0 DEF CacheRemove, Types
<1>3. Types'
  BY <1>0, <1>1, <1>2 DEF Types, tree
<1>4. Phases'
  BY SMTT(60), <1>0, <1>1 DEF Phases, Types, Touched, tree
<1>5. Unsaved'
  BY <1>0, <1>1 DEF Unsaved, Touched, tree
<1>6. Settled'
  <2> SUFFICES ASSUME NEW j \in Keys \ unsettled'
               PROVE  batch'[j] = NoWrite /\ dict'[j] \in {NoNode, index'[j]} /\ Current(j, index[j])'
    BY DEF Settled
  <2>1. j # k /\ j \in Keys \ unsettled
    BY <1>0
  <2>2. batch[j] = NoWrite /\ dict[j] \in {NoNode, index[j]} /\ Current(j, index[j])
    BY <1>0, <2>1 DEF Settled
  <2>3. batch'[j] = NoWrite /\ index'[j] = index[j] /\ dict'[j] = dict[j]
    BY <1>1, <1>2, <2>1, <2>2
  <2> QED
    BY <1>1, <2>2, <2>3 DEF Current, Truthful
<1>7. Saved'
  <2> SUFFICES ASSUME phase = "save", NEW j \in unsettled'
               PROVE  Written'[j] = additions[j] /\ dict'[j] \in {NoNode, additions[j]}
    BY <1>0 DEF Saved, tree
  <2>1. CASE j = k
    BY <1>0, <1>1, <1>2, <2>1 DEF Phases, Unsaved
  <2>2. CASE j # k
    BY <1>0, <1>1, <1>2, <2>2 DEF Saved, Types
  <2> QED
    BY <2>1, <2>2
<1>8. Rebuilt'
  <2> SUFFICES ASSUME phase = "rebuild", NEW j \in Keys
               PROVE  /\ dict'[j] # NoNode => j \in deletes' /\ Truthful(j, dict[j])'
                      /\ j \notin deletes' =>
                           Written'[j] = IF j \in writes' \/ working'[j] = NoValue THEN NoNode
                                         ELSE FastNode(working'[j], newest')
                      /\ j \in deletes' => j \in writes' \/ working'[j] = NoValue
    BY <1>0 DEF Rebuilt
  <2>1. CASE j = k
    BY <1>0, <1>1, <1>2, <2>1 DEF Rebuilt, tree
  <2>2. CASE j # k
    BY SMTT(60), <1>0, <1>1, <1>2, <2>2 DEF Rebuilt, Truthful, tree
  <2> QED
    BY <2>1, <2>2
<1>9. Reading'
  BY <1>1 DEF IInv, Reading, Found
<1> QED
  BY <1>3, <1>4, <1>5, <1>6, <1>7, <1>8, <1>9 DEF IInv

(* CommitSave: the keys that were not written have the same value in the   *)
(* new version, so that their nodes speak of it too.                       *)
LEMMA CommitSaveStep ==
  ASSUME IInv, CommitSave
  PROVE  IInv'
<1>a. /\ Types /\ Phases /\ Unsaved /\ Settled /\ Saved
      /\ phase = "save" /\ phase' = "committed" /\ writes = {} /\ deletes = {}
      /\ newest' = newest + 1 /\ saved' = [saved EXCEPT ![newest + 1] = working]
      /\ index' = Written /\ batch' = NoWrites
      /\ UNCHANGED <<cache, latestVersion, writes, deletes, unsettled, tree, reader>>
  BY DEF IInv, CommitSave
<1>b. newest + 1 \in Versions /\ newest \in Versions /\ latestVersion = newest
  BY SMTT(60), <1>a, BoundsAssumption DEF Types, Phases, Versions
<1>c. unsettled = Touched /\ unsettled' = unsettled
  BY <1>a DEF Phases
<1>0. /\ Types /\ Phases /\ Unsaved /\ Settled /\ Saved
      /\ phase = "save" /\ phase' = "committed"
      /\ newest + 1 \in Versions /\ newest \in Versions /\ latestVersion = newest
      /\ unsettled = Touched
  BY <1>a, <1>b, <1>c
<1>1. /\ saved'[newest + 1] = working /\ newest' = newest + 1
      /\ \A w \in Versions : w <= newest => saved'[w] = saved[w]
      /\ saved' \in [Versions -> Contents]
  BY SMTT(60), <1>a, <1>b DEF Types, Versions
<1>2. /\ index' \in [Keys -> FastNodes \cup {NoNode}]
      /\ batch' \in [Keys -> FastNodes \cup {NoNode, NoWrite}]
  BY <1>a DEF Types, Written, NoWrites
<1>d. ASSUME NEW k \in Keys
      PROVE  /\ batch'[k] = NoWrite
             /\ index'[k] = Written[k]
             /\ Written'[k] = Written[k]
             /\ batch[k] = NoWrite => index'[k] = index[k]
  BY <1>a DEF Written, NoWrites
<1>3. Types'
  BY <1>a, <1>b, <1>1, <1>2 DEF Types, cache, tree
<1>4. Phases'
  BY <1>a, <1>b, <1>c, <1>1 DEF Phases, Touched, tree
<1>5. Unsaved'
  BY <1>a, <1>b, <1>1 DEF Unsaved, Touched, tree
<1>6. Settled'
  <2> SUFFICES ASSUME NEW j \in Keys, j \notin unsettled
               PROVE  batch'[j] = NoWrite /\ dict'[j] \in {NoNode, index'[j]} /\ Current(j, index[j])'
    BY <1>c DEF Settled
  <2>1. batch[j] = NoWrite /\ dict[j] \in {NoNode, index[j]} /\ Current(j, index[j])
    BY <1>0 DEF Settled
  <2>2. index'[j] = index[j] /\ working[j] = saved[newest][j] /\ dict' = dict
    <3>1. working[j] = saved[latestVersion][j]
      BY <1>a, <1>c DEF Unsaved
    <3> QED
      BY <1>a, <1>b, <1>d, <2>1, <3>1 DEF cache
  <2>3. ASSUME index[j] = NoNode PROVE saved'[newest'][j] = NoValue
    BY <1>1, <2>1, <2>2, <2>3 DEF Current
  <2>4. ASSUME index[j] # NoNode PROVE index[j].version <= newest' /\ Truthful(j, index[j])'
    <3>1. index[j].version \in Int /\ index[j].version <= newest
      BY SMTT(60), <1>0, <2>1, <2>4 DEF Types, FastNodes, Current
    <3>2. saved[newest][j] = index[j].value
      BY SMTT(60), <1>0, <2>1, <2>4, <3>1 DEF Current, Truthful, Versions
    <3>3. ASSUME NEW w \in Versions, index[j].version <= w, w <= newest'
          PROVE  saved'[w][j] = index[j].value
      <4>1. CASE w <= newest
        BY <1>1, <2>1, <2>4, <3>3, <4>1 DEF Current, Truthful
      <4>2. CASE ~ (w <= newest)
        <5>1. w = newest + 1
          BY SMTT(60), <1>0, <1>1, <3>3, <4>2 DEF Versions
        <5> QED
          BY <1>1, <2>2, <3>2, <5>1
      <4> QED
        BY <4>1, <4>2
    <3> QED
      BY SMTT(60), <1>0, <1>1, <2>2, <3>1, <3>3 DEF Truthful, Versions
  <2> QED
    <3>1. Current(j, index[j])'
      BY <2>2, <2>3, <2>4 DEF Current
    <3> QED
      BY <1>d, <2>1, <2>2, <3>1
<1>7. Saved'
  <2>1. \A k \in unsettled : Written[k] = additions[k] /\ dict[k] \in {NoNode, additions[k]} /\ k \in Keys
    BY <1>a DEF Saved, Types
  <2> QED
    BY <1>a, <1>c, <1>d, <2>1 DEF Saved, tree, cache
<1>8. Rebuilt'
  BY <1>0 DEF Rebuilt
<1>9. Reading'
  <2> SUFFICES ASSUME NEW r \in Readers, reader[r].busy PROVE Found(reader[r])'
    BY <1>a DEF Reading
  <2>1. Found(reader[r]) /\ reader[r].version \in 1 .. MaxVersion
    <3>1. reader[r] \in {NoRead} \cup
            [busy : {TRUE}, version : 1 .. MaxVersion, key : Keys, node : FastNodes \cup {NoNode}]
      BY <1>a DEF Types
    <3>2. reader[r] # NoRead
      BY SMTT(60) DEF NoRead
    <3> QED
      BY <3>1, <3>2 DEF IInv, Reading
  <2>2. reader[r].version \in Versions /\ reader[r].version <= newest /\ reader[r].version # newest'
    BY SMTT(60), <1>0, <1>1, <2>1 DEF Found, Versions
  <2> QED
    BY SMTT(60), <1>a, <1>0, <1>1, <2>1, <2>2 DEF Found, Versions
<1> QED
  BY <1>3, <1>4, <1>5, <1>6, <1>7, <1>8, <1>9 DEF IInv

(* resetLatestVersion: the written keys are settled again.                 *)
LEMMA ResetStep ==
  ASSUME IInv, resetLatestVersion
  PROVE  IInv'
<1> USE DEF resetLatestVersion
<1>0. /\ Types /\ Phases /\ Unsaved /\ Settled /\ Saved
      /\ phase = "committed" /\ phase' = "idle"
      /\ newest = latestVersion + 1 /\ working = saved[newest] /\ unsettled = Touched
      /\ \A k \in Keys : batch[k] = NoWrite
  BY DEF IInv, Phases, NoWrites
<1>1. \A k \in Keys : additions'[k] = NoNode
  BY DEF NoNodes
<1>2. Types'
  BY <1>0, NodesDiffer DEF Types, NoNodes, disk, cache
<1>3. Phases'
  BY <1>0 DEF Phases, disk
<1>4. Unsaved'
  BY <1>0, <1>1 DEF Unsaved, disk
<1>5. Settled'
  <2> SUFFICES ASSUME NEW j \in Keys
               PROVE  dict[j] \in {NoNode, index[j]} /\ Current(j, index[j])
    BY <1>0 DEF Settled, disk, cache, Current, Truthful
  <2>1. CASE j \notin unsettled
    BY <1>0, <2>1 DEF Settled
  <2>2. CASE j \in unsettled
    <3>1. index[j] = additions[j] /\ dict[j] \in {NoNode, index[j]}
      BY <1>0, <2>2 DEF Saved, Written
    <3>2. CASE additions[j] = NoNode
      BY <1>0, <2>2, <3>1, <3>2 DEF Unsaved, Touched, Current
    <3>3. CASE additions[j] # NoNode
      <4>1. index[j].version = newest /\ index[j].value = saved[newest][j]
        <5>1. additions[j] = FastNode(working[j], latestVersion + 1)
          BY <1>0, <3>3 DEF Unsaved
        <5> QED
          BY SMTT(60), <1>0, <3>1, <5>1 DEF FastNode
      <4> QED
        BY SMTT(60), <1>0, <3>1, <3>3, <4>1 DEF Current, Truthful, Types, Versions
    <3> QED
      BY <3>1, <3>2, <3>3
  <2> QED
    BY <2>1, <2>2
<1>6. Saved' /\ Rebuilt'
  BY <1>0 DEF Saved, Rebuilt
<1>7. Reading'
  BY DEF IInv, Reading, Found, disk
<1> QED
  BY <1>2, <1>3, <1>4, <1>5, <1>6, <1>7 DEF IInv

(* LoadVersionForOverwriting: no Get is under way, and a node of the cache *)
(* is right about the versions that stay.                                  *)
LEMMA OverwriteStep ==
  ASSUME IInv, Hazards = {}, NEW target \in Versions, LoadVersionForOverwriting(target)
  PROVE  IInv'
<1>a. /\ Types /\ Phases /\ Settled
      /\ phase = "idle" /\ phase' = "rebuild"
      /\ 0 < target /\ target < newest /\ newest' = target /\ latestVersion' = target
      /\ additions = NoNodes /\ removals = {} /\ unsettled = {} /\ unsettled' = Keys
      /\ \A r \in Readers : ~ reader[r].busy
      /\ saved' = [v \in Versions |-> IF v <= target THEN saved[v] ELSE Nothing]
      /\ working' = saved[target]
      /\ deletes' = {k \in Keys : index[k] # NoNode}
      /\ writes' = {k \in Keys : saved[target][k] # NoValue}
      /\ UNCHANGED <<index, batch, cache, additions, removals, reader>>
  BY DEF LoadVersionForOverwriting, IInv, Phases
<1>b. /\ saved' \in [Versions -> Contents] /\ saved'[target] = saved[target]
      /\ \A w \in Versions : w <= target => saved'[w] = saved[w]
      /\ newest \in Int /\ target \in Int
  BY SMTT(60), <1>a, BoundsAssumption DEF Types, Versions, Contents, Nothing
<1>1. Types'
  BY <1>a, <1>b DEF Types, cache
<1>2. Phases'
  BY <1>a, <1>b DEF Phases
<1>3. Unsaved'
  <2>1. \A k \in Keys : additions'[k] = NoNode
    BY <1>a DEF NoNodes
  <2> QED
    BY <1>a, <1>b, <2>1 DEF Unsaved
<1>4. Settled' /\ Saved'
  BY <1>a DEF Settled, Saved
<1>5. Rebuilt'
  <2> SUFFICES ASSUME NEW j \in Keys
               PROVE  /\ dict'[j] # NoNode => j \in deletes' /\ Truthful(j, dict[j])'
                      /\ j \notin deletes' =>
                           Written'[j] = IF j \in writes' \/ working'[j] = NoValue THEN NoNode
                                         ELSE FastNode(working'[j], newest')
                      /\ j \in deletes' => j \in writes' \/ working'[j] = NoValue
    BY DEF Rebuilt
  <2>1. batch[j] = NoWrite /\ dict[j] \in {NoNode, index[j]} /\ Current(j, index[j])
    BY <1>a DEF Settled
  <2>2. j \in writes' \/ working'[j] = NoValue
    BY <1>a
  <2>3. Written'[j] = index[j]
    BY <1>a, <2>1 DEF Written
  <2>4. ASSUME dict[j] # NoNode PROVE j \in deletes' /\ Truthful(j, dict[j])'
    <3>1. dict[j] = index[j] /\ dict'[j] = dict[j] /\ j \in deletes' /\ Truthful(j, index[j])
      BY <1>a, <2>1, <2>4 DEF Current, cache
    <3>2. ASSUME NEW w \in Versions, index[j].version <= w, w <= newest'
          PROVE  saved'[w][j] = index[j].value
      <4>1. w <= newest
        BY SMTT(60), <1>a, <1>b, <3>2 DEF Versions
      <4> QED
        BY <1>a, <1>b, <3>1, <3>2, <4>1 DEF Truthful
    <3> QED
      BY <3>1, <3>2 DEF Truthful
  <2> QED
    BY <1>a, <2>2, <2>3, <2>4 DEF cache
<1>6. Reading'
  BY <1>a DEF Reading
<1> QED
  BY <1>1, <1>2, <1>3, <1>4, <1>5, <1>6 DEF IInv

(* SaveFastNodeNoCache: one more key of the new index.                     *)
LEMMA NoCacheStep ==
  ASSUME IInv, NEW k \in Keys, SaveFastNodeNoCache(k)
  PROVE  IInv'
<1> DEFINE node == FastNode(working[k], newest)
<1>a. /\ Types /\ Phases /\ Unsaved /\ Settled /\ Rebuilt
      /\ phase = "rebuild" /\ phase' = phase /\ deletes = {} /\ k \in writes
      /\ writes' = writes \ {k} /\ Batched(k, node)
      /\ UNCHANGED <<cache, latestVersion, phase, deletes, unsettled, tree, reader>>
  BY DEF SaveFastNodeNoCache, First, IInv
<1>b. node \in FastNodes
  <2>1. working[k] \in Values /\ newest \in 1 .. MaxVersion
    BY SMTT(60), <1>a DEF Types, Phases, Contents, Versions
  <2> QED
    BY <2>1, NodesDiffer
<1> HIDE DEF node
<1>1. /\ index' \in [Keys -> FastNodes \cup {NoNode}]
      /\ batch' \in [Keys -> FastNodes \cup {NoNode, NoWrite}]
      /\ saved' = saved /\ newest' = newest
      /\ Written'[k] = node
      /\ \A j \in Keys \ {k} : Written'[j] = Written[j]
  BY <1>a, <1>b, BatchedLemma
<1>2. Types'
  BY <1>a, <1>1 DEF Types, cache, tree
<1>3. Phases'
  BY <1>a, <1>1 DEF Phases, tree
<1>4. Unsaved'
  BY <1>a, <1>1 DEF Unsaved, Touched, tree
<1>5. Settled' /\ Saved'
  BY <1>a DEF Settled, Saved, Phases
<1>6. Rebuilt'
  <2> SUFFICES ASSUME NEW j \in Keys
               PROVE  /\ dict'[j] = NoNode
                      /\ Written'[j] = IF j \in writes' \/ working'[j] = NoValue THEN NoNode
                                       ELSE FastNode(working'[j], newest')
    BY <1>a DEF Rebuilt
  <2>1. dict'[j] = NoNode
    BY <1>a DEF Rebuilt, cache
  <2>2. CASE j = k
    <3>1. working[k] # NoValue /\ k \notin writes' /\ working' = working
      BY <1>a DEF Phases, tree
    <3> QED
      BY <1>1, <2>1, <2>2, <3>1 DEF node
  <2>3. CASE j # k
    BY <1>a, <1>1, <2>1, <2>3 DEF Rebuilt, tree
  <2> QED
    BY <2>2, <2>3
<1>7. Reading'
  BY <1>a, <1>1 DEF IInv, Reading, Found
<1> QED
  BY <1>2, <1>3, <1>4, <1>5, <1>6, <1>7 DEF IInv

(* CommitRebuild: the cache is empty, and the index is the tree.           *)
LEMMA CommitRebuildStep ==
  ASSUME IInv, CommitRebuild
  PROVE  IInv'
<1>a. /\ Types /\ Phases /\ Unsaved /\ Rebuilt
      /\ phase = "rebuild" /\ phase' = "idle" /\ writes = {} /\ deletes = {} /\ unsettled' = {}
      /\ index' = Written /\ batch' = NoWrites
      /\ UNCHANGED <<saved, newest, cache, latestVersion, writes, deletes, tree, reader>>
  BY DEF CommitRebuild, IInv
<1>b. newest \in Versions /\ newest > 0 /\ working = saved[newest] /\ latestVersion = newest
  BY <1>a DEF Phases, Types
<1>1. Types'
  BY <1>a DEF Types, Written, NoWrites, cache, tree
<1>2. Phases'
  BY <1>a, <1>b DEF Phases
<1>3. Unsaved'
  BY <1>a DEF Unsaved, Touched, tree
<1>4. Settled'
  <2> SUFFICES ASSUME NEW j \in Keys
               PROVE  batch'[j] = NoWrite /\ dict'[j] = NoNode /\ Current(j, index[j])'
    BY DEF Settled
  <2>1. batch'[j] = NoWrite /\ dict'[j] = NoNode
    BY <1>a DEF NoWrites, Rebuilt, cache
  <2>2. index'[j] = IF working[j] = NoValue THEN NoNode ELSE FastNode(working[j], newest)
    BY <1>a DEF Rebuilt
  <2>3. CASE working[j] = NoValue
    BY <1>a, <1>b, <2>1, <2>2, <2>3 DEF Current
  <2>4. CASE working[j] # NoValue
    <3>1. index'[j].version = newest /\ index'[j].value = saved[newest][j] /\ index'[j] # NoNode
      BY SMTT(60), <1>b, <2>2, <2>4 DEF FastNode, NoNode
    <3>2. newest' = newest /\ saved' = saved
      BY <1>a
    <3>3. Truthful(j, index[j])'
      BY SMTT(60), <1>b, <3>1, <3>2 DEF Truthful, Versions
    <3> QED
      BY SMTT(60), <1>b, <2>1, <3>1, <3>2, <3>3 DEF Current, Versions
  <2> QED
    BY <2>1, <2>3, <2>4
<1>5. Saved' /\ Rebuilt'
  BY <1>a DEF Saved, Rebuilt
<1>6. Reading'
  BY <1>a DEF IInv, Reading, Found
<1> QED
  BY <1>1, <1>2, <1>3, <1>4, <1>5, <1>6 DEF IInv

-----------------------------------------------------------------------------
(* GetFastNode: a node that a Get brings into the cache is that of a       *)
(* settled key, and a node that it finds there speaks of its version, or   *)
(* of later ones only.                                                     *)
LEMMA GetFastNodeStep ==
  ASSUME IInv, Hazards = {}, NEW r \in Readers, NEW v \in Versions, NEW k \in Keys,
         GetFastNode(r, v, k)
  PROVE  IInv'
<1> DEFINE node == IF dict[k] # NoNode THEN dict[k] ELSE index[k]
           get == [busy |-> TRUE, version |-> v, key |-> k, node |-> node]
<1>a. /\ Types /\ Phases /\ Unsaved /\ Settled /\ Saved /\ Rebuilt /\ Reading
      /\ 0 < v /\ v <= newest
      /\ dict[k] = NoNode => k \notin unsettled
      /\ reader' = [reader EXCEPT ![r] = get]
      /\ UNCHANGED <<disk, latestVersion, call, tree>>
  BY DEF GetFastNode, IInv
<1>b. /\ dict' \in [Keys -> FastNodes \cup {NoNode}]
      /\ \A j \in Keys \ {k} : dict'[j] \in {NoNode, dict[j]}
      /\ k \in unsettled => dict'[k] = dict[k]
      /\ k \notin unsettled => dict'[k] \in {dict[k], index[k]}
  <2>1. CASE dict[k] # NoNode /\ Hit(k)
    BY <1>a, <2>1 DEF Hit, Types
  <2>2. CASE dict[k] = NoNode /\ index[k] # NoNode /\ Add(k, index[k])
    <3>1. index[k] \in FastNodes /\ k \notin unsettled
      BY <1>a, <2>2 DEF Types
    <3> QED
      BY <1>a, <2>2, <3>1, AddLemma
  <2>3. CASE dict[k] = NoNode /\ index[k] = NoNode /\ UNCHANGED cache
    BY <1>a, <2>3 DEF Types, cache
  <2> QED
    BY <2>1, <2>2, <2>3 DEF GetFastNode
<1>1. Types'
  <2>1. node \in FastNodes \cup {NoNode} /\ v \in 1 .. MaxVersion
    BY SMTT(60), <1>a DEF Types, Versions
  <2>2. get \in [busy : {TRUE}, version : 1 .. MaxVersion, key : Keys, node : FastNodes \cup {NoNode}]
    BY <2>1
  <2> HIDE DEF get
  <2> QED
    BY <1>a, <1>b, <2>2 DEF Types, disk, call, tree
<1>2. Phases' /\ Unsaved'
  BY <1>a DEF Phases, Unsaved, Touched, disk, call, tree
<1>3. Settled'
  <2> SUFFICES ASSUME NEW j \in Keys, j \notin unsettled
               PROVE  batch[j] = NoWrite /\ dict'[j] \in {NoNode, index[j]} /\ Current(j, index[j])
    BY <1>a DEF Settled, disk, call, Current, Truthful
  <2> QED
    BY <1>a, <1>b DEF Settled
<1>4. Saved'
  <2>1. ASSUME phase \in {"save", "committed"}, NEW j \in unsettled
        PROVE  dict'[j] \in {NoNode, additions[j]} /\ Written[j] = additions[j]
    BY <1>a, <1>b, <2>1 DEF Saved, Types
  <2> QED
    BY <1>a, <2>1 DEF Saved, Written, disk, call, tree
<1>5. Rebuilt'
  <2>1. ASSUME phase = "rebuild", NEW j \in Keys
        PROVE  dict'[j] \in {NoNode, dict[j]}
    BY <1>a, <1>b, <2>1 DEF Phases
  <2> QED
    BY SMTT(60), <1>a, <2>1 DEF Rebuilt, Truthful, Written, disk, call, tree
<1>6. Found(get)
  <2>1. ASSUME node # NoNode, node.version <= v PROVE saved[v][k] = node.value
    <3>1. CASE k \notin unsettled
      BY <1>a, <2>1, <3>1 DEF Settled, Current, Truthful
    <3>2. CASE k \in unsettled /\ phase \in {"save", "committed"}
      <4>1. node = FastNode(working[k], latestVersion + 1)
        BY <1>a, <2>1, <3>2 DEF Saved, Unsaved
      <4>2. latestVersion + 1 <= v /\ node.value = working[k]
        BY SMTT(60), <2>1, <4>1 DEF FastNode
      <4>3. phase = "committed" /\ v = newest
        <5>1. v <= newest /\ newest \in Int /\ latestVersion \in Int
          BY SMTT(60), <1>a DEF Types, Versions
        <5>2. phase = "save" => latestVersion = newest
          BY <1>a DEF Phases
        <5>3. phase = "committed" => newest = latestVersion + 1
          BY <1>a DEF Phases
        <5>4. v \in Int
          BY SMTT(60) DEF Versions
        <5> QED
          BY SMTT(60), <3>2, <4>2, <5>1, <5>2, <5>3, <5>4
      <4> QED
        BY <1>a, <4>2, <4>3 DEF Phases
    <3>3. CASE k \in unsettled /\ phase = "rebuild"
      BY <1>a, <2>1, <3>3 DEF Rebuilt, Truthful
    <3> QED
      BY <1>a, <3>1, <3>2, <3>3 DEF Types, Phases
  <2>2. ASSUME node = NoNode, v \in {latestVersion, newest} PROVE saved[v][k] = NoValue
    <3>1. k \notin unsettled /\ saved[newest][k] = NoValue
      BY <1>a, <2>2 DEF Settled, Current
    <3>2. CASE v = newest
      BY <3>1, <3>2
    <3>3. CASE v # newest
      <4>1. phase = "committed" /\ v = latestVersion
        BY <1>a, <2>2, <3>3 DEF Phases, Types
      <4>2. working[k] = saved[latestVersion][k] /\ working = saved[newest]
        BY <1>a, <3>1, <4>1 DEF Phases, Unsaved
      <4> QED
        BY <3>1, <4>1, <4>2
    <3> QED
      BY <3>2, <3>3
  <2> QED
    BY <1>a, <2>1, <2>2 DEF Found
<1>7. Reading'
  <2> SUFFICES ASSUME NEW s \in Readers, reader'[s].busy PROVE Found(reader[s])'
    BY DEF Reading
  <2>0. UNCHANGED <<saved, newest, latestVersion>>
    BY <1>a DEF disk
  <2>1. CASE s = r
    <3>1. reader'[s] = get
      BY <1>a, <2>1 DEF Types
    <3> HIDE DEF get
    <3> QED
      BY <1>6, <2>0, <3>1 DEF Found
  <2>2. CASE s # r
    <3>1. reader'[s] = reader[s]
      BY <1>a, <2>2 DEF Types
    <3> QED
      BY <1>a, <2>0, <3>1 DEF Reading, Found
  <2> QED
    BY <2>1, <2>2
<1> QED
  BY <1>1, <1>2, <1>3, <1>4, <1>5, <1>7 DEF IInv

(* Return: the reader is done, and nothing else changes.                   *)
LEMMA ReturnStep ==
  ASSUME IInv, NEW r \in Readers, Return(r)
  PROVE  IInv'
<1>0. /\ UNCHANGED <<saved, newest, index, batch, dict, ll, latestVersion, phase, writes, deletes, unsettled>>
      /\ UNCHANGED <<working, additions, removals>>
      /\ reader' = [reader EXCEPT ![r] = NoRead]
  BY DEF Return, disk, cache, call, tree
<1>a. Types /\ Phases /\ Unsaved /\ Settled /\ Saved /\ Rebuilt /\ Reading
  BY DEF IInv
<1>1. Types'
  BY <1>0, <1>a DEF Types
<1>2. Phases' /\ Unsaved'
  BY <1>0, <1>a DEF Phases, Unsaved, Touched
<1>3. Settled' /\ Saved' /\ Rebuilt'
  <2>1. Settled'
    BY <1>0, <1>a DEF Settled, Current, Truthful
  <2>2. Saved'
    BY <1>0, <1>a DEF Saved, Written
  <2>3. Rebuilt'
    BY <1>0, <1>a DEF Rebuilt, Written, Truthful
  <2> QED
    BY <2>1, <2>2, <2>3
<1>4. Reading'
  <2> SUFFICES ASSUME NEW s \in Readers, reader'[s].busy
               PROVE  Found(reader[s])'
    BY DEF Reading
  <2>1. s # r /\ reader'[s] = reader[s]
    BY <1>0, <1>a DEF Types, NoRead
  <2>2. Found(reader[s])
    BY <1>a, <2>1 DEF Reading
  <2> QED
    BY <1>0, <2>1, <2>2 DEF Found
<1> QED
  BY <1>1, <1>2, <1>3, <1>4 DEF IInv

(* A stuttering step.                                                      *)
LEMMA StutterStep ==
  ASSUME IInv, UNCHANGED vars
  PROVE  IInv'
<1> USE DEF vars, disk, cache, call, tree
<1>1. Types'
  BY DEF IInv, Types
<1>2. Phases'
  BY DEF IInv, Phases, Touched
<1>3. Unsaved'
  BY DEF IInv, Unsaved, Touched
<1>4. Settled' /\ Saved' /\ Rebuilt'
  BY SMTT(60) DEF IInv, Settled, Saved, Rebuilt, Written, Current, Truthful
<1>5. Reading'
  BY DEF IInv, Reading, Found
<1> QED
  BY <1>1, <1>2, <1>3, <1>4, <1>5 DEF IInv

(* Every step keeps the invariant, if the two overlaps do not happen.      *)
LEMMA NextInv ==
  ASSUME IInv, Hazards = {}, [Next]_vars
  PROVE  IInv'
<1>1. CASE \E k \in Keys :
             \/ \E x \in Values : Set(k, x)
             \/ Remove(k) \/ SaveFastNode(k) \/ DeleteFastNode(k) \/ SaveFastNodeNoCache(k)
  BY <1>1, SetStep, RemoveStep, SaveFastNodeStep, DeleteFastNodeStep, NoCacheStep
<1>2. CASE SaveVersion \/ CommitSave \/ resetLatestVersion \/ CommitRebuild
  BY <1>2, SaveVersionStep, CommitSaveStep, ResetStep, CommitRebuildStep
<1>3. CASE \E v \in Versions : LoadVersionForOverwriting(v)
  BY <1>3, OverwriteStep
<1>4. CASE \E r \in Readers :
             \/ \E v \in Versions, k \in Keys : GetFastNode(r, v, k)
             \/ Return(r)
  BY <1>4, GetFastNodeStep, ReturnStep
<1>5. CASE UNCHANGED vars
  BY <1>5, StutterStep
<1> QED
  BY <1>1, <1>2, <1>3, <1>4, <1>5 DEF Next

(* CacheAgrees: whenever no call of the writer is under way, the cache of  *)
(* fast nodes holds nothing that the index does not hold, and the index is *)
(* the live state (CacheIsIndex), for any number of keys and readers and   *)
(* any size of the cache.                                                  *)
THEOREM CacheAgrees == ASSUME Hazards = {} PROVE Spec => []CacheIsIndex
<1>1. IInv => CacheIsIndex
  <2> SUFFICES ASSUME IInv, phase = "idle", NEW k \in Keys
               PROVE  /\ dict[k] # NoNode => dict[k] = index[k]
                      /\ index[k].value = saved[newest][k]
    BY DEF CacheIsIndex
  <2>1. dict[k] \in {NoNode, index[k]} /\ Current(k, index[k]) /\ newest \in Versions
    BY DEF IInv, Types, Phases, Settled
  <2>2. CASE index[k] = NoNode
    BY SMTT(60), <2>1, <2>2 DEF Current, NoNode, FastNode
  <2>3. CASE index[k] # NoNode
    BY SMTT(60), <2>1, <2>3 DEF Current, Truthful, Versions
  <2> QED
    BY <2>1, <2>2, <2>3
<1> QED
  BY <1>1, InitInv, NextInv, PTL DEF Spec

(* GetsAreTrue: a Get that runs next to SaveVersion, and next to other     *)
(* Gets, returns what its version holds (ReadsAreTrue), whenever it goes   *)
(* on after its look into the cache.                                       *)
THEOREM GetsAreTrue == ASSUME Hazards = {} PROVE Spec => []ReadsAreTrue
<1>1. IInv => ReadsAreTrue
  BY DEF IInv, Reading, Found, ReadsAreTrue, Answer
<1> QED
  BY <1>1, InitInv, NextInv, PTL DEF Spec
=============================================================================
