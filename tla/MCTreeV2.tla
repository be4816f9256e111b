------------------------------ MODULE MCTreeV2 ------------------------------
(***************************************************************************)
(* The v2 tree beside a v1 tree that is given the same calls.              *)
(***************************************************************************)
EXTENDS TreeV2

VARIABLES
  v1,       \* history: the working tree of v1, a tree of AVLTree
  v1saved   \* history: the v1 tree of the last version

V1 == INSTANCE AVLTree

(* Four keys in an order that makes a double rotation.                     *)
FourKeys == <<1, 4, 3, 2>>

(* SaveVersion of v1 gives the new nodes the version they are saved with.  *)
RECURSIVE Stamped(_, _)
Stamped(n, v) ==
  CASE n = V1!NilNode \/ n.nodeKey # V1!NoNodeKey -> n
    [] n # V1!NilNode /\ n.nodeKey = V1!NoNodeKey /\ V1!isLeaf(n) -> [n EXCEPT !.nodeKey = <<v>>]
    [] OTHER -> [n EXCEPT !.nodeKey = <<v>>, !.left = Stamped(@, v), !.right = Stamped(@, v)]

(* writeHashBytes of v1, in the form of LeafHash and BranchHash.           *)
RECURSIVE V1Hash(_)
V1Hash(n) ==
  CASE n = V1!NilNode -> NoHash
    [] n # V1!NilNode /\ V1!isLeaf(n) -> LeafHash(n.nodeKey[1], n.key, n.value)
    [] OTHER -> <<n.height, n.size, n.nodeKey[1], V1Hash(n.left), V1Hash(n.right)>>

MCInit == Init /\ v1 = V1!NilNode /\ v1saved = V1!NilNode

MCNext ==
  \/ \E k \in Keys : /\ Set(k)
                     /\ v1' = V1!set(v1, k, tree.version + 1).node /\ UNCHANGED v1saved
  \/ \E k \in Keys : Remove(k) /\ v1' = V1!remove(v1, k).node /\ UNCHANGED v1saved
  \/ \E k \in Keys : Get(k) /\ UNCHANGED <<v1, v1saved>>
  \/ \E force \in BOOLEAN : /\ SaveVersion(force)
                            /\ v1' = Stamped(v1, tree.version + 1) /\ v1saved' = v1'
  \/ \E v \in 1 .. MaxVersion : DeleteVersionsTo(v) /\ UNCHANGED <<v1, v1saved>>
  \/ LoadVersion /\ v1' = v1saved /\ UNCHANGED v1saved

MCSpec == MCInit /\ [][MCNext]_<<vars, v1, v1saved>>

(* The root hash that v2 saves is the one v1 saves after the same calls,   *)
(* as the hashes in the tests of v2, taken from another version of the     *)
(* tree, assume: changing nodes in place, restarts in between and replays  *)
(* leave the same shape, and the same version in every node, as copying.   *)
SameHashAsV1 == tree.version > 0 => HashOf(LoadRoot(tree.version)) = V1Hash(v1saved)
=============================================================================
