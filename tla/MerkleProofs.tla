---------------------------- MODULE MerkleProofs ----------------------------
(***************************************************************************)
(* Hashes of nodes, and the ICS 23 proofs that a key is in a tree or is    *)
(* not.                                                                    *)
(*                                                                         *)
(* What is hashed is a sequence of tokens, and a hash is that sequence     *)
(* itself: equal hashes come from equal inputs.  The token Length is the   *)
(* length that precedes a hash or a string of bytes.                       *)
(***************************************************************************)
EXTENDS AVLTree

LOCAL INSTANCE SequencesExt

Length == "length"

(* A node that is not saved yet is hashed with the version to come.        *)
NodeVersion(n, version) == IF n.nodeKey = NoNodeKey THEN version ELSE n.nodeKey[1]

LeafPrefix(version) == <<0, 1, version>>
InnerPrefix(height, size, version) == <<height, size, version>>

RECURSIVE hashWithCount(_, _)
hashWithCount(n, version) ==
  IF isLeaf(n)
  THEN LeafPrefix(NodeVersion(n, version)) \o <<Length, n.key, Length, n.value>>
  ELSE InnerPrefix(n.height, n.size, NodeVersion(n, version))
       \o <<Length, hashWithCount(n.left, version), Length, hashWithCount(n.right, version)>>

-----------------------------------------------------------------------------
(* The path to a leaf, from the root.  left or right is the hash of the    *)
(* child that is not on the path.                                          *)

NoHash == <<>>

ProofInnerNode(n, version, left, right) ==
  [height |-> n.height, size |-> n.size, version |-> NodeVersion(n, version), left |-> left, right |-> right]

(* Mutant: the path keeps the hash of the child it follows.                *)
InnerOnPath_SameSide(n, key, version) ==
  IF key < n.key THEN ProofInnerNode(n, version, NoHash, hashWithCount(n.left, version))
  ELSE ProofInnerNode(n, version, hashWithCount(n.right, version), NoHash)

InnerOnPath(n, key, version) ==
  IF key < n.key THEN ProofInnerNode(n, version, NoHash, hashWithCount(n.right, version))
  ELSE ProofInnerNode(n, version, hashWithCount(n.left, version), NoHash)

RECURSIVE pathToLeaf(_, _, _)
pathToLeaf(n, key, version) ==
  IF isLeaf(n) THEN [path |-> <<>>, leaf |-> n]
  ELSE LET below == pathToLeaf(IF key < n.key THEN n.left ELSE n.right, key, version)
       IN  [below EXCEPT !.path = <<InnerOnPath(n, key, version)>> \o @]

(* PathToLeaf.Index: the index of the leaf a path leads to.                *)
RECURSIVE Index(_)
Index(path) ==
  CASE path = <<>> -> 0
    [] path /= <<>> /\ Head(path).left = NoHash -> Index(Tail(path))
    [] OTHER -> Head(path).size - (IF Len(path) > 1 THEN path[2].size ELSE 1) + Index(Tail(path))

-----------------------------------------------------------------------------
(* ICS 23 proofs.  The steps of a proof go from the leaf to the root.      *)

convertLeafOp(version) == LeafPrefix(version)

convertInnerOp(p) ==
  LET prefix == InnerPrefix(p.height, p.size, p.version)
  IN  IF p.left /= NoHash
      THEN [prefix |-> prefix \o <<Length, p.left, Length>>, suffix |-> <<>>]
      ELSE [prefix |-> prefix \o <<Length>>, suffix |-> <<Length, p.right>>]

convertInnerOps(path) == Reverse([i \in DOMAIN path |-> convertInnerOp(path[i])])

ExistenceProof(found, version) ==
  [key |-> found.leaf.key, value |-> found.leaf.value,
   leaf |-> convertLeafOp(NodeVersion(found.leaf, version)), path |-> convertInnerOps(found.path)]

createExistenceProof(root, key, version) == ExistenceProof(pathToLeaf(root, key, version), version)

NoProof == [key |-> 0]

(* The proof at an index, or none beyond the leaves.                       *)
ProofAt(root, index, version) ==
  LET kv == getByIndex(root, index)
  IN  IF kv = <<>> THEN NoProof ELSE createExistenceProof(root, kv[1], version)

(* Mutant: the neighbours are one to the right.                            *)
GetNonMembershipProof_NextLeft(root, key, version) ==
  LET idx == get(root, key).index
  IN  [key |-> key, left |-> IF idx >= 1 THEN ProofAt(root, idx, version) ELSE NoProof,
       right |-> ProofAt(root, idx + 1, version)]

GetNonMembershipProof(root, key, version) ==
  LET idx == get(root, key).index
  IN  [key |-> key, left |-> IF idx >= 1 THEN ProofAt(root, idx - 1, version) ELSE NoProof,
       right |-> ProofAt(root, idx, version)]

-----------------------------------------------------------------------------
(* Verification, which is in the ics23 library.                            *)

Apply(op, hash) == op.prefix \o <<hash>> \o op.suffix

RECURSIVE Calculated(_, _)
Calculated(path, hash) == IF path = <<>> THEN hash ELSE Calculated(Tail(path), Apply(Head(path), hash))

Calculate(proof) == Calculated(proof.path, proof.leaf \o <<Length, proof.key, Length, proof.value>>)

VerifyMembership(proof, hash, key, value) == proof.key = key /\ proof.value = value /\ Calculate(proof) = hash

IsLeftStep(op) == op.suffix /= <<>>
LeftMost(path) == \A i \in DOMAIN path : IsLeftStep(path[i])
RightMost(path) == \A i \in DOMAIN path : ~IsLeftStep(path[i])

(* Two leaves are neighbours when their paths part at one branch, and the  *)
(* left one is the last below it on its side and the right one the first.  *)
LeftNeighbor(left, right) ==
  \E i \in DOMAIN left, j \in DOMAIN right :
    /\ SubSeq(left, i + 1, Len(left)) = SubSeq(right, j + 1, Len(right))
    /\ IsLeftStep(left[i]) /\ ~IsLeftStep(right[j])
    /\ RightMost(SubSeq(left, 1, i - 1)) /\ LeftMost(SubSeq(right, 1, j - 1))

VerifyNonMembership(proof, hash) ==
  /\ proof.left /= NoProof => Calculate(proof.left) = hash /\ proof.left.key < proof.key
  /\ proof.right /= NoProof => Calculate(proof.right) = hash /\ proof.key < proof.right.key
  /\ CASE proof.left = NoProof /\ proof.right = NoProof -> FALSE
       [] proof.left = NoProof /\ proof.right /= NoProof -> LeftMost(proof.right.path)
       [] proof.left /= NoProof /\ proof.right = NoProof -> RightMost(proof.left.path)
       [] OTHER -> LeftNeighbor(proof.left.path, proof.right.path)

=============================================================================
