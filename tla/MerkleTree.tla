----------------------------- MODULE MerkleTree -----------------------------
(***************************************************************************)
(* The Merkle tree of a batch (AccountableRelay.sol): _buildTree computes  *)
(* the root level by level, in place; _verifyProof walks from a leaf to    *)
(* the root; openBatchLeafDispute accepts a claim about a leaf if its      *)
(* index is in range and its proof leads to the root.                      *)
(*                                                                         *)
(* This is where AccountableRelay's reading of a root as the sequence of   *)
(* its leaves (its operator Proves) is justified.  Memory is indexed from  *)
(* 0 as in the code.  A hash is the value hashed, so two hashes are equal  *)
(* only if their preimages are: a leaf hash (of some 300 bytes) is never a *)
(* node hash (of 64).                                                      *)
(***************************************************************************)
EXTENDS Naturals, Sequences, FiniteSets

CONSTANTS
  Leaf,       \* what _leafHash hashes; the leaves of a batch are distinct
              \* because they bind its DIDs' sequence numbers
  MaxLeaves,  \* bound on the leaves of a batch
  MaxIndex,   \* bound on the index somebody claims
  MaxProof    \* bound on the length of a proof

ASSUME BoundAssumption ==
  /\ MaxLeaves \in Nat \ {0}
  /\ MaxIndex \in Nat /\ MaxProof \in Nat

VARIABLES
  posted,  \* the leaves as submitted (the BatchLeaf events)
  leaves,  \* the memory _buildTree overwrites
  n,       \* the nodes of the current level
  i,       \* the next node of the level above
  claim    \* what was claimed about the finished tree, and the verdict

vars == <<posted, leaves, n, i, claim>>

NoClaim == [made |-> FALSE]

\* keccak256(abi.encode(domain, chain, contract, batch, DID, nonce, ...))
LeafHash(leaf) == <<leaf>>
LeafHashes == {LeafHash(leaf) : leaf \in Leaf}

Init ==
  /\ posted \in UNION {[0 .. k - 1 -> LeafHashes] : k \in 1 .. MaxLeaves}
  /\ \A a, b \in DOMAIN posted : posted[a] = posted[b] => a = b
  /\ leaves = posted
  /\ n = Cardinality(DOMAIN posted)
  /\ i = 0
  /\ claim = NoClaim

leafCount == Cardinality(DOMAIN posted)

-----------------------------------------------------------------------------

\* keccak256(abi.encodePacked(left, right))
Hash(left, right) == <<left, right>>

\* A mutated form of LevelAbove: the odd node has no parent.
LevelAboveRoundedDown(k) == k \div 2

\* The nodes of the level above one of k nodes.
LevelAbove(k) == (k + 1) \div 2

\* A mutated form of Parent: an odd node is handed up as it is.
PromotedParent(level, k, j) ==
  IF 2 * j + 1 < k THEN Hash(level[2 * j], level[2 * j + 1]) ELSE level[2 * j]

\* The j-th node above the first k of level; an odd node is hashed with itself.
Parent(level, k, j) ==
  Hash(level[2 * j], IF 2 * j + 1 < k THEN level[2 * j + 1] ELSE level[2 * j])

\* One round of _buildTree's inner loop, and the outer loop's after the last.
buildNode ==
  /\ n > 1
  /\ leaves' = [leaves EXCEPT ![i] = Parent(leaves, n, i)]
  /\ IF i + 1 < LevelAbove(n)
     THEN i' = i + 1 /\ UNCHANGED n
     ELSE i' = 0 /\ n' = LevelAbove(n)
  /\ UNCHANGED <<posted, claim>>

Built == n = 1
merkleRoot == leaves[0]

Pow2[k \in Nat] == IF k = 0 THEN 1 ELSE 2 * Pow2[k - 1]

\* What halving an index k times leaves of it: the index, k levels up.
Ancestor(index, k) == index \div Pow2[k]

\* _verifyProof: the hashes from the leaf up, one per sibling in the proof.
\* The low bit of what is left of the index says on which side h is.
Walk(leaf, proof, index) ==
  LET h[k \in 0 .. Len(proof)] ==
        IF k = 0 THEN leaf
        ELSE IF Ancestor(index, k - 1) % 2 = 0 THEN Hash(h[k - 1], proof[k])
        ELSE Hash(proof[k], h[k - 1])
  IN  h

Climb(leaf, proof, index) == Walk(leaf, proof, index)[Len(proof)]

\* A mutated form of InRange: the index is not compared with leafCount.
AnyIndex(index) == TRUE

InRange(index) == index < leafCount

\* The Merkle part of openBatchLeafDispute.
verifyClaim(leaf, proof, index) ==
  /\ claim' = [made |-> TRUE, leaf |-> leaf, proof |-> proof, index |-> index,
               accepted |-> InRange(index) /\ Climb(leaf, proof, index) = merkleRoot]
  /\ UNCHANGED <<posted, leaves, n, i>>

-----------------------------------------------------------------------------
(* The tree as a drawing: node j of height d covers the 2^d leaf places    *)
(* from j * 2^d on, and a node without a right child has its left one      *)
(* twice.  Defined level by level on leaves that nothing overwrites.       *)

Tree(p) ==
  LET level[d \in Nat] ==
        IF d = 0 THEN [j \in Nat |-> p[j]]
        ELSE [j \in Nat |->
                Hash(level[d - 1][2 * j],
                     IF (2 * j + 1) * Pow2[d - 1] < Cardinality(DOMAIN p)
                     THEN level[d - 1][2 * j + 1] ELSE level[d - 1][2 * j])]
  IN  level

Node(d, j) == Tree(posted)[d][j]

Height == CHOOSE d \in 0 .. leafCount :
            Pow2[d] >= leafCount /\ (d > 0 => Pow2[d - 1] < leafCount)

Places == {p \in (0 .. Height) \X (0 .. leafCount - 1) :
             p[2] * Pow2[p[1]] < leafCount}

\* What a claimant can know: every hash of the tree, and other leaves.
Known == LeafHashes \cup {Node(p[1], p[2]) : p \in Places}

\* The siblings on the way up, with the node itself where it has none.
HonestProof(index) ==
  [k \in 1 .. Height |->
     LET j == Ancestor(index, k - 1)
         s == IF j % 2 = 0 THEN j + 1 ELSE j - 1
     IN  Node(k - 1, IF s * Pow2[k - 1] < leafCount THEN s ELSE j)]

Next ==
  \/ buildNode
  \/ /\ Built
     /\ claim = NoClaim
     /\ \E leaf \in LeafHashes, index \in 0 .. MaxIndex :
          \E proof \in UNION {[1 .. k -> Known] : k \in 0 .. MaxProof} :
            verifyClaim(leaf, proof, index)

Spec == Init /\ [][Next]_vars

-----------------------------------------------------------------------------

\* Overwriting the level being read loses nothing: the root _buildTree leaves
\* in leaves[0] is the one of the drawing, for every number of leaves.
RootIsReference ==
  Built /\ claim = NoClaim => merkleRoot = Node(Height, 0)

\* A claim that is accepted is true: no proof, of whatever length and made of
\* whatever hashes, places a leaf where it was not posted.  So a dispute about
\* leaf l of a batch is about the reading posted there, and nobody else's.
\* (The bound on the index matters: with 3 leaves, place 3 has the hash of 2.)
AcceptedIsPosted ==
  claim.made /\ claim.accepted =>
    claim.index \in DOMAIN posted /\ posted[claim.index] = claim.leaf

\* Every posted leaf can be disputed: the siblings on its way up, which anyone
\* can compute from the BatchLeaf events, prove it.
EveryLeafDisputable ==
  Built /\ claim = NoClaim =>
    \A j \in DOMAIN posted :
      Climb(posted[j], HonestProof(j), j) = merkleRoot
=============================================================================
