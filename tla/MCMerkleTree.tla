---------------------------- MODULE MCMerkleTree ----------------------------
(* MerkleTree where the leaves are posted in one order: they are           *)
(* interchangeable, so one order stands for all.                           *)
EXTENDS MerkleTree

Order == CHOOSE f \in [0 .. MaxLeaves - 1 -> LeafHashes] :
           \A a, b \in DOMAIN f : f[a] = f[b] => a = b

OrderedInit == Init /\ \A j \in DOMAIN posted : posted[j] = Order[j]

OrderedSpec == OrderedInit /\ [][Next]_vars
=============================================================================
