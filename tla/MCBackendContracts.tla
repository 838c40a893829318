------------------------ MODULE MCBackendContracts --------------------------
EXTENDS BackendContracts, TLC

\* Readings, DIDs and their hashes are interchangeable.
HashSymmetry == Permutations(DID) \cup Permutations(DataHash)
=============================================================================
