SPECIFICATION ChainSpec
CONSTANTS
  Address = {alice, bob}
  ZeroAddress = zero
  DID = {did1, did2}
  PublicKey = {key1, key2, short}
  FalconKey = {key1, key2}
  EmptyKey = nokey
  DataHash = {m1, m2}
  Signature = {s1, s2, long}
  FalconSignature = {s1, s2}
  MaxTransactions = 3
SYMMETRY HashSymmetry
INVARIANTS StoredOnce SnapshotKept BaselineAuditable
PROPERTIES IdentityIsPermanent
\* Transactions are bounded and every DID may be deactivated.
CHECK_DEADLOCK FALSE
