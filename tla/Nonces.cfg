\* An instance ends when the bounded time and the bounded number of records
\* and disputes are used up: that is no deadlock of the contract.
SPECIFICATION Spec
CONSTANTS
  Address = {relay, alice}
  ZeroAddress = zero
  DID = {did, did2}
  PublicKey = {key, key2, short}
  FalconKey = {key, key2}
  EmptyKey = nokey
  challengePeriod = 1
  quorum = 2
  relayStakeAmount = 2
  verifierStakeAmount = 1
  challengerBondAmount = 1
  relaySlashAmount = 1
  verifierSlashAmount = 1
  UNSTAKE_DELAY = 1
  FALCON_512_SIG_SIZE_MAX = 1
  Payload = {m}
  SigLength = {0, 1, 2}
  StakeValues = {1, 2}
  BondValues = {1}
  Owners = {alice}
  Relays = {relay}
  Verifiers = {}
  Challengers = {}
  Leavers = {}
  Withdrawers = {}
  MaxRecords = 2
  MaxBatches = 1
  MaxLeaves = 2
  MaxDisputes = 0
  MaxStake = 2
  MaxTime = 3
INVARIANTS NonceLedger SnapshotMatchesRegistry
CHECK_DEADLOCK FALSE
