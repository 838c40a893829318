\* An instance ends when the bounded time and the bounded number of records
\* and disputes are used up: that is no deadlock of the contract.
SPECIFICATION DeployedSpec
CONSTANTS
  Address = {relay, alice, v1, v2, v3}
  ZeroAddress = zero
  DID = {did}
  PublicKey = {key}
  FalconKey = {key}
  EmptyKey = nokey
  challengePeriod = 1
  quorum = 2
  relayStakeAmount = 4
  verifierStakeAmount = 3
  challengerBondAmount = 2
  relaySlashAmount = 9
  verifierSlashAmount = 2
  UNSTAKE_DELAY = 1
  FALCON_512_SIG_SIZE_MAX = 1
  Payload = {m}
  SigLength = {1}
  StakeValues = {}
  BondValues = {3}
  Owners = {}
  Relays = {relay}
  Verifiers = {relay, v1, v2, v3}
  Challengers = {alice}
  Leavers = {}
  Withdrawers = {alice, relay}
  MaxRecords = 2
  MaxBatches = 0
  MaxLeaves = 0
  MaxDisputes = 2
  MaxStake = 2
  MaxTime = 4
  Committee = {relay, v1, v2, v3}
  StakedRelays = {relay}
  VerifierFunds = 3
  RelayFunds = 6
SYMMETRY CommitteeSymmetry
INVARIANTS TypeOK VerdictMatchesVotes Solvency KeepsOnlyDust
PROPERTIES FraudSlashesEveryWrongVote
CHECK_DEADLOCK FALSE
