SPECIFICATION DeployedSpec
CONSTANTS
  Address = {relay, alice, v1, v2}
  ZeroAddress = zero
  DID = {did}
  PublicKey = {key}
  FalconKey = {key}
  EmptyKey = nokey
  challengePeriod = 1
  quorum = 2
  relayStakeAmount = 2
  verifierStakeAmount = 2
  challengerBondAmount = 1
  relaySlashAmount = 1
  verifierSlashAmount = 1
  UNSTAKE_DELAY = 1
  FALCON_512_SIG_SIZE_MAX = 1
  Payload = {m}
  SigLength = {1}
  StakeValues = {}
  BondValues = {1}
  Owners = {}
  Relays = {relay}
  Verifiers = {v1, v2}
  Challengers = {alice}
  Leavers = {relay, v1}
  Withdrawers = {}
  MaxRecords = 1
  MaxBatches = 0
  MaxLeaves = 0
  MaxDisputes = 1
  MaxStake = 2
  MaxTime = 4
  Committee = {v1, v2}
  StakedRelays = {relay}
  VerifierFunds = 2
  RelayFunds = 2
PROPERTIES FraudCostsTheRelay
CHECK_DEADLOCK FALSE
