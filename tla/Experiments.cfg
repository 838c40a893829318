\* One program at a time, each on its own small instance: batches smaller,
\* equal and larger than the readings; pools of no, one, two and more threads
\* than devices; a node that stops once; two starts of a node beside one of
\* somebody else; two schemes in a row; waves and batches of which the last is
\* short.
SPECIFICATION Spec
CONSTANTS
  DeviceCounts = {0, 1, 2}
  TransactionCounts = {0, 1, 3}
  BatchSizes = {0, 1, 2, 3, 7}
  Device = {d1, d2}
  PerDevice = 2
  ThreadCounts = {0, 1, 2, 3}
  MaxRaised = 1
  ComparedDevices = {0, 1}
  ComparedTransactions = {2}
  ComparedBatches = {0, 2}
  RoundCounts = {0, 1, 2}
  MaxOutages = 1
  MaxStarts = 2
  MaxOthers = 1
  MaxPolls = 2
  MaxTransactions = 2
  Suites <- SomeSuites
  Iterations = {0, 1, 2, 10}
  MaxFailures = 1
  n = 3
  SEND_CONCURRENCY = 2
  MaxAttempts = 3
  MaxLag = 2
  Relay = {r1, r2}
  PER = 3
  BATCH = 2
  MaxFaults = 2
INVARIANTS TotalsMatchChain GatewayAgrees PhasesApart SidesComplete MeasuresItsContracts
           VerifiesUnlessFault ReceiptsMatchCalls RegisteredBeforeSubmitted ReportIsTrue
PROPERTIES ImplementsDelivery ProgramEnds
\* The container stops with its program.
CHECK_DEADLOCK FALSE
