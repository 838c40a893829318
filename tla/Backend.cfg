SPECIFICATION Spec
CONSTANTS
  Threads = {t1, t2}
  NoThread = nothread
  DID = {d1}
  DataHash = {m1, m2}
  Unsigned = {m2}
  MaxBatch = 2
  MaxCalls = 3
  MaxDeployments = 1
  MaxLost = 1
INVARIANTS EverySubmissionAccounted CallsEndClean AcknowledgedOnce EnsuredIsRegistered
SYMMETRY ThreadSymmetry
\* Calls and deployments are bounded: in the end nothing is left to do.
CHECK_DEADLOCK FALSE
