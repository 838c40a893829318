\* Three devices in waves of two, so that the last wave of a phase is short.
SPECIFICATION Spec
CONSTANTS
  n = 3
  SEND_CONCURRENCY = 2
  MaxAttempts = 3
  MaxLag = 2
  MaxFaults = 2
PROPERTY TrackedNonceUsed
\* The script ends.
CHECK_DEADLOCK FALSE
