\* Three threads, two DIDs, two calls each: every pair and triple of calls meets.
SPECIFICATION FairSpec
CONSTANTS
  Thread = {t1, t2, t3}
  DID = {d1, d2}
  MaxCalls = 2
PROPERTIES Linearizable EveryCallReturns
\* The instance ends when every thread has made its calls.
CHECK_DEADLOCK FALSE
