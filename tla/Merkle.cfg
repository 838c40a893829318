SPECIFICATION OrderedSpec
CONSTANTS
  Leaf = {a, b, c, d, e, f}
  MaxLeaves = 5
  MaxIndex = 7
  MaxProof = 3
INVARIANTS RootIsReference AcceptedIsPosted EveryLeafDisputable
\* A claim that has been judged is the end.
CHECK_DEADLOCK FALSE
