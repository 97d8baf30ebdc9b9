SPECIFICATION FairSpec
CONSTANTS
  m1 = m1
  m2 = m2
  t1 = t1
  t2 = t2
  fast = fast
  slow = slow
  NoOne = NoOne
  NoBlock = NoBlock
  Runs = {m1, m2}
  Txs = {t1}
  Rules = {fast}
  FastRules = {fast}
  Switched = {}
  Hits <- OneFast
  StartBlock = 0
  MaxRange = 2
  FAST_OVERLAP = 1
  FAST_MAX_RANGE = 3
  DROP_AFTER_BLOCKS = 2
  MaxHead = 3
  MaxReorgs = 1
  MaxFaults = 1
INVARIANT FastCovers
PROPERTIES CatchesUp ProvisionalSettles
CHECK_DEADLOCK FALSE
