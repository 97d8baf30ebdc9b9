SPECIFICATION Spec
CONSTANTS
  m1 = m1
  m2 = m2
  t1 = t1
  t2 = t2
  fast = fast
  slow = slow
  NoOne = NoOne
  NoBlock = NoBlock
  Runs = {m1, m2}
  Txs = {t1}
  Rules = {fast}
  FastRules = {fast}
  Switched = {fast}
  Hits <- OneFast
  StartBlock = NoBlock
  MaxRange = 2
  FAST_OVERLAP = 1
  FAST_MAX_RANGE = 3
  DROP_AFTER_BLOCKS = 1
  MaxHead = 3
  MaxReorgs = 1
  MaxFaults = 1
INVARIANTS TypeOK CursorCovers
PROPERTY MatchesKept
SYMMETRY RunSymmetry
CHECK_DEADLOCK FALSE
