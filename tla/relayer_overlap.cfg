SPECIFICATION Spec
CONSTANTS
  p1 = p1
  p2 = p2
  f1 = f1
  s1 = s1
  s2 = s2
  NoTx = NoTx
  Signer = Signer
  Payloads = {p1,p2}
  Fillers = {}
  Sweepers = {s1, s2}
  DependsOn <- SecondOnFirst
  Reverts = {}
  Confirmations = 1
  AgeBlocks = 2
  MaxResets = 1
  LostAnswers = TRUE
  TriesTimeOut = TRUE
  MaxAttempts = 1
  MaxHead = 2
  MaxReorgs = 0
  MaxForeign = 0
SYMMETRY SweeperSymmetry
INVARIANTS DependencyFirst NonceHolders
PROPERTY SettledForGood
\* the relayer stops when everything submitted is settled
CHECK_DEADLOCK FALSE
