SPECIFICATION FairSpec
CONSTANTS
  p1 = p1
  p2 = p2
  f1 = f1
  s1 = s1
  s2 = s2
  NoTx = NoTx
  Signer = Signer
  Payloads = {p1,p2}
  Fillers = {}
  Sweepers = {s1}
  DependsOn <- SecondOnFirst
  Reverts = {}
  Confirmations = 1
  AgeBlocks = 0
  MaxResets = 1
  LostAnswers = TRUE
  TriesTimeOut = FALSE
  MaxAttempts = 1
  MaxHead = 2
  MaxReorgs = 0
  MaxForeign = 1
PROPERTY QueueDrains
\* the relayer stops when everything submitted is settled
CHECK_DEADLOCK FALSE
