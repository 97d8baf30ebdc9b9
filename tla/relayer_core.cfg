SPECIFICATION Spec
CONSTANTS
  p1 = p1
  p2 = p2
  f1 = f1
  s1 = s1
  s2 = s2
  NoTx = NoTx
  Signer = Signer
  Payloads = {p1}
  Fillers = {f1}
  Sweepers = {s1}
  DependsOn <- NoDependency
  Reverts = {}
  Confirmations = 2
  AgeBlocks = 2
  MaxResets = 1
  LostAnswers = FALSE
  TriesTimeOut = FALSE
  MaxAttempts = 2
  MaxHead = 4
  MaxReorgs = 1
  MaxForeign = 1
INVARIANTS TypeOK ReachedIsListed AtMostOnce NoNonceGap
PROPERTY PromiseKept
\* the relayer stops when everything submitted is settled
CHECK_DEADLOCK FALSE
