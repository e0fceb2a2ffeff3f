CONSTANTS
  Funds = {f1}
  Singles = {}
  Claims = {c1}
  Resets = {x1}
  Size = 2
  MaxNonce = 4
  MaxFee = 2
  NoTx = NoTx
SPECIFICATION Spec
INVARIANTS
  NoGap
  DoneIsMined
  RetryIsClean
  ResetUnsticks
  WalkStopsAtGap
PROPERTY ImplementsLedger
CHECK_DEADLOCK FALSE
