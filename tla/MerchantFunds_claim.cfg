CONSTANTS
  N = 2
  Size = 50
  Listed = 50
  Prices <- MCPrices
  Tips <- MCTips
  DefaultTip = 36
  Purses <- MCLargePurses
  ApproveGas = 60
  AddGas = 40
  CallGas <- MCLargeCallGas
  MaxSpent = 1
SPECIFICATION Spec
INVARIANTS
  CallGasEnough
