CONSTANTS
  N = 2
  Size = 10
  Listed = 20
  Prices <- MCPrices
  Tips <- MCTips
  DefaultTip = 36
  Purses <- MCPurses
  ApproveGas = 60
  AddGas = 40
  CallGas <- MCCallGas
  MaxSpent = 1
SPECIFICATION Spec
INVARIANTS
  NeverShort
  WithinEstimate
