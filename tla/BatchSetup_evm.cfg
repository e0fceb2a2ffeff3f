CONSTANTS
  NRuns = 2
  Addr = {a1, a2, a3}
  Count = 1
  Evm = TRUE
  NoAddr = NoAddr
SPECIFICATION Spec
INVARIANTS
  IInv
  RegisteredSignable
  GasRecoverable
  ListedBacked
  SweptOnlyListed
  DoneMeansActive
  StartedOnlyActive
  FailureIsOwn
PROPERTY ImplementsLifecycle
SYMMETRY AddrSymmetry
CHECK_DEADLOCK FALSE
