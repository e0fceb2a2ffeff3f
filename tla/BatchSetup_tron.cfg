CONSTANTS
  NRuns = 1
  Addr = {a1, a2, a3, a4}
  Count = 2
  Evm = FALSE
  NoAddr = NoAddr
SPECIFICATION FairSpec
INVARIANTS
  ListedBacked
  DoneMeansActive
PROPERTY Terminates
CHECK_DEADLOCK FALSE
