CONSTANTS
  EvmWallets = {e1, e2}
  TronWallets = {t1}
  EvmChains = {ETH, POLYGON}
  TronChains = {TRON}
  ETH = ETH
  TRON = TRON
  NoWallet = NoWallet
  NoChain = NoChain
  N = 2
  Nobody = Nobody
SPECIFICATION ReadersSpec
INVARIANTS
  ReadersIInv
  MemoryIsDurable
  PickSurvives
  WorksForOwner
PROPERTY SeriesToOneAccount
SYMMETRY Symmetry
