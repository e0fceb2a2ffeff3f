CONSTANTS
  Passwords = {p, q}
  Wallets = {w}
  Shares = {s}
  Attempts = {a1, a2}
  ETH = ETH
  POLYGON = POLYGON
  Chains = {ETH, POLYGON}
  Answers <- MCOneAnswer
  LocalChains = {}
  None = None
SPECIFICATION Spec
INVARIANT CacheServes
