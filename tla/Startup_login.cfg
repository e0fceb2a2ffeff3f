CONSTANTS
  Passwords = {p, q}
  Wallets = {w}
  Shares = {s}
  Attempts = {a1, a2}
  ETH = ETH
  POLYGON = POLYGON
  Chains = {ETH, POLYGON}
  Answers <- MCAnswers
  LocalChains = {ETH}
  None = None
SPECIFICATION FairSpec
INVARIANTS
  SecretsOpen
  UnlockedIsVerified
  RightPasswordOpens
PROPERTIES
  LoginKeepsChain
  AttemptEnds
