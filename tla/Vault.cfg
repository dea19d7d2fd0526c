SPECIFICATION Spec
CONSTANTS
  w1 = w1
  w2 = w2
  k = k
  p = p
  Account = {w1, w2, k, p}
  NoAccount = NoAccount
  Vault = Vault
  Wallet = {w1, w2}
  Key = {k}
  Payee <- MCPayee
  Owner = p
  Purse <- MCPurse
  Amount = {10}
  FeeBps = {1000, 1500}
  MaxDuration = 1
  Horizon = 2
  MaxRentals = 1
  MaxSignatures = 2
  MaxGifts = 1
  MaxDelegated = 20
INVARIANT VaultTypeOK
INVARIANT Solvent
INVARIANT UsedSignaturesAreDead
INVARIANT ExposureIsBounded
PROPERTY RefinesEscrow
CHECK_DEADLOCK FALSE
