\* Orders, beneficiaries, role changes and pauses of one program together.
SPECIFICATION ZynkSpec
CONSTANTS
  None = None
  Null = Null
  k1 = k1
  k2 = k2
  m1 = m1
  Keys = {k1, k2}
  InitialManager = k1
  Mints = {m1}
  FeeBearing = {}
  Delay <- ShortDelay
  RoleSets <- Separate
  InPlay = {"UpdateManager"}
  MaxTime = 1
  Partners = {p1}
  OrderIds = {o1}
  ZeroId = ZeroId
  Zovs = {z1}
  Wallets = {w1}
  Lenders = {}
  MaxU64 = 1
  InitialBalance <- VaultsFunded
PROPERTY OneKeyPaysNoWallet
