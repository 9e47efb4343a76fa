\* What a repayment gives a lender (repay.rs 173).
SPECIFICATION LoansSpec
CONSTANTS
  None = None
  k1 = k1
  k2 = k2
  p1 = p1
  o1 = o1
  z1 = z1
  w1 = w1
  u1 = u1
  u2 = u2
  a1 = a1
  m1 = m1
  n1 = n1
  r1 = r1
  ZeroId = ZeroId
  InitialManager = k1
  Keys = {k1, k2}
  Partners = {p1}
  OrderIds = {o1}
  Zovs = {z1}
  CanonicalZov = z1
  Wallets = {w1}
  Mints = {m1}
  FeeBearing = {}
  MaxU64 = 6
  Amounts = {3, 4, 6}
  DirectAmounts = {}
  MaxOperations = 2
  InitialBalance <- Funded
  walletFunds = 3
  pdvFunds = 6
  zovFunds = 1
  Users = {u1, u2}
  UserWallets = {a1}
  OrbitVault = OrbitVault
  PartnerNumbers = {n1}
  NumberOf <- Number
  Recipients = {}
  OvaultRoom = 0
  Profiles = {}
  RoleSets <- Roles
  MaxTime = 1
  TypeOf <- AllCustodial
  WalletOf <- OneWallet
PROPERTY RepaidWithinBalance
