\* Two custodial lenders, a manager that keeps repaying, and loans, claims, other repayments,
\* write-offs, revoked positions and pauses in between.
SPECIFICATION DiligentSpec
CONSTANTS
  None = None
  k1 = k1
  k2 = k2
  p1 = p1
  o1 = o1
  z1 = z1
  w1 = w1
  u1 = u1
  u2 = u2
  a1 = a1
  m1 = m1
  n1 = n1
  r1 = r1
  ZeroId = ZeroId
  InitialManager = k1
  Keys = {k1, k2}
  Partners = {p1}
  OrderIds = {o1}
  Zovs = {z1}
  CanonicalZov = z1
  Wallets = {w1}
  Mints = {m1}
  FeeBearing = {}
  MaxU64 = 3
  Amounts = {1, 2}
  DirectAmounts = {}
  MaxOperations = 2
  InitialBalance <- Funded
  walletFunds = 2
  pdvFunds = 3
  zovFunds = 1
  Users = {u1, u2}
  UserWallets = {a1}
  OrbitVault = OrbitVault
  PartnerNumbers = {n1}
  NumberOf <- Number
  Recipients = {}
  OvaultRoom = 0
  Profiles = {}
  RoleSets <- Roles
  MaxTime = 1
  TypeOf <- AllCustodial
  WalletOf <- OneWallet
PROPERTY LoansRepaid
