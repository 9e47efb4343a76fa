\* One custodial user, registered, lent out, claiming, burned and revoked, with the order
\* instructions of Core in between.  The Orbit vault has no room for recipients here.
SPECIFICATION LendingSpec
CONSTANTS
  None = None
  k1 = k1
  k2 = k2
  p1 = p1
  o1 = o1
  z1 = z1
  w1 = w1
  u1 = u1
  u2 = u2
  a1 = a1
  m1 = m1
  n1 = n1
  r1 = r1
  ZeroId = ZeroId
  InitialManager = k1
  Keys = {k1, k2}
  Partners = {p1}
  OrderIds = {o1}
  Zovs = {z1}
  CanonicalZov = z1
  Wallets = {w1}
  Mints = {m1}
  FeeBearing = {}
  MaxU64 = 2
  Amounts = {1}
  DirectAmounts = {1}
  MaxOperations = 1
  InitialBalance <- Funded
  walletFunds = 1
  pdvFunds = 1
  zovFunds = 0
  Users = {u1}
  UserWallets = {a1}
  OrbitVault = OrbitVault
  PartnerNumbers = {n1}
  NumberOf <- Number
  Recipients = {r1}
  OvaultRoom = 0
  Profiles <- CustodyProfiles
  RoleSets <- Roles
  MaxTime = 1
  TypeOf <- AllCustodial
  WalletOf <- OneWallet
INVARIANTS LendingTypeOK BooksAgree PrincipalCovered
PROPERTY OneLedger
VIEW WhatMatters
