\* A user of any type, revoked and registered anew: its allowlists, cliff, requests,
\* principal, cap and custody, and the Orbit vault beside it.
SPECIFICATION UsersSpec
CONSTANTS
  None = None
  k1 = k1
  k2 = k2
  u1 = u1
  a1 = a1
  m1 = m1
  n1 = n1
  r1 = r1
  r2 = r2
  InitialManager = k1
  Keys = {k1, k2}
  Mints = {m1}
  FeeBearing = {}
  MaxU64 = 2
  Amounts = {1, 2}
  InitialBalance <- WalletsFunded
  walletFunds = 2
  Users = {u1}
  UserWallets = {a1}
  OrbitVault = OrbitVault
  CanonicalZov = CanonicalZov
  PartnerNumbers = {n1}
  Recipients = {r1, r2}
  OvaultRoom = 1
  Profiles <- TypeProfiles
  RoleSets <- Roles
  MaxTime = 1
SYMMETRY RecipientSymmetry
INVARIANTS UsersTypeOK WithinCap CustodyBacks
