\* One order with two lenders, in one mint, over all amounts of a 2-bit u64.
SPECIFICATION Spec
CONSTANTS
  None = None
  k1 = k1
  k2 = k2
  k3 = k3
  p1 = p1
  z1 = z1
  w1 = w1
  l1 = l1
  l2 = l2
  m1 = m1
  m2 = m2
  o1 = o1
  ZeroId = ZeroId
  InitialManager = k1
  Keys = {k1, k2, k3}
  Partners = {p1}
  Zovs = {z1}
  Wallets = {w1}
  InitialBalance <- VaultsFunded
  RoleSets <- FixedRoles
  Mints = {m1}
  FeeBearing = {}
  OrderIds = {o1}
  Lenders = {l1, l2}
  MaxU64 = 3
  pdvFunds = 1
  zovFunds = 2
SYMMETRY LenderSymmetry
INVARIANTS TypeOK DebtInv LendersSenior LendersPaidByPartner
PROPERTIES ClosedMeansSettled TermsFixed
