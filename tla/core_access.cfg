\* The zero order id and one lender, two mints of which one charges transfer fees,
\* roles that change hands: who may be paid, and when.
SPECIFICATION Spec
CONSTANTS
  None = None
  k1 = k1
  k2 = k2
  k3 = k3
  p1 = p1
  z1 = z1
  w1 = w1
  l1 = l1
  l2 = l2
  m1 = m1
  m2 = m2
  o1 = o1
  ZeroId = ZeroId
  InitialManager = k1
  Keys = {k1, k2, k3}
  Partners = {p1}
  Zovs = {z1}
  Wallets = {w1}
  InitialBalance <- FeesFunded
  RoleSets <- ShiftingRoles
  Mints = {m1, m2}
  FeeBearing = {m2}
  OrderIds = {ZeroId}
  Lenders = {l1}
  MaxU64 = 2
  pdvFunds = 2
  zovFunds = 1
INVARIANT DebtInv
PROPERTIES VaultsPayOnlyEntitled FrozenWhilePaused
