\* Two role changes, of the guardian and the admin, that interleave.
SPECIFICATION Spec
CONSTANTS
  None = None
  Null = Null
  k1 = k1
  k2 = k2
  k3 = k3
  m1 = m1
  m2 = m2
  Keys = {k1, k2, k3}
  InitialManager = k1
  Mints = {m1}
  FeeBearing = {}
  Delay <- ScaledDelay
  RoleSets <- StartingRoles
  InPlay = {"UpdateAdmin", "UpdateGuardian"}
  MaxTime = 3
INVARIANTS TypeOK SlotsTruthful OneKeyChangesNoRole TwoKeysKeepGuardian
PROPERTY RoleChangesReviewed
