\* Pauses, requests to unpause and a change of the manager.
SPECIFICATION Spec
CONSTANTS
  None = None
  Null = Null
  k1 = k1
  k2 = k2
  k3 = k3
  m1 = m1
  m2 = m2
  Keys = {k1, k2, k3}
  InitialManager = k1
  Mints = {m1, m2}
  FeeBearing = {}
  Delay <- PauseDelay
  RoleSets <- StartingRoles
  InPlay = {"UpdateManager", "Unpause"}
  MaxTime = 3
PROPERTY PauseHolds
