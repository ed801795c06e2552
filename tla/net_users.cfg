SPECIFICATION Spec
CONSTANTS
  u1 = u1
  u2 = u2
  u3 = u3
  Users = {u1, u2, u3}
  Deletable = {u1}
  None = None
  Crashes = FALSE
  VlanStart = 10
  VlanEnd = 13
  NetSize = 4
  PublicSize = 5
  InstanceIPs <- NoInstances
INVARIANT PoolMatchesNetworks
