SPECIFICATION Spec
CONSTANTS
  u1 = u1
  u2 = u2
  Users = {u1, u2}
  Deletable = {}
  None = None
  Crashes = TRUE
  VlanStart = 10
  VlanEnd = 13
  NetSize = 8
  PublicSize = 5
  InstanceIPs <- NoInstances
INVARIANTS TypeOK AddressesNotShared SavedWhenAcknowledged
