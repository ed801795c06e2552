SPECIFICATION Spec
CONSTANTS
  u1 = u1
  Users = {u1}
  Deletable = {u1}
  None = None
  Crashes = TRUE
  VlanStart = 10
  VlanEnd = 13
  NetSize = 4
  PublicSize = 7
  InstanceIPs <- Instances2
INVARIANTS OneAssociationPerInstance AssociatedAreNatted
PROPERTY ImplementsLedger
