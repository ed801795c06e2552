SPECIFICATION FairSpec
CONSTANTS
  i1 = i1
  v1 = v1
  v2 = v2
  u1 = u1
  n1 = n1
  n2 = n2
  Ids = {i1}
  Nodes = {n1, n2}
  Users = {u1}
  None = None
  VpnOf <- Vpns
  Terminable = {i1}
  Restarts = TRUE
  Crashing = {n1, n2}
  Returning = {i1}
  MaxReports = 1
  MaxTerminates = 1
INVARIANTS TerminateGoesHome
PROPERTIES ImplementsRegistry PendingEnds ListingCatchesUp
