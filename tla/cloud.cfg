SPECIFICATION Spec
CONSTANTS
  i1 = i1
  v1 = v1
  v2 = v2
  u1 = u1
  n1 = n1
  n2 = n2
  Ids = {i1, v1, v2}
  Nodes = {n1, n2}
  Users = {u1}
  None = None
  VpnOf <- Vpns
  Terminable = {i1}
  Restarts = FALSE
  Crashing = {n1}
  Returning = {v1}
  MaxReports = 1
  MaxTerminates = 1
INVARIANTS TypeOK NothingInvisible AtMostOneVpn
