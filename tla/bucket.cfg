SPECIFICATION Spec
CONSTANTS
  Buckets = {b1, b1json}
  b1 = b1
  b1json = b1json
  None = None
  Torn = Torn
  Beside <- MCBeside
  Keys = {manifest, part}
  manifest = manifest
  part = part
  Manifest = manifest
  Users = {u1, u2, root}
  u1 = u1
  u2 = u2
  root = root
  Admins = {root}
  Registrations = {r1}
  r1 = r1
  MaxStrayed = 1
SYMMETRY Symmetry
INVARIANTS TypeOK ObjectsOfOwner OnlyTheCutIsHurt ImageOfOwner
PROPERTIES OwnerKept
