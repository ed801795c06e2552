SPECIFICATION FairSpec
CONSTANTS
  Users = {u1, u2}
  Names = {k1}
  Procs = {p1, p2}
  None = None
  Torn = Torn
  FirstPort = 8
  MaxPort = 9
  MaxKeys = 2
INVARIANTS TypeOK OnePortEach KeysAsAnswered
PROPERTIES DeletionEnds
CHECK_DEADLOCK FALSE
