SPECIFICATION FairSpec
CONSTANTS
  i1 = i1
  i2 = i2
  f1 = f1
  Ids = {i1, i2}
  Foreign = {f1}
  Workers = 1
  None = None
INVARIANTS TypeOK NoUnmanagedDomain RunningHasDomain
PROPERTIES LaunchesEnd ShutdownsEnd
