SPECIFICATION CloudFairSpec
CONSTANTS
  Ids = {d1, d2}
  Places <- MCPlaces
  None = None
  Torn = Torn
  Gone = Gone
  Shelves = 3
  Blades = 1
  MaxQueue = 1
  MaxCrashes = 1
  MaxFailures = 1
  Instances = {"x"}
  Names = {"vdb"}
  Paths = {"/dev/vdb"}
  NameOf <- MCNameOf
  MaxReports = 1
  MaxCommands = 1
  MaxStrays = 1
INVARIANTS CloudTypeOK OwnDevice NoDiskLeft
PROPERTIES SameDevice DeletesHappen
CHECK_DEADLOCK FALSE
