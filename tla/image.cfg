SPECIFICATION FairSpec
CONSTANTS
  Ids = {a1}
  None = None
  Torn = Torn
  MaxPuts = 2
INVARIANTS TypeOK PublicOnlyIfAsked AvailableHasImage OneCreator DeletedStaysDeleted MadePublic
PROPERTIES RegistrationEnds
CHECK_DEADLOCK FALSE
