SPECIFICATION Spec
CONSTANTS
  i1 = i1
  Ids = {i1}
  Foreign = {}
  Workers = 1
  None = None
PROPERTY TerminatedStaysDown
