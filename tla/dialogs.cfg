SPECIFICATION Spec
CONSTANTS
  Names = {n1, n2}
  MaxSteps = 3
  None = None
INVARIANTS
  NoStubLeft
PROPERTIES
  UserRemotesKept
  SuccessMeans
  DialogEnds
