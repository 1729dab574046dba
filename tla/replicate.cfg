SPECIFICATION FairSpec
CONSTANTS
  File = {f1}
  Snap = {1}
  Missing = Missing
  MaxTrouble = 1
CHECK_DEADLOCK FALSE
INVARIANT
  CompleteMeans
PROPERTIES
  CopyCatchesUp
  NotWiped
