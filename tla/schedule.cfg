SPECIFICATION Spec
CONSTANTS
  Path = {p}
  House = House
  Bin = {b1, b2}
  Asked <- MCAsked
  Off = Off
  Untracked = Untracked
  Unknown = Unknown
  NoConfig = NoConfig
  Missing = Missing
  Half = Half
  Closed = Closed
  Setup = Setup
  MayFail = {"wrapper", "timer", "unload", "reload", "load", "config", "reconcile"}
  MaxCalls = 3
INVARIANTS
  TypeOK
  AsTold
  LaunchedCurrent
PROPERTIES
  SourcesKept
  MirrorHeals
