SPECIFICATION Spec
CONSTANTS
  p1 = p1
  p2 = p2
  Bin = {b1, b2}
  Data = {d1, d2}
  Source = {p1, p2}
  ProjectName <- MCProjectName
  Input <- MCInput
  Releases <- MCReleases
  Guis <- MCGuis
  Installed <- MCInstalled
  Missing = Missing
  NoConfig = NoConfig
  Closed = Closed
  Setup = Setup
  Unmarked = Unmarked
  Junk = Junk
  Unknown = Unknown
  MayFail = {"list", "lookup", "download", "cleanup", "install", "copy", "config", "configure", "switches", "patterns"}
  MaxCalls = 4
SYMMETRY MCSymmetry
INVARIANTS
  TypeOK
  UsableShown
  IgnoreAsSaved
PROPERTIES
  SettingsKept
  BackendUnderstood
