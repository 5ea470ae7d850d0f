SPECIFICATION Spec
CONSTANTS
  FileLength = 2
  MaxHops = 2
  MaxTimeouts = 2
  Builds = {"built"}
  Downloads = {"downloaded"}
  MaxInits = 2
  Instances = {"A", "B"}
  MaxTime = 1
  MaxRanges = 2
  MaxWord = 3
INVARIANTS
  VersionMeansComplete
  RemainsRemoved
  DownloadedOnce
  SessionsApart
  SymbolicAsAsked
PROPERTIES
  RunsOnPublished
CHECK_DEADLOCK FALSE
