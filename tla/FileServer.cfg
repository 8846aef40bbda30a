CONSTANTS
  Clients = {c1, c2}
  Directories <- MCDirectories
  InitialFiles <- MCInitialFiles
  Bodies <- MCBodies
  Targets <- MCTargets
  UploadTargets <- MCUploadTargets
  SearchNames <- MCSearchNames
  MaxVersions = 3
  Absent = Absent

SPECIFICATION FairSpec
INVARIANT DownloadInVersions
PROPERTY EveryConnectionEnds
CHECK_DEADLOCK FALSE
