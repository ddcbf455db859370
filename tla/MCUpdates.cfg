CONSTANTS
  Releases <- MCReleases
  Pids = {1}
  OneAtATime = TRUE
  PidReuse = FALSE
  MaxMoves = 2
  MaxFaults = 2
SPECIFICATION Spec
PROPERTIES InstalledIsSigned DoneIsInstalled UpToDate
CHECK_DEADLOCK FALSE
