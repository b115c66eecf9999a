SPECIFICATION BootSpec
CONSTANTS
  None = None
  Variables <- EnvironmentVariables
  MaxMissing = 3
  MaxRetries = 2
INVARIANTS
  BootTypeOK
  HandlersFindConfiguration
  RefusalNamesMissing
PROPERTIES
  BootEnds
