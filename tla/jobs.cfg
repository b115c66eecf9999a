SPECIFICATION QueueSpec
CONSTANTS
  None = None
  Names <- TheNames
  Urls <- TheUrls
  JenkinsUrl <- CiPort
  Foreign <- TheForeign
  Numbered <- TheNumbered
  Altered <- TheAltered
  Breaking <- TheBreaking
  Undefined <- Missing
  Unreadable = Unreadable
  MaxListed = 2
  MaxQueue = 3
INVARIANTS
  JobQueueTypeOK
  YamlIsQueueByHost
  YamlRebuildsJobs
