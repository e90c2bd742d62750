CONSTANTS
  Parts = {"backups", "revisions"}
  MaxBackups = 1
  Scheduled = {}
  Restorable = {1}
  Quota = 1
  Retention = 1
  VerifyRestore = FALSE
  MaxDelayed = 1
  Reconcilers = {r1, r2}
  r1 = r1
  r2 = r2
  Execs = {"e1", "e2"}
  Securities = {s1}
  s1 = s1
  Sizes = {1}
  Requests <- PlainRequests
  ScaleToZero = {"e2"}
  AutoRollback = {"e1", "e2"}
  ListLimit = 2
  MaxGeneration = 3
  Observers = {o1}
  o1 = o1
  Destinations = {}
  DestinationNames = {}
  S3Keys = {}
  GoodKeys = {}
  DestWriters = {}
  Refreshers = {}
  DestinationLimit = 0
  NoDestination = NoDestination
  NoS3Key = NoS3Key
SPECIFICATION OperationsFairSpec
CHECK_DEADLOCK FALSE
INVARIANTS RestoreSourceKept UsableIsStored HealthIsEarned
PROPERTIES DeletedDataIsPurged DeleteCompletes 
