CONSTANTS
  Parts = {"backups", "revisions", "destinations"}
  MaxBackups = 2
  Scheduled = {1, 2}
  Restorable = {}
  Quota = 2
  Retention = 1
  VerifyRestore = TRUE
  MaxDelayed = 0
  Reconcilers = {r1, r2}
  r1 = r1
  r2 = r2
  Execs = {"e1"}
  Securities = {s1, s2}
  s1 = s1
  s2 = s2
  Sizes = {1}
  Requests <- FenceRequests
  ScaleToZero = {}
  AutoRollback = {"e1"}
  ListLimit = 2
  MaxGeneration = 4
  Observers = {o1}
  o1 = o1
  Destinations = {d1}
  DestinationNames = {n1}
  S3Keys = {good, bad}
  GoodKeys = {good}
  DestWriters = {w1, w2}
  Refreshers = {f1}
  DestinationLimit = 1
  NoDestination = NoDestination
  NoS3Key = NoS3Key
SPECIFICATION OperationsSpec
SYMMETRY OperationsSymmetry
CHECK_DEADLOCK FALSE
INVARIANTS PrunedAfterVerification SettingsStayCurrent DestinationIsConsistent
