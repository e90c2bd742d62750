CONSTANTS
  MaxBackups = 1
  Scheduled = {}
  Restorable = {1}
  Quota = 1
  Retention = 1
  VerifyRestore = FALSE
  MaxDelayed = 1
  Reconcilers = {r1}
  r1 = r1
SPECIFICATION FairSpec
CHECK_DEADLOCK FALSE
PROPERTY DeletedStaysPurged
