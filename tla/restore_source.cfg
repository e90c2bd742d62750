CONSTANTS
  MaxBackups = 2
  Scheduled = {1, 2}
  Restorable = {1}
  Quota = 2
  Retention = 1
  VerifyRestore = FALSE
  MaxDelayed = 1
  Reconcilers = {r1}
  r1 = r1
SPECIFICATION Spec
CHECK_DEADLOCK FALSE
INVARIANT RestoreSourceKept
