CONSTANTS
  Owners = {p1, p2}
  p1 = p1
  p2 = p2
  Schedulers = {r1, r2}
  r1 = r1
  r2 = r2
  MaxSlots = 3
  MaxEdits = 1
SPECIFICATION FairSpec
CHECK_DEADLOCK FALSE
INVARIANT ShownBackupIsScheduled
PROPERTIES OutcomeIsCurrent DueRunHappens
