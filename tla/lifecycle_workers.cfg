CONSTANTS
  Services = {s1}
  Flash = {}
  Workers = {w1, w2}
  MaxGeneration = 2
  MaxPolicy = 0
  MaxEvents = 2
  MaxObservations = 0
  MaxAbandoned = 1
  s1 = s1
  w1 = w1
  w2 = w2
SPECIFICATION FairSpec
CHECK_DEADLOCK FALSE
INVARIANTS DesiredStateNotLost RemovedStaysRemoved
PROPERTIES DeletionCompletes GenerationSettles
