CONSTANTS
  Services = {s1}
  Flash = {s1}
  Workers = {w1}
  MaxGeneration = 3
  MaxPolicy = 1
  MaxEvents = 3
  MaxObservations = 2
  MaxAbandoned = 1
  s1 = s1
  w1 = w1
SPECIFICATION Spec
CHECK_DEADLOCK FALSE
INVARIANTS ReadyMeansApplied ProtocolInvariant
PROPERTY ImplementsDesiredState
