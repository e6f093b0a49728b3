CONSTANTS
  Turn = turn
  Delegate = {d1}
  Replica = {p1, p2}
  Reader = {r1}
  MaxWrites <- Writes
  MaxCrashes = 1
  MaxFaults = 1
  Transport = {"sql", "redis"}
  Attempts = 2
  ReadPage = 2
  Faulty = {"text", "call"}
SPECIFICATION Spec
INVARIANTS
  LossIsTold
  NothingStranded
PROPERTIES
  ImplementsStream
  EndReaches
CHECK_DEADLOCK FALSE
