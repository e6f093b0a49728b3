CONSTANTS
  m1 = m1
  m2 = m2
  v1 = v1
  NoRun = NoRun
  Message = {m1, m2}
  Visit = {v1}
  Modes = {"auto"}
  Kinds = {"stop"}
  MaxDrainAttempts = 8
  MaxFailures = 0
  MaxCrashes = 0
  MaxEvents = 1
SPECIFICATION DSpec
INVARIANT StopPauses
CHECK_DEADLOCK FALSE
