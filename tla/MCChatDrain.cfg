CONSTANTS
  m1 = m1
  m2 = m2
  v1 = v1
  NoRun = NoRun
  Message = {m1, m2}
  Visit = {v1}
  Modes = {"auto"}
  Kinds = {"remove", "stop"}
  MaxDrainAttempts = 8
  MaxFailures = 1
  MaxCrashes = 1
  MaxEvents = 2
SPECIFICATION MCSpec
INVARIANTS
  NothingLost
  NeverWedged
PROPERTY QueueDrains
CHECK_DEADLOCK FALSE
