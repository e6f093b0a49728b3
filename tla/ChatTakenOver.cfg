CONSTANTS
  m1 = m1
  m2 = m2
  v1 = v1
  NoRun = NoRun
  Message = {m1, m2}
  Visit = {}
  Modes = {"auto"}
  Kinds = {}
  MaxDrainAttempts = 8
  MaxFailures = 0
  MaxCrashes = 0
  MaxEvents = 1
SPECIFICATION Spec
INVARIANT OneRunAtATime
CHECK_DEADLOCK FALSE
