CONSTANTS
  m1 = m1
  m2 = m2
  v1 = v1
  NoRun = NoRun
  Message = {m1, m2}
  Visit = {v1}
  Modes = {"auto", "queue", "interrupt"}
  Kinds = {"resume", "prioritize", "remove", "reorder", "clear", "stop"}
  MaxDrainAttempts = 8
  MaxFailures = 1
  MaxCrashes = 1
  MaxEvents = 1
SPECIFICATION Spec
SYMMETRY Symmetry
INVARIANTS
  StartedOnce
  NothingLost
  ThreadFreed
CHECK_DEADLOCK FALSE
