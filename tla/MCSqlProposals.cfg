CONSTANTS
  p1 = p1
  c1 = c1
  c2 = c2
  w1 = w1
  NoKey = NoKey
  NoProposal = NoProposal
  NoWorker = NoWorker
  Proposal = {p1}
  Worker = {w1}
  Caller = {c1, c2}
  LeaseMs = 1
  Keys = {}
  Key <- MCKey
  Lifetimes <- MCLifetimes
  Clocks = {0}
  MaxGeneration = 2
  MaxAttempts = 2
  MaxCrashes = 1
SPECIFICATION SSpec
SYMMETRY Symmetry
INVARIANTS
  UniqueFence
  RecordFollows
PROPERTIES
  SettledByLatestClaim
  ImplementsLifecycle
CHECK_DEADLOCK FALSE
