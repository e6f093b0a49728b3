CONSTANTS
  p1 = p1
  p2 = p2
  k = k
  NoKey = NoKey
  NoProposal = NoProposal
  NoWorker = NoWorker
  Proposal = {p1, p2}
  Worker = {w1}
  LeaseMs = 1
  Keys = {k}
  Key <- MCKey
  Lifetimes <- MCLifetimes
  Clocks = {0}
  MaxGeneration = 2
SPECIFICATION Spec
SYMMETRY Symmetry
INVARIANTS
  OutcomeTellsWhatHappened
  PostedOnce
  OnePendingPerGroup
  ToolCallNeverLies
PROPERTIES
  FirstWins
  ImplementsLifecycle
CHECK_DEADLOCK FALSE
