CONSTANTS
  p1 = p1
  p2 = p2
  k = k
  slow = slow
  fast = fast
  NoKey = NoKey
  NoProposal = NoProposal
  NoWorker = NoWorker
  Proposal = {p1, p2}
  Worker = {slow, fast}
  LeaseMs = 2
  Keys = {k}
  Key <- MCKey
  Lifetimes <- MCLifetimes
  Clocks = {0, 2}
  Clock <- MCClock
  MaxGeneration = 3
  MaxConcurrency = 2
  MaxFaults = 2
  MaxTurns = 1
  MaxBusy = 0
SPECIFICATION JSpec
SYMMETRY Symmetry
INVARIANTS
  ReplacedByNewer
PROPERTIES
  NeverDecidedLate
  SettledUnderLease
