CONSTANTS
  p1 = p1
  w1 = w1
  w2 = w2
  NoKey = NoKey
  NoProposal = NoProposal
  NoWorker = NoWorker
  Proposal = {p1}
  Worker = {w1, w2}
  LeaseMs = 2
  Keys = {}
  Key <- MCKey
  Lifetimes <- MCLifetimes
  Clocks = {0}
  Clock <- MCClock
  MaxGeneration = 4
  MaxConcurrency = 1
  MaxFaults = 1
  MaxTurns = 1
  MaxBusy = 1
SPECIFICATION WSpec
INVARIANTS
  OneClaimPerFault
PROPERTIES
  ImplementsStore
  ApprovedIsSettled
  OutcomeIsTold
  PendingLapses
