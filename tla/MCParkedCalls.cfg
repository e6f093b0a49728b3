CONSTANTS
  turn = turn
  child = child
  inner = inner
  side = side
  a = a
  d = d
  e = e
  g = g
  x = x
  p1 = p1
  p2 = p2
  NoRun = NoRun
  Top = turn
  Awaited = {child, inner}
  Detached = {side}
  Call = {a, d, e, g, x}
  Batches <- MCBatches
  To <- MCTo
  Sink <- MCSink
  Timed = {a, x}
  Person = {p1, p2}
  MaxStops = 1
  MaxFaults = 1
SPECIFICATION Spec
INVARIANTS
  RecordedAsDecided
  DecisionIsKept
  TooLateIsRefused
  CardsClose
PROPERTIES
  TurnEnds
CHECK_DEADLOCK FALSE
