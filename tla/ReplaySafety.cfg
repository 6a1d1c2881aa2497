SPECIFICATION Spec
CONSTANTS
  r1 = r1
  r2 = r2
  e1 = e1
  e2 = e2
  e3 = e3
  NoRun = NoRun
  NoJob = NoJob
  NoEvent = NoEvent
  Events <- MCEvents
  EventsAt <- MCEventsAt
  IntervalEvents <- MCIntervalEvents
  LookupEvents <- MCLookupEvents
  Node <- MCNode
  Runs = {r1, r2}
  MaxHeight = 3
  MaxRange = 2
  Interval = 2
  MaxCrashes = 1
  MaxFaults = 1
  MaxSignals = 1
  MaxOverlaps = 1
SYMMETRY RunSymmetry
INVARIANT TypeOK
INVARIANT ReplayInv
INVARIANT ResumePointSafe
INVARIANT CompletedMeansCommitted
INVARIANT CounterCoversRange
CHECK_DEADLOCK FALSE
