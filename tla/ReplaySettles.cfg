SPECIFICATION OperatedSpec
CONSTANTS
  r1 = r1
  r2 = r2
  e1 = e1
  e2 = e2
  e3 = e3
  NoRun = NoRun
  NoJob = NoJob
  NoEvent = NoEvent
  Events <- MCEvents
  EventsAt <- MCEventAt
  IntervalEvents = {}
  LookupEvents = {}
  Node <- MCNode
  Runs = {r1, r2}
  MaxHeight = 3
  MaxRange = 2
  Interval = 1
  MaxCrashes = 1
  MaxFaults = 1
  MaxSignals = 1
  MaxOverlaps = 1
CONSTRAINT OneInterruption
PROPERTY RunningOnlyPastEnd
CHECK_DEADLOCK FALSE
