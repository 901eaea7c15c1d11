CONSTANTS
  Stations = {s1}
  Handlers = {h1, h2}
  Schedules = {0}
  Durations = {2}
  Grace = 1
  StaleGrace = 0
  Minute = 2
  MaxTime = 2
  MaxOps = 2
  MaxFaults = 0
SPECIFICATION Spec
INVARIANT OverUntilReset
CHECK_DEADLOCK FALSE
