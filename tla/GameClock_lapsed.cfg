CONSTANTS
  Stations = {s1}
  Handlers = {h1}
  Schedules = {0}
  Durations = {5}
  Grace = 1
  StaleGrace = 0
  Minute = 1
  MaxTime = 1
  MaxOps = 1
  MaxFaults = 0
SPECIFICATION Spec
PROPERTIES EndIsTheServers
CHECK_DEADLOCK FALSE
