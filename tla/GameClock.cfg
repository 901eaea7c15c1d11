CONSTANTS
  Stations = {s1}
  Handlers = {h1}
  Schedules = {0}
  Durations = {2, 3}
  Grace = 1
  StaleGrace = 0
  Minute = 2
  MaxTime = 4
  MaxOps = 2
  MaxFaults = 2
SPECIFICATION Spec
INVARIANTS TypeOK DecisionsHold
PROPERTIES Resumes TasksAgree ScreenAgrees
CHECK_DEADLOCK FALSE
