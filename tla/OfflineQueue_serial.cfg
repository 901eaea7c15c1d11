CONSTANTS
  Stations = {timed}
  TimedStations = {timed}
  Types = {"start", "complete", "fail"}
  Calls = {c1}
  RenderFirst = TRUE
  TimeoutIsRetriable = TRUE
  Throttles = FALSE
  MaxTaps = 3
  MaxFaults = 3
  MaxKills = 1
SPECIFICATION Spec
INVARIANTS TypeOK QueueKept
PROPERTIES OutboxSpec
