CONSTANTS
  Stations = {timed}
  TimedStations = {timed}
  Types = {"start", "complete"}
  Calls = {c1, c2}
  RenderFirst = TRUE
  TimeoutIsRetriable = TRUE
  Throttles = FALSE
  MaxTaps = 2
  MaxFaults = 2
  MaxKills = 0
SPECIFICATION Spec
PROPERTIES SavedIsSent
