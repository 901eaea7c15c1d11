CONSTANTS
  Stations = {timed}
  TimedStations = {timed}
  Types = {"start", "complete", "fail"}
  Calls = {c1}
  RenderFirst = FALSE
  TimeoutIsRetriable = FALSE
  Throttles = FALSE
  MaxTaps = 1
  MaxFaults = 1
  MaxKills = 0
SPECIFICATION Spec
PROPERTIES UnansweredIsSaved
