CONSTANTS
  Stations = {free}
  TimedStations = {}
  Types = {"complete"}
  Calls = {c1, c2}
  RenderFirst = FALSE
  TimeoutIsRetriable = FALSE
  Throttles = TRUE
  MaxTaps = 2
  MaxFaults = 2
  MaxKills = 0
SPECIFICATION Spec
PROPERTY Settles
