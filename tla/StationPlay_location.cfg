CONSTANTS
  Stations = {s1}
  Kinds = {"typed"}
  Decay = FALSE
  LocationRequired = TRUE
  Limit = 2
  Calls = {c1, c2}
  MaxTaps = 2
  MaxFaults = 1
  MaxOpens = 1
SPECIFICATION Spec
PROPERTIES ToldIsTrue
CHECK_DEADLOCK FALSE
