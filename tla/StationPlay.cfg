CONSTANTS
  Stations = {s1}
  Kinds = {"kept", "typed", "wordle", "password", "code"}
  Decay = TRUE
  LocationRequired = TRUE
  Limit = 2
  Calls = {c1, c2}
  MaxTaps = 2
  MaxFaults = 1
  MaxOpens = 2
SPECIFICATION Spec
INVARIANTS TypeOK OneSubmit
PROPERTIES ToldIsDecided
CHECK_DEADLOCK FALSE
