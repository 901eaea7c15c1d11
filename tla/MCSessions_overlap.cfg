CONSTANTS
  Devices = {d1, d2}
  Handlers = {r1, r2}
  MaxTeams = 2
  Sizes = {1, 2}
  ExpiresInFlight = TRUE
  MaxRequests = 3
  MaxExpiries = 1
  MaxResets = 1
  MaxResizes = 1
  MaxLost = 1
SPECIFICATION Spec
INVARIANTS TypeOK SessionHeld SharedTeamsExplained SlotsContiguous
SYMMETRY Symmetry
CHECK_DEADLOCK FALSE
