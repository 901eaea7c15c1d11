CONSTANTS
  Devices = {d1, d2, d3}
  Handlers = {r1}
  MaxTeams = 2
  Sizes = {1, 2}
  ExpiresInFlight = FALSE
  MaxRequests = 4
  MaxExpiries = 2
  MaxResets = 1
  MaxResizes = 1
  MaxLost = 1
SPECIFICATION Spec
INVARIANT ActiveWhenPlayed
PROPERTY SeatsSpec
SYMMETRY Symmetry
CHECK_DEADLOCK FALSE
