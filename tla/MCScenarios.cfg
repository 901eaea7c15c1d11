CONSTANTS
  Realizations = {r1}
  Codes <- MCCodes
  Library <- MCLibrary
  Templates <- MCTemplates
  Calls = {c1, c2}
  MaxStations = 9
  MaxScenarios = 6
  MaxRequests = 2
  MaxFaults = 1
SPECIFICATION Spec
INVARIANTS TypeOK StationsOwned NothingLeft CodesAsSaved
CHECK_DEADLOCK FALSE
