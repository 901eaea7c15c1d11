CONSTANTS
  Teams <- MCTeams
  Phones = {p1, p2}
  TeamOf <- MCTeamOf
  Categories <- MCCategories
  Slugs = {a, b}
  Difficulties <- MCDifficulties
  Correct <- MCCorrect
  Wrong <- MCWrong
  PerPool = 1
  Stations <- MCStations
  FirstPools <- MCFirstPools
  Window = 5
  MaxCalls = 2
  MaxRequests = 4
  MaxFaults = 1
SPECIFICATION Spec
INVARIANTS TypeOK PointsAreAttempts StreaksArePaid ResultOfThisCard
SYMMETRY Symmetry
CHECK_DEADLOCK FALSE
