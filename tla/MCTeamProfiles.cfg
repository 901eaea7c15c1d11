CONSTANTS
  Teams <- MCTeams
  Phones <- MCPhones
  TeamOf <- MCTeamOf
  Calls = {c1, c2}
  Names <- MCNames
  Icons <- MCIcons
  Colors <- MCColors
  Inputs <- MCInputs
  MaxRequests = 3
  MaxFaults = 1
SPECIFICATION Spec
INVARIANTS TypeOK NamesDistinct LastAcceptedStands SelfieStored
PROPERTY ScreenConverges
CHECK_DEADLOCK FALSE
