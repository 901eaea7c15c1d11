CONSTANTS
  Teams = {t1, t2}
  Stations = {hunt}
  PhotoStations = {}
  QrStations = {hunt}
  TimerStations = {}
  DecayStations = {}
  SharedStations = {}
  BonusStations = {}
  Labels = {l1, l2}
  Codes = {}
  FirstTeamCodes = {}
  Awards <- MCAwards
  AdminAward <- MCAdminAward
  BonusAward <- MCBonus
  Slots = {r1, r2}
  Ops = {"scan", "resetTasks"}
  MaxRequests = 3
  MaxResets = 0
  MaxCrashes = 0
  NoCode = NoCode
SPECIFICATION Spec
INVARIANT ResetLeavesNoScans
