CONSTANTS
  Teams = {t1}
  Stations = {s1, s2}
  PhotoStations = {}
  QrStations = {}
  TimerStations = {}
  DecayStations = {}
  SharedStations = {}
  BonusStations = {}
  Labels = {l1, l2}
  Codes = {}
  FirstTeamCodes = {}
  Awards <- MCAwards
  AdminAward <- MCAdminAward
  BonusAward <- MCBonus
  Slots = {r1, r2}
  Ops = {"complete"}
  MaxRequests = 2
  MaxResets = 0
  MaxCrashes = 0
  NoCode = NoCode
SPECIFICATION Spec
INVARIANT PointsAreTheSum
