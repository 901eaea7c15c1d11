CONSTANTS
  Teams = {t1, t2}
  Stations = {s1}
  PhotoStations = {}
  QrStations = {}
  TimerStations = {}
  DecayStations = {}
  SharedStations = {}
  BonusStations = {s1}
  Labels = {l1, l2}
  Codes = {}
  FirstTeamCodes = {}
  Awards <- MCAwards
  AdminAward <- MCAdminAward
  BonusAward <- MCBonus
  Slots = {r1}
  Ops = {"complete", "fail"}
  MaxRequests = 2
  MaxResets = 0
  MaxCrashes = 0
  NoCode = NoCode
SPECIFICATION Spec
INVARIANT BonusForTheFirst
