CONSTANTS
  Teams = {t1, t2}
  Stations = {code, hunt}
  PhotoStations = {}
  QrStations = {hunt}
  TimerStations = {hunt}
  DecayStations = {hunt}
  SharedStations = {hunt}
  BonusStations = {code}
  Labels = {l1, l2}
  Codes = {first}
  FirstTeamCodes = {first}
  Awards <- MCAwards
  AdminAward <- MCAdminAward
  BonusAward <- MCBonus
  Slots = {r1}
  Ops = {"start", "complete", "fail", "scan", "claim", "adminReset", "adminComplete", "adminFail", "resetTasks"}
  MaxRequests = 4
  MaxResets = 0
  MaxCrashes = 0
  NoCode = NoCode
SPECIFICATION Spec
INVARIANTS ScansExplained ExclusiveUse FirstsOnce
PROPERTIES DevicesNeverReopen BoardSpec
