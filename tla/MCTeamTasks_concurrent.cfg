CONSTANTS
  Teams = {t1, t2}
  Stations = {timed, photo}
  PhotoStations = {photo}
  QrStations = {}
  TimerStations = {timed}
  DecayStations = {timed}
  SharedStations = {}
  BonusStations = {}
  Labels = {l1}
  Codes = {c}
  FirstTeamCodes = {}
  Awards <- MCAwards
  AdminAward <- MCAdminAward
  BonusAward <- MCBonus
  Slots = {r1, r2}
  Ops = {"start", "complete", "photo", "claim", "adminReset", "resetTasks", "resetGame", "finish", "deleteCode"}
  MaxRequests = 3
  MaxResets = 1
  MaxCrashes = 1
  NoCode = NoCode
SPECIFICATION Spec
INVARIANTS TypeOK TotalsExplained OutcomesExplained NothingStuck
SYMMETRY MCSymmetry
