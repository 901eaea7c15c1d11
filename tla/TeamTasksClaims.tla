-------------------------- MODULE TeamTasksClaims --------------------------
(***************************************************************************)
(* What documents, comments and labels of the repository say of the task   *)
(* service, and the code does not keep. There is a configuration for each, *)
(* the smallest instance that shows the disagreement.                      *)
(***************************************************************************)
EXTENDS MCTeamTasks, FiniteSetsExt

AllIdle == \A r \in Slots : pc[r] = "idle"

Points(awards) ==
  MapThenSumSet(LAMBDA s : awards[s], {s \in Stations : awards[s] # NotDone})

\* apps/admin/docs/mobile-realization-mvp-spec.md:106: the points of a team are the sum
\* of pointsAwarded of its done rows. Two devices of one team that complete two tasks at
\* the same time each recalculate: the later write may come from the earlier read.
PointsAreTheSum ==
  \A t \in Teams : Idle(t) => Points(tally[t].awards) = Points(Counted(progress[t]))

\* Comment in resetMobileAdminCompletedTasks: scans have to be cleared "or a bulk reset
\* leaves stale scan counts behind". The scans are cleared for the rows found before the
\* update, so a hunt that begins in between keeps its scans although it is reset.
ResetLeavesNoScans ==
  AllIdle => \A t \in Teams, s \in QrStations : progress[t][s].status = "TODO" => scans[t][s] = {}

\* Label of the bonus in the admin panel: extra points for the first team that completes
\* the station. A team that failed there has a DONE row too, and takes the bonus away
\* from the first team that does complete it.
BonusForTheFirst ==
  AllIdle => \A s \in BonusStations :
    (\E t \in Teams : latest[t][s] = "completed") => \E t \in Teams : HasBonus(t, s)

\* Label of allowConcurrentTeams in the admin panel: it does not concern QR stations,
\* "which already work concurrently". The app starts a hunt through task/start, and
\* that handler finds the station in use like any other.
HuntsAreNeverInUse ==
  \A r \in Slots : pc[r] = "busy" /\ job[r].station \in QrStations =>
    ~InUse(job[r].team, job[r].station)

=============================================================================
