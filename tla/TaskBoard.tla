----------------------------- MODULE TaskBoard -----------------------------
(***************************************************************************)
(* What the task service promises the players and the admin: a board with  *)
(* one field per team and station, and a total per team that always counts *)
(* exactly the fields that are done and the bonus codes that are claimed.  *)
(* Every request changes the board in one step.                            *)
(***************************************************************************)
EXTENDS Integers

CONSTANTS Teams, Stations, Codes,
          Exclusive,        \* stations that one team at a time may have in progress
          FirstTeamCodes,
          Awards            \* Awards[s]: what a done field of s may be worth

NotDone == -1
Fields == {"todo", "in-progress", "done", "failed"}

VARIABLES board,   \* board[t][s] \in Fields
          total    \* total[t].awards[s]: worth of the field, or NotDone; total[t].codes

vars == <<board, total>>

Init ==
  /\ board = [t \in Teams |-> [s \in Stations |-> "todo"]]
  /\ total = [t \in Teams |-> [awards |-> [s \in Stations |-> NotDone], codes |-> {}]]

Put(t, s, field, worth) ==
  /\ board' = [board EXCEPT ![t][s] = field]
  /\ total' = [total EXCEPT ![t].awards[s] = worth]

Open(t, s) == board[t][s] \in {"todo", "in-progress"}

\* A team works at a station that no other team holds.
Begin(t, s) ==
  /\ Open(t, s)
  /\ s \in Exclusive => \A u \in Teams \ {t} : board[u][s] # "in-progress"
  /\ Put(t, s, "in-progress", NotDone)

\* The task is decided, by the device while it is open or by the admin at any time.
Pass(t, s) == \E a \in Awards[s] : Put(t, s, "done", a)
Fail(t, s) == Put(t, s, "failed", 0)

ResetTask(t, s) == Put(t, s, "todo", NotDone)

ResetAll ==
  /\ board' = [t \in Teams |-> [s \in Stations |-> "todo"]]
  /\ total' = [t \in Teams |-> [total[t] EXCEPT !.awards = [s \in Stations |-> NotDone]]]

ClaimCode(t, c) ==
  /\ c \in FirstTeamCodes => \A u \in Teams : c \notin total[u].codes
  /\ total' = [total EXCEPT ![t].codes = @ \cup {c}]
  /\ UNCHANGED board

Next ==
  \/ \E t \in Teams, s \in Stations : Begin(t, s) \/ Pass(t, s) \/ Fail(t, s) \/ ResetTask(t, s)
  \/ ResetAll
  \/ \E t \in Teams, c \in Codes : ClaimCode(t, c)

Spec == Init /\ [][Next]_vars
=============================================================================
