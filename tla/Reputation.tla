---------------------------- MODULE Reputation ----------------------------
(***************************************************************************)
(* The arithmetic of a user's reputation ("rank"), shared by every        *)
(* component that awards or takes back points, and the rows of the        *)
(* activity table that remember each award.                               *)
(***************************************************************************)
EXTENDS Integers

CONSTANT RankAgentEnabled   \* a user-center plugin keeps the ranks instead

ASSUME RankAgentAssumption == RankAgentEnabled \in BOOLEAN

\* Mutant: a loss may take a user below 1.
ChangeUserRankUnfloored(current, delta) ==
  IF RankAgentEnabled THEN current ELSE current + delta

\* The value of users.rank after UserRankRepo.ChangeUserRank: a loss never
\* takes a user below 1, and nothing changes under a rank agent.
ChangeUserRank(current, delta) ==
  IF RankAgentEnabled \/ delta = 0 THEN current
  ELSE IF delta < 0 /\ current + delta < 1 THEN 1
  ELSE current + delta

\* A row of the activity table: absent, counting, or cancelled (it keeps its
\* points), and whether its updated_at falls within the current day.
RowStates == {"none", "live", "cancelled"}

ActivityRow == [st : RowStates, rank : Int, today : BOOLEAN]

NoActivity == [st |-> "none", rank |-> 0, today |-> FALSE]

CancelRow(row) == [row EXCEPT !.st = "cancelled", !.today = TRUE]

LiveRow(points) == [st |-> "live", rank |-> points, today |-> TRUE]
=============================================================================
