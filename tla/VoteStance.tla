---------------------------- MODULE VoteStance ----------------------------
(***************************************************************************)
(* What voting promises a reader, with none of the machinery: on every    *)
(* post a user has one stance, it is taken only from "none" and withdrawn *)
(* before another is taken, and nobody votes on a post of their own.      *)
(***************************************************************************)
CONSTANTS Users, Posts, Author

VARIABLE stance

Init == stance = [u \in Users |-> [p \in Posts |-> "none"]]

Take(u, p, s) ==
  /\ u # Author[p]
  /\ stance[u][p] = "none"
  /\ stance' = [stance EXCEPT ![u][p] = s]

Withdraw(u, p) ==
  /\ stance[u][p] # "none"
  /\ stance' = [stance EXCEPT ![u][p] = "none"]

Next == \E u \in Users, p \in Posts :
          \/ \E s \in {"up", "down"} : Take(u, p, s)
          \/ Withdraw(u, p)

Spec == Init /\ [][Next]_stance
=============================================================================
