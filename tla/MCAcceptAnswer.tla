-------------------------- MODULE MCAcceptAnswer --------------------------
(* Instances of AcceptAnswer for TLC. *)
EXTENDS AcceptAnswer, TLC

CONSTANTS asker, bob, moderator, question, other, a1, a2, a3, h1, h2

\* Two answers by bob, and one the asker wrote.
OneQuestionOf == [a \in Answers |-> question]
OneAsker == question :> asker
ThreeAnswerer == [a \in Answers |-> IF a = a3 THEN asker ELSE bob]

\* A second question, asked by bob, with an answer by the asker of the first.
TwoQuestionOf == a1 :> question @@ a2 :> question @@ a3 :> other
TwoAsker == question :> asker @@ other :> bob

AskerAndModerator == [q \in Questions |-> {Asker[q], moderator}]

\* migrations/init_data.go has 2 and 15.
ScaledPoints == "accept" :> 1 @@ "accepted" :> 3

Symmetry == Permutations(Handlers) \cup Permutations({a1, a2})
=============================================================================
