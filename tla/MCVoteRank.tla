---------------------------- MODULE MCVoteRank ----------------------------
(* Instances of VoteRank for TLC. *)
EXTENDS VoteRank, TLC

CONSTANTS alice, bob, carol, question, comment, h1, h2

OneQuestion == question :> carol
QuestionKind == question :> "question"

QuestionAndComment == (question :> carol) @@ (comment :> carol)
TwoKinds == (question :> "question") @@ (comment :> "comment")

\* migrations/init_data.go, with points scaled down: an up vote is worth more
\* to the author than the daily limit of the instance.
ScaledPoints ==
  [kind \in Kinds |->
     ("up" :> ("vote" :> 0 @@ "voted" :> 3)) @@
     ("down" :> ("vote" :> (IF kind = "answer" THEN -1 ELSE 0) @@ "voted" :> -2))]

\* Voters are interchangeable, and so are handlers; the author is not.
Symmetry == Permutations({alice, bob}) \cup Permutations(Handlers)

HandlerSymmetry == Permutations(Handlers)
=============================================================================
