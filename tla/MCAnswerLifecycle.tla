------------------------- MODULE MCAnswerLifecycle -------------------------
(* The instances of AnswerLifecycle that TLC checks. *)
EXTENDS AnswerLifecycle, TLC

CONSTANTS bob, carol, question, a1, a2, h1, h2

OneEach == a1 :> bob @@ a2 :> carol
BothOfBob == a1 :> bob @@ a2 :> bob
OneQuestion == [a \in Answers |-> question]

\* The handlers are alike, and so are the two answers, each with its author.
Exchange == a1 :> a2 @@ a2 :> a1 @@ bob :> carol @@ carol :> bob
Symmetry == Permutations(Handlers) \cup {Exchange}
=============================================================================
