------------------------ MODULE MCQuestionLifecycle ------------------------
(* Instances of QuestionLifecycle for TLC. *)
EXTENDS QuestionLifecycle, TLC

CONSTANTS ann, q1, q2, t1, t2, h1, h2

OneOwner == [q \in Questions |-> ann]

\* One question is there already, with one tag or with both.
FirstHasOneTag == [q \in Questions |-> IF q = q1 THEN {t1} ELSE {}]
FirstHasBothTags == [q \in Questions |-> IF q = q1 THEN {t1, t2} ELSE {}]
NoQuestionYet == [q \in Questions |-> {}]

Symmetry == Permutations(Handlers)
=============================================================================
