-------------------------- MODULE MCRevisionAudit --------------------------
(* Instances of RevisionAudit for TLC. *)
EXTENDS RevisionAudit, TLC

CONSTANTS question, answer, tag, h1, h2

ThreeKinds ==
  [o \in Objects |-> IF o = question THEN "question"
                     ELSE IF o = answer THEN "answer" ELSE "tag"]

Symmetry == Permutations(Handlers)
=============================================================================
