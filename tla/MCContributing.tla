--------------------------- MODULE MCContributing ---------------------------
(* An author who comments, answering a code wrongly, answers, asks with an  *)
(* answer and votes, and a moderator who edits the answer.                  *)
EXTENDS Contributing, TLC

MCOp == [note |-> "AddComment", reply |-> "AddAnswer", both |-> "AddQuestionByAnswer",
         fix |-> "UpdateAnswer", vote |-> "Vote"]
MCRequests == DOMAIN MCOp
MCBy == [r \in MCRequests |-> IF r = "fix" THEN "boss" ELSE "author"]
MCKind == [r \in MCRequests |-> ActionOf(MCOp[r])]
MCCode == [r \in MCRequests |-> IF r \in {"note", "vote"} THEN "c" ELSE "nocode"]
MCTarget == [r \in MCRequests |-> IF r = "fix" THEN 1 ELSE 0]
MCLimit == [k \in Kinds |-> IF k = "comment" THEN 2 ELSE 1]
Symmetric == Permutations(Handlers)
=============================================================================
