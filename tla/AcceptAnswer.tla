--------------------------- MODULE AcceptAnswer ---------------------------
(***************************************************************************)
(* Accepting an answer of a question, accepting another one instead, and  *)
(* withdrawing the acceptance: AnswerService.AcceptAnswer.                *)
(*                                                                         *)
(* Four tables must agree in the end: the answers' adopted flags, the     *)
(* question's accepted_answer_id, the activity rows of the awards and the *)
(* users' ranks.  They are written by separate statements, each a step of *)
(* the handler (goroutine) serving the request; the two transactions lock *)
(* the users they touch first and are one step each.                      *)
(*                                                                         *)
(* A request names an answer of its own question, as the page sends it.   *)
(* Questions and answers are never deleted from their tables, and their   *)
(* authors never change, so the statements that only look these up are    *)
(* not steps.                                                             *)
(***************************************************************************)
EXTENDS Reputation, FiniteSetsExt

CONSTANTS
  Questions, Answers, Users, Handlers,
  QuestionOf,     \* QuestionOf[a]: the question answer a belongs to
  Asker,          \* Asker[q]: the user who asked question q
  Answerer,       \* Answerer[a]: the user who wrote answer a
  Acceptors,      \* Acceptors[q]: the users permitted to accept for q
  Points,         \* the configured points of the two awards of an acceptance
  InitialRank,    \* the rank every user starts with
  MaxRequests,    \* bound: how many requests are received in all
  MaxLost,        \* bound: how many points are lost to down votes in all
  StatementsFail, \* a statement or the process may fail between two steps
  NoAnswer,       \* accepted_answer_id "0"
  NoRequest       \* what an idle handler serves

Roles == {"accept", "accepted"}

\* The question and the answer (or NoAnswer) of a request, and who sent it.
Request == [question : Questions, answer : Answers \cup {NoAnswer}, user : Users]

ASSUME AcceptAssumption ==
  /\ QuestionOf \in [Answers -> Questions]
  /\ Asker \in [Questions -> Users]
  /\ Answerer \in [Answers -> Users]
  /\ Acceptors \in [Questions -> SUBSET Users]
  /\ Points \in [Roles -> Int]
  /\ InitialRank \in Int /\ InitialRank >= 1
  /\ MaxRequests \in Nat /\ MaxLost \in Nat
  /\ StatementsFail \in BOOLEAN
  /\ NoAnswer \notin Answers
  /\ NoRequest \notin Request

VARIABLES
  rank,       \* users.rank
  activity,   \* the rows of the two awards, by their unique key
  adopted,    \* answer.adopted
  accepted,   \* question.accepted_answer_id
  lost,       \* the points down votes have taken from a user
  received,   \* how many requests have been received
  pc, req,    \* of every handler: its next step, and the request it serves
  previous,   \* of every handler: the accepted answer it has read
  seen,       \* of every handler: the activity rows it has found
  serial,     \* history: the questions whose requests have not overlapped
  whole       \* history: the questions whose requests have not failed

tables == <<rank, activity, adopted, accepted>>
vars == <<rank, activity, adopted, accepted, lost, received, pc, req, previous, seen,
          serial, whole>>

-----------------------------------------------------------------------------
(* The rows of an acceptance: the asker is awarded for accepting, the      *)
(* answerer for being accepted, and both rows name who accepted.           *)

Key == [answer : Answers, role : Roles, trigger : Users]

AwardKey(a, r, u) == [answer |-> a, role |-> r, trigger |-> u]

KeyUser(k) ==
  IF k.role = "accept" THEN Asker[QuestionOf[k.answer]] ELSE Answerer[k.answer]

\* Accepting one's own answer earns nothing.
AwardPoints(a, r) ==
  IF Answerer[a] = Asker[QuestionOf[a]] THEN 0 ELSE Points[r]

NothingSeen == [k \in Key |-> NoActivity]

Steps == {"idle", "readQuestion", "clear", "adopt", "point",
          "readAccept", "readAccepted", "cancel", "award"}

Busy(h) == pc[h] # "idle"

Init ==
  /\ rank = [u \in Users |-> InitialRank]
  /\ activity = [k \in Key |-> NoActivity]
  /\ adopted = [a \in Answers |-> FALSE]
  /\ accepted = [q \in Questions |-> NoAnswer]
  /\ lost = [u \in Users |-> 0]
  /\ received = 0
  /\ pc = [h \in Handlers |-> "idle"]
  /\ req = [h \in Handlers |-> NoRequest]
  /\ previous = [h \in Handlers |-> NoAnswer]
  /\ seen = [h \in Handlers |-> NothingSeen]
  /\ serial = Questions /\ whole = Questions

\* Nothing is in flight on the question.
Quiet(q) == \A h \in Handlers : Busy(h) => req[h].question # q

Receive(h, r) ==
  /\ ~Busy(h)
  /\ received < MaxRequests
  /\ r.user \in Acceptors[r.question]
  /\ r.answer # NoAnswer => QuestionOf[r.answer] = r.question
  /\ received' = received + 1
  /\ req' = [req EXCEPT ![h] = r]
  /\ pc' = [pc EXCEPT ![h] = "readQuestion"]
  /\ serial' = IF Quiet(r.question) THEN serial ELSE serial \ {r.question}
  /\ UNCHANGED <<tables, lost, previous, seen, whole>>

\* The handler returns and keeps nothing.
Finish(h) ==
  /\ pc' = [pc EXCEPT ![h] = "idle"]
  /\ req' = [req EXCEPT ![h] = NoRequest]
  /\ previous' = [previous EXCEPT ![h] = NoAnswer]
  /\ seen' = [seen EXCEPT ![h] = NothingSeen]

\* What is left to do once the old answer has been dealt with.
GoOnToAward(h) ==
  IF req[h].answer = NoAnswer
    THEN Finish(h)
    ELSE /\ pc' = [pc EXCEPT ![h] = "award"]
         /\ UNCHANGED <<req, previous, seen>>

\* The answer is accepted already, or nothing is: nothing to do.
SkipAccepted(h) ==
  /\ pc[h] = "readQuestion"
  /\ accepted[req[h].question] = req[h].answer
  /\ Finish(h)
  /\ UNCHANGED <<tables, lost, received, serial, whole>>

ReadQuestion(h) ==
  /\ pc[h] = "readQuestion"
  /\ accepted[req[h].question] # req[h].answer
  /\ previous' = [previous EXCEPT ![h] = accepted[req[h].question]]
  /\ pc' = [pc EXCEPT ![h] = "clear"]
  /\ UNCHANGED <<tables, lost, received, req, seen, serial, whole>>

\* Mutant: the flags are cleared only to withdraw an acceptance.
ClearToWithdraw(h) ==
  /\ pc[h] = "clear"
  /\ adopted' = [a \in Answers |-> /\ adopted[a]
                                   /\ \/ QuestionOf[a] # req[h].question
                                      \/ req[h].answer # NoAnswer]
  /\ pc' = [pc EXCEPT ![h] = IF req[h].answer = NoAnswer THEN "point" ELSE "adopt"]
  /\ UNCHANGED <<rank, activity, accepted, lost, received, req, previous, seen, serial, whole>>

\* UpdateAcceptedStatus, first statement: no answer of the question is adopted.
ClearAdopted(h) ==
  /\ pc[h] = "clear"
  /\ adopted' = [a \in Answers |-> adopted[a] /\ QuestionOf[a] # req[h].question]
  /\ pc' = [pc EXCEPT ![h] = IF req[h].answer = NoAnswer THEN "point" ELSE "adopt"]
  /\ UNCHANGED <<rank, activity, accepted, lost, received, req, previous, seen, serial, whole>>

\* UpdateAcceptedStatus, second statement.
Adopt(h) ==
  /\ pc[h] = "adopt"
  /\ adopted' = [adopted EXCEPT ![req[h].answer] = TRUE]
  /\ pc' = [pc EXCEPT ![h] = "point"]
  /\ UNCHANGED <<rank, activity, accepted, lost, received, req, previous, seen, serial, whole>>

GoOnToCancel(h) ==
  IF previous[h] = NoAnswer
    THEN GoOnToAward(h)
    ELSE /\ pc' = [pc EXCEPT ![h] = "readAccept"]
         /\ UNCHANGED <<req, previous, seen>>

\* Mutant: withdrawing an acceptance leaves the question's pointer.
UpdateAcceptedKeepsPointer(h) ==
  /\ pc[h] = "point"
  /\ accepted' = IF req[h].answer = NoAnswer THEN accepted
                 ELSE [accepted EXCEPT ![req[h].question] = req[h].answer]
  /\ GoOnToCancel(h)
  /\ UNCHANGED <<rank, activity, adopted, lost, received, serial, whole>>

UpdateAccepted(h) ==
  /\ pc[h] = "point"
  /\ accepted' = [accepted EXCEPT ![req[h].question] = req[h].answer]
  /\ GoOnToCancel(h)
  /\ UNCHANGED <<rank, activity, adopted, lost, received, serial, whole>>

\* Mutant: only the rows this user triggered are found.
RowsOwnTrigger(h, r) ==
  {k \in Key : /\ k.answer = previous[h]
               /\ k.role = r
               /\ k.trigger = req[h].user
               /\ activity[k].st # "none"}

\* getExistActivity finds the rows of one award, whoever triggered them.
RowsOf(h, r) ==
  {k \in Key : k.answer = previous[h] /\ k.role = r /\ activity[k].st # "none"}

FindRows(h, r) ==
  seen' = [seen EXCEPT ![h] = [k \in Key |-> IF k \in RowsOf(h, r) THEN activity[k]
                                                                    ELSE seen[h][k]]]

ReadAcceptRows(h) ==
  /\ pc[h] = "readAccept"
  /\ FindRows(h, "accept")
  /\ pc' = [pc EXCEPT ![h] = "readAccepted"]
  /\ UNCHANGED <<tables, lost, received, req, previous, serial, whole>>

ReadAcceptedRows(h) ==
  /\ pc[h] = "readAccepted"
  /\ FindRows(h, "accepted")
  /\ pc' = [pc EXCEPT ![h] = "cancel"]
  /\ UNCHANGED <<tables, lost, received, req, previous, serial, whole>>

Found(h) == {k \in Key : seen[h][k].st # "none"}

\* The users whose rows were found counting; only they are locked.
Locked(h) == {KeyUser(k) : k \in {j \in Key : seen[h][j].st = "live"}}

SkipCancel(h) ==
  /\ pc[h] = "cancel"
  /\ Locked(h) = {}
  /\ GoOnToAward(h)
  /\ UNCHANGED <<tables, lost, received, serial, whole>>

\* Mutant: a row somebody has cancelled by now is rolled back again.
RolledBackTwice(h, u) ==
  IF u \in Locked(h) THEN {k \in Found(h) : KeyUser(k) = u} ELSE {}

\* The found rows of u that are rolled back: not those cancelled by now.
RolledBack(h, u) ==
  IF u \in Locked(h)
    THEN {k \in Found(h) : KeyUser(k) = u /\ activity[k].st # "cancelled"}
    ELSE {}

\* Every row is rolled back against the rank read when the user was locked.
Loss(h, u) ==
  MapThenSumSet(LAMBDA k : rank[u] - ChangeUserRank(rank[u], -seen[h][k].rank),
                RolledBack(h, u))

\* The transaction of SaveCancelAcceptAnswerActivity.
CancelAccept(h) ==
  /\ pc[h] = "cancel"
  /\ Locked(h) # {}
  /\ activity' = [k \in Key |-> IF k \in Found(h) THEN CancelRow(activity[k])
                                                  ELSE activity[k]]
  /\ rank' = [u \in Users |-> rank[u] - Loss(h, u)]
  /\ GoOnToAward(h)
  /\ UNCHANGED <<adopted, accepted, lost, received, serial, whole>>

\* The rows of the award that do not count yet.
Awarded(h) ==
  {k \in Key : /\ k.answer = req[h].answer
               /\ k.trigger = req[h].user
               /\ activity[k].st # "live"}

\* What the award adds to the rank of u.  Both awards go to one user only
\* when they are worth nothing.
Gain(h, u) ==
  MapThenSumSet(LAMBDA k : AwardPoints(k.answer, k.role),
                {k \in Awarded(h) : KeyUser(k) = u})

\* The transaction of SaveAcceptAnswerActivity.
Award(h) ==
  /\ pc[h] = "award"
  /\ activity' = [k \in Key |->
       IF k \in Awarded(h) THEN LiveRow(AwardPoints(k.answer, k.role))
                           ELSE activity[k]]
  /\ rank' = [u \in Users |-> ChangeUserRank(rank[u], Gain(h, u))]
  /\ Finish(h)
  /\ UNCHANGED <<adopted, accepted, lost, received, serial, whole>>

\* A failure that is logged: the handler goes on as if the step had been made.
Tolerate(h) ==
  /\ StatementsFail
  /\ \/ pc[h] = "point" /\ GoOnToCancel(h)
     \/ pc[h] \in {"readAccept", "readAccepted", "cancel"} /\ GoOnToAward(h)
  /\ whole' = whole \ {req[h].question}
  /\ UNCHANGED <<tables, lost, received, serial>>

\* The request ends early: another statement fails, or the process dies.
Fail(h) ==
  /\ StatementsFail
  /\ Busy(h)
  /\ Finish(h)
  /\ whole' = whole \ {req[h].question}
  /\ UNCHANGED <<tables, lost, received, serial>>

\* Meanwhile a down vote takes a point from a user.
Penalise(u) ==
  /\ MapThenSumSet(LAMBDA v : lost[v], Users) < MaxLost
  /\ lost' = [lost EXCEPT ![u] = @ + 1]
  /\ rank' = [rank EXCEPT ![u] = ChangeUserRank(@, -1)]
  /\ UNCHANGED <<activity, adopted, accepted, received, pc, req, previous, seen,
                 serial, whole>>

Step(h) ==
  \/ SkipAccepted(h) \/ ReadQuestion(h)
  \/ ClearAdopted(h) \/ Adopt(h) \/ UpdateAccepted(h)
  \/ ReadAcceptRows(h) \/ ReadAcceptedRows(h) \/ SkipCancel(h) \/ CancelAccept(h)
  \/ Award(h)

Next ==
  \/ \E h \in Handlers : \/ \E r \in Request : Receive(h, r)
                         \/ Step(h)
                         \/ Tolerate(h)
                         \/ Fail(h)
  \/ \E u \in Users : Penalise(u)

Spec == Init /\ [][Next]_vars

-----------------------------------------------------------------------------
(* Properties *)

\* The rows, flags and pointers, and what the handlers keep of them.
RowsOK ==
  /\ activity \in [Key -> ActivityRow]
  /\ adopted \in [Answers -> BOOLEAN]
  /\ accepted \in [Questions -> Answers \cup {NoAnswer}]
  /\ received \in 0..MaxRequests
  /\ pc \in [Handlers -> Steps]
  /\ req \in [Handlers -> Request \cup {NoRequest}]
  /\ previous \in [Handlers -> Answers \cup {NoAnswer}]
  /\ seen \in [Handlers -> [Key -> ActivityRow]]
  /\ \A h \in Handlers :
       /\ Busy(h) => req[h] \in Request
       /\ pc[h] \in {"adopt", "award"} => req[h].answer \in Answers
  /\ serial \subseteq Questions /\ whole \subseteq Questions

\* The types of the tables and of what the handlers keep; a handler working
\* on an answer has one.
TypeOK ==
  /\ rank \in [Users -> Int]
  /\ lost \in [Users -> 0..MaxLost]
  /\ RowsOK

\* A question has at most one adopted answer ("update all accepted status of
\* this question's answers", answer_repo.go:232), wherever its requests have
\* failed, as long as no two of them have overlapped.
OneAdopted ==
  \A a, b \in Answers :
    adopted[a] /\ adopted[b] /\ QuestionOf[a] = QuestionOf[b] /\ QuestionOf[a] \in serial
      => a = b

\* Nothing is in flight on the question, and never have its requests overlapped
\* or failed.
Settled(q) == Quiet(q) /\ q \in serial \cap whole

\* On a settled question the answer it points to is the adopted one: the two
\* tables are written by three statements (UpdateAcceptedStatus, UpdateAccepted).
AcceptedIsAdopted ==
  \A a \in Answers :
    Settled(QuestionOf[a]) => (adopted[a] <=> accepted[QuestionOf[a]] = a)

Live(a, r, u) == activity[AwardKey(a, r, u)].st = "live"

\* On a settled question the awards that count are those of its accepted
\* answer, each once: whoever accepts, changes or withdraws, and whatever goes on
\* about other questions of the same users, the asker and the answerer are
\* awarded for that answer and for no other (SaveCancelAcceptAnswerActivity).
AwardsFollowAccepted ==
  \A a \in Answers, r \in Roles :
    Settled(QuestionOf[a]) =>
      IF accepted[QuestionOf[a]] = a
        THEN \E u \in Users : \A v \in Users : Live(a, r, v) <=> v = u
        ELSE \A u \in Users : ~Live(a, r, u)

LivePoints(u) ==
  MapThenSumSet(LAMBDA k : activity[k].rank,
                {k \in Key : KeyUser(k) = u /\ activity[k].st = "live"})

\* A rank covers the awards that count, less what down votes took: no award is
\* taken back twice, however requests interleave and fail.
RankCoversAwards ==
  ~RankAgentEnabled =>
    \A u \in Users : rank[u] >= InitialRank + LivePoints(u) - lost[u]

\* "If user rank is lower than 1 after this action, then user rank will be set
\* to 1 only" (user_rank_repo.go:91).
RankFloor == \A u \in Users : rank[u] >= 1
=============================================================================
