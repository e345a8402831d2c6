-------------------------- MODULE AnswerLifecycle --------------------------
(***************************************************************************)
(* Answers: adding, deleting, recovering and reviewing them, what happens  *)
(* to those that are reported, and the two counters that follow (answers  *)
(* of a question, answers of a user).  None of it is a transaction.       *)
(* Accepting an answer is in AcceptAnswer, votes are in VoteRank and edits *)
(* in RevisionAudit: a deletion refused because of them is not sent here. *)
(***************************************************************************)
EXTENDS Integers, Sequences, FiniteSets

CONSTANTS
  Users, Questions, Answers, Handlers,
  Author,          \* Author[a]: who writes answer a
  QuestionOf,      \* QuestionOf[a]: the question it answers
  Operations,      \* the operations of this instance
  Verdicts,        \* what a reviewer plugin may say
  RestrictAnswer,  \* "each user can only write one answer for the same question"
  MaxRequests,     \* bound: how many requests are received in all
  NoRequest,       \* what an idle handler serves
  StatementsFail   \* a statement or the process may fail

AllOperations == {"add", "remove", "recover", "approve", "reject",
                  "report", "reportDelete", "reportEdit", "reportIgnore"}
AllVerdicts == {"approved", "needReview", "deleteDirectly"}
Requests == [op : AllOperations, answer : Answers, verdict : AllVerdicts]
Counted == Questions \cup Users

ASSUME AnswerAssumption ==
  /\ Author \in [Answers -> Users]
  /\ QuestionOf \in [Answers -> Questions]
  /\ Questions \cap Users = {}
  /\ IsFiniteSet(Answers)
  /\ Operations \subseteq AllOperations
  /\ Verdicts \subseteq AllVerdicts
  /\ RestrictAnswer \in BOOLEAN /\ StatementsFail \in BOOLEAN
  /\ MaxRequests \in Nat
  /\ NoRequest \notin Requests

VARIABLES
  status,      \* of every answer, "none" before it is added
  review,      \* the review of an answer, "none" if it needs none
  report,      \* the last report of an answer
  answerCount, \* the counter saved with each question and each user
  received,    \* how many requests have been received
  todo, req,   \* of every handler: the statements left, and the request
  tally,       \* the count a handler is about to save
  clean,       \* history: the handler's request ran alone and nothing failed
  exact,       \* history: the counter was refreshed by such a request
  broken,      \* history: a request on the answer has failed
  overtaken,   \* history: answers that were decided while they were being added
  restored     \* history: handlers whose answer another request has made visible

table == <<status, review, report, answerCount>>
history == <<clean, exact, broken, overtaken, restored>>
vars == <<table, received, todo, req, tally, history>>

Statuses == {"none", "available", "pending", "deleted"}
ReviewStatuses == {"none", "pending", "approved", "rejected"}
ReportStatuses == {"none", "pending", "completed", "ignored"}

-----------------------------------------------------------------------------
(* The statements of a request *)

\* Mutant: a deletion leaves the author's counter alone.
RefreshQuestionOnly == <<"countQuestion", "saveQuestion">>

Refresh == <<"countQuestion", "saveQuestion", "countUser", "saveUser">>

\* UpdateReview with the answers' branch of updateObjectStatus.
Decide == <<"readReview", "setStatus">> \o Refresh \o <<"closeReview">>

\* Mutant: a report is closed and then its answer deleted.
ReportCloseFirst ==
  <<"readReport", "closeReport", "readToRemove", "setStatus">> \o Refresh

\* ReviewReport: RemoveAnswer, of which every outcome counts as a success.
ReportDelete ==
  <<"readReport", "readToRemove", "setStatus">> \o Refresh \o <<"closeReport">>

AddAnswer == <<"restrict", "insert", "queueReview", "setStatus">> \o Refresh
RemoveAnswer == <<"readToRemove", "setStatus">> \o Refresh
RecoverAnswer == <<"readToRecover", "setStatus">> \o Refresh

\* AdminSetAnswerStatus deletes and recovers the same way.
Program(op) ==
  CASE op = "add" -> AddAnswer
    [] op = "remove" -> RemoveAnswer
    [] op = "recover" -> RecoverAnswer
    [] op \in {"approve", "reject"} -> Decide
    [] op = "report" -> <<"addReport">>
    [] op = "reportDelete" -> ReportDelete
    \* Update is called without the question's id, finds none and is dropped.
    [] op \in {"reportEdit", "reportIgnore"} -> <<"readReport", "closeReport">>

Statements == {"restrict", "insert", "queueReview", "readToRemove", "readToRecover",
               "readReview", "setStatus", "countQuestion", "saveQuestion", "countUser",
               "saveUser", "closeReview", "addReport", "readReport", "closeReport"}

\* AddAnswerReview.
StatusOf(verdict) ==
  CASE verdict = "approved" -> "available"
    [] verdict = "needReview" -> "pending"
    [] verdict = "deleteDirectly" -> "deleted"

\* Mutant: a recovered answer waits again, and nobody queues it.
NewStatusRecoverWaits(q) ==
  CASE q.op = "add" -> StatusOf(q.verdict)
    [] q.op = "recover" -> "pending"
    [] q.op = "approve" -> "available"
    [] OTHER -> "deleted"

\* The status a request writes.
NewStatus(q) ==
  CASE q.op = "add" -> StatusOf(q.verdict)
    [] q.op \in {"recover", "approve"} -> "available"
    [] OTHER -> "deleted"

-----------------------------------------------------------------------------
Busy(h) == todo[h] # <<>>

Init ==
  /\ status = [a \in Answers |-> "none"]
  /\ review = [a \in Answers |-> "none"]
  /\ report = [a \in Answers |-> "none"]
  /\ answerCount = [x \in Counted |-> 0]
  /\ received = 0
  /\ todo = [h \in Handlers |-> <<>>]
  /\ req = [h \in Handlers |-> NoRequest]
  /\ tally = [h \in Handlers |-> 0]
  /\ clean = [h \in Handlers |-> TRUE]
  /\ exact = [x \in Counted |-> TRUE]
  /\ broken = [a \in Answers |-> FALSE]
  /\ overtaken = {}
  /\ restored = {}

\* What the pages offer for an answer as it was when they were loaded.
Offered(op, a) ==
  CASE op = "add" -> status[a] = "none"
    [] op \in {"approve", "reject"} -> review[a] # "none"
    [] op = "report" -> status[a] # "none" /\ report[a] # "pending"
    [] op \in {"reportDelete", "reportEdit", "reportIgnore"} -> report[a] # "none"
    [] OTHER -> status[a] # "none"

\* Any request may come while others are served, on the same answer too; only
\* one adds it, for another request to add is another answer.
Receive(h, op, a, verdict) ==
  LET others == {g \in Handlers : Busy(g)} IN
  /\ ~Busy(h)
  /\ received < MaxRequests
  /\ Offered(op, a)
  /\ op = "add" => \A g \in others : ~(req[g].op = "add" /\ req[g].answer = a)
  /\ op # "add" => verdict = "approved"
  /\ received' = received + 1
  /\ req' = [req EXCEPT ![h] = [op |-> op, answer |-> a, verdict |-> verdict]]
  /\ todo' = [todo EXCEPT ![h] = Program(op)]
  /\ clean' = [g \in Handlers |-> IF g = h THEN others = {} ELSE clean[g] /\ g \notin others]
  /\ exact' = IF others = {} THEN exact ELSE [x \in Counted |-> FALSE]
  /\ restored' = restored \ {h}
  /\ UNCHANGED <<table, tally, broken, overtaken>>

\* RemoveAllUserAnswer, when an administrator removes all that a user wrote:
\* one statement, and nobody counts again.
RemoveAllUserAnswer(u) ==
  LET dropped == {a \in Answers : Author[a] = u /\ status[a] \notin {"none", "deleted"}} IN
  /\ received < MaxRequests
  /\ dropped # {}
  /\ received' = received + 1
  /\ status' = [a \in Answers |-> IF a \in dropped THEN "deleted" ELSE status[a]]
  /\ exact' = [x \in Counted |->
                 exact[x] /\ x # u /\ x \notin {QuestionOf[a] : a \in dropped}]
  /\ clean' = [g \in Handlers |-> clean[g] /\ ~Busy(g)]
  /\ UNCHANGED <<review, report, answerCount, todo, req, tally, broken, overtaken, restored>>

At(h, s) == Busy(h) /\ Head(todo[h]) = s

\* Go on after the next n statements.
Skip(h, n) ==
  /\ todo' = [todo EXCEPT ![h] = SubSeq(@, n + 1, Len(@))]
  /\ req' = [req EXCEPT ![h] = IF Len(todo[h]) = n THEN NoRequest ELSE @]

Advance(h) == Skip(h, 1)

\* RemoveAnswer returns: only a handled report goes on.
Return(h) ==
  IF req[h].op = "reportDelete" /\ Head(todo[h]) \notin {"readReport", "closeReport"}
    THEN Skip(h, Len(todo[h]) - 1)
    ELSE Skip(h, Len(todo[h]))

Answer(h) == req[h].answer

-----------------------------------------------------------------------------
(* Adding *)

\* The controller counts the user's answers that can be seen.
CheckRestriction(h) ==
  LET siblings == {a \in Answers : /\ Author[a] = Author[Answer(h)]
                                   /\ QuestionOf[a] = QuestionOf[Answer(h)]} IN
  /\ At(h, "restrict")
  /\ IF RestrictAnswer /\ \E a \in siblings : status[a] = "available"
       THEN Return(h) ELSE Advance(h)
  /\ UNCHANGED <<table, received, tally, history>>

Insert(h) ==
  /\ At(h, "insert")
  /\ status' = [status EXCEPT ![Answer(h)] = "pending"]
  /\ Advance(h)
  /\ UNCHANGED <<review, report, answerCount, received, tally, history>>

\* callPluginToReview.
QueueReview(h) ==
  /\ At(h, "queueReview")
  /\ review' = [review EXCEPT ![Answer(h)] =
                  IF req[h].verdict = "needReview" THEN "pending" ELSE @]
  /\ Advance(h)
  /\ UNCHANGED <<status, report, answerCount, received, tally, history>>

-----------------------------------------------------------------------------
(* What other operations begin with *)

ReadToRemove(h) ==
  /\ At(h, "readToRemove")
  /\ IF status[Answer(h)] = "deleted" THEN Return(h) ELSE Advance(h)
  /\ UNCHANGED <<table, received, tally, history>>

ReadToRecover(h) ==
  /\ At(h, "readToRecover")
  /\ IF status[Answer(h)] = "deleted" THEN Advance(h) ELSE Return(h)
  /\ UNCHANGED <<table, received, tally, history>>

ReadReview(h) ==
  /\ At(h, "readReview")
  /\ IF review[Answer(h)] = "pending" THEN Advance(h) ELSE Return(h)
  /\ UNCHANGED <<table, received, tally, history>>

ReadReport(h) ==
  /\ At(h, "readReport")
  /\ IF report[Answer(h)] = "pending" THEN Advance(h) ELSE Return(h)
  /\ UNCHANGED <<table, received, tally, history>>

-----------------------------------------------------------------------------
(* What they write *)

\* The request of h is adding answer a and will write its status again.
Adding(h, a) ==
  /\ Busy(h) /\ Answer(h) = a
  /\ req[h].op = "add" /\ Head(todo[h]) \in {"queueReview", "setStatus"}

SetStatus(h) ==
  LET a == Answer(h)
      decided == req[h].op \in {"approve", "reject"}
      sharing == {g \in Handlers \ {h} : Busy(g) /\ Answer(g) = a} IN
  /\ At(h, "setStatus")
  /\ status' = [status EXCEPT ![a] = NewStatus(req[h])]
  /\ overtaken' = IF decided /\ \E g \in Handlers : Adding(g, a) THEN overtaken \cup {a}
                  ELSE overtaken
  /\ restored' = IF NewStatus(req[h]) = "deleted" THEN restored \ {h} ELSE restored \cup sharing
  /\ Advance(h)
  /\ UNCHANGED <<review, report, answerCount, received, tally, clean, exact, broken>>

\* GetCountByQuestionID and GetCountByUserID.
Visible(x) ==
  Cardinality({a \in Answers : x \in {QuestionOf[a], Author[a]} /\ status[a] = "available"})

Count(h, s, x) ==
  /\ At(h, s)
  /\ tally' = [tally EXCEPT ![h] = Visible(x)]
  /\ Advance(h)
  /\ UNCHANGED <<table, received, history>>

CountQuestion(h) == Count(h, "countQuestion", QuestionOf[Answer(h)])
CountUser(h) == Count(h, "countUser", Author[Answer(h)])

Save(h, s, x) ==
  /\ At(h, s)
  /\ answerCount' = [answerCount EXCEPT ![x] = tally[h]]
  /\ exact' = [exact EXCEPT ![x] = @ \/ clean[h]]
  /\ tally' = [tally EXCEPT ![h] = 0]
  /\ Advance(h)
  /\ UNCHANGED <<status, review, report, received, clean, broken, overtaken, restored>>

SaveQuestion(h) == Save(h, "saveQuestion", QuestionOf[Answer(h)])
SaveUser(h) == Save(h, "saveUser", Author[Answer(h)])

CloseReview(h) ==
  /\ At(h, "closeReview")
  /\ review' = [review EXCEPT ![Answer(h)] =
                  IF req[h].op = "approve" THEN "approved" ELSE "rejected"]
  /\ Advance(h)
  /\ UNCHANGED <<status, report, answerCount, received, tally, history>>

\* AddReport: a deleted answer is not reported.
AddReport(h) ==
  /\ At(h, "addReport")
  /\ report' = [report EXCEPT ![Answer(h)] =
                  IF status[Answer(h)] = "deleted" THEN @ ELSE "pending"]
  /\ Advance(h)
  /\ UNCHANGED <<status, review, answerCount, received, tally, history>>

CloseReport(h) ==
  /\ At(h, "closeReport")
  /\ report' = [report EXCEPT ![Answer(h)] =
                  IF req[h].op = "reportIgnore" THEN "ignored" ELSE "completed"]
  /\ Advance(h)
  /\ UNCHANGED <<status, review, answerCount, received, tally, history>>

-----------------------------------------------------------------------------
(* Failures *)

Break(h) ==
  LET a == Answer(h) IN
  /\ StatementsFail
  /\ Busy(h)
  /\ broken' = [broken EXCEPT ![a] = TRUE]
  /\ clean' = [clean EXCEPT ![h] = FALSE]
  /\ exact' = [exact EXCEPT ![QuestionOf[a]] = FALSE, ![Author[a]] = FALSE]
  /\ UNCHANGED <<overtaken, restored>>

\* The request ends; that of a report that deletes goes on to close it.
Fail(h) ==
  /\ Break(h)
  /\ Return(h)
  /\ tally' = [tally EXCEPT ![h] = 0]
  /\ UNCHANGED <<table, received>>

\* The process ends with the request.
Die(h) ==
  /\ Break(h)
  /\ Skip(h, Len(todo[h]))
  /\ tally' = [tally EXCEPT ![h] = 0]
  /\ UNCHANGED <<table, received>>

\* An error is logged: a queued review or a saved count is missing, and when
\* counting a user's answers fails in Insert or RemoveAnswer, 0 is saved.
Tolerate(h) ==
  /\ Break(h)
  /\ \/ At(h, "queueReview") /\ Advance(h)
     \/ At(h, "saveQuestion") /\ Advance(h)
     \/ At(h, "saveUser") /\ Advance(h)
     \/ At(h, "countQuestion") /\ Skip(h, 2)
     \/ /\ At(h, "countUser")
        /\ IF req[h].op \in {"add", "remove", "reportDelete"} THEN Advance(h) ELSE Skip(h, 2)
  /\ tally' = [tally EXCEPT ![h] = 0]
  /\ UNCHANGED <<table, received>>

-----------------------------------------------------------------------------
Step(h) ==
  \/ CheckRestriction(h) \/ Insert(h) \/ QueueReview(h)
  \/ ReadToRemove(h) \/ ReadToRecover(h) \/ ReadReview(h) \/ ReadReport(h)
  \/ SetStatus(h) \/ CountQuestion(h) \/ SaveQuestion(h) \/ CountUser(h) \/ SaveUser(h)
  \/ CloseReview(h) \/ AddReport(h) \/ CloseReport(h)

Next ==
  \/ \E h \in Handlers :
       \/ \E op \in Operations, a \in Answers, verdict \in Verdicts : Receive(h, op, a, verdict)
       \/ Step(h) \/ Fail(h) \/ Die(h) \/ Tolerate(h)
  \/ \E u \in Users : RemoveAllUserAnswer(u)

Spec == Init /\ [][Next]_vars

-----------------------------------------------------------------------------
(* Properties *)

TypeOK ==
  /\ status \in [Answers -> Statuses]
  /\ review \in [Answers -> ReviewStatuses]
  /\ report \in [Answers -> ReportStatuses]
  /\ answerCount \in [Counted -> 0..Cardinality(Answers)]
  /\ received \in 0..MaxRequests
  /\ todo \in [Handlers -> Seq(Statements)]
  /\ req \in [Handlers -> Requests \cup {NoRequest}]
  /\ \A h \in Handlers : Busy(h) <=> req[h] # NoRequest
  /\ tally \in [Handlers -> 0..Cardinality(Answers)]
  /\ clean \in [Handlers -> BOOLEAN]
  /\ exact \in [Counted -> BOOLEAN]
  /\ broken \in [Answers -> BOOLEAN]
  /\ overtaken \subseteq Answers
  /\ restored \subseteq Handlers

Quiet(a) == \A h \in Handlers : Busy(h) => Answer(h) # a

\* UpdateAnswerCount repairs: whatever was lost by requests that overlapped or
\* failed, one that refreshes and runs alone leaves the counter right, and it
\* stays right as long as requests come one by one.
CountsRepaired ==
  (\A h \in Handlers : ~Busy(h)) => \A x \in Counted : exact[x] => answerCount[x] = Visible(x)

\* An answer that waits can be decided (Insert, UpdateReview): its review is
\* pending, whatever ran meanwhile, unless one of its requests failed or it was
\* decided while it was being added, a decision that Insert writes over.
PendingIsQueued ==
  \A a \in Answers :
    status[a] = "pending" /\ Quiet(a) /\ ~broken[a] /\ a \notin overtaken
      => review[a] = "pending"

\* The same of every answer on which nothing failed. Insert breaks it.
DecisionStands ==
  \A a \in Answers : status[a] = "pending" /\ Quiet(a) /\ ~broken[a] => review[a] = "pending"

\* A report is not closed as handled by a deletion while its answer can be seen
\* (ReviewReport, updateReportedAnswerReport), unless the deletion failed or
\* another request brought the answer back between the two.
ReportedIsDeleted ==
  [][\A h \in Handlers, a \in Answers :
       /\ At(h, "closeReport") /\ req[h].op = "reportDelete" /\ Answer(h) = a
       /\ report'[a] = "completed" /\ report[a] = "pending"
       => status[a] = "deleted" \/ broken[a] \/ h \in restored]_vars

\* "Each user can only write one answer for the same question."
OneAnswerEach ==
  RestrictAnswer =>
    \A a, b \in Answers :
      /\ status[a] = "available" /\ status[b] = "available"
      /\ Author[a] = Author[b] /\ QuestionOf[a] = QuestionOf[b]
      => a = b
=============================================================================
