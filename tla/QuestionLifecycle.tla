------------------------- MODULE QuestionLifecycle -------------------------
(***************************************************************************)
(* The life of a question: asked, reviewed, edited, closed, unlisted,     *)
(* pinned, deleted and recovered, with the counters that follow it.       *)
(*                                                                         *)
(* None of these operations uses a transaction: an operation is the       *)
(* sequence of its database statements, and the statements of several     *)
(* requests interleave.  Program gives the statements of a request; todo  *)
(* holds those a handler has left.  A read whose result the code does not *)
(* use is left out, and so are rights, contents and the answers whose     *)
(* state can forbid a deletion: a request the code refuses is not sent.   *)
(***************************************************************************)
EXTENDS Integers, Sequences, FiniteSets

CONSTANTS
  Users, Questions, Tags, Handlers,
  Owner,         \* Owner[q]: the user who asks question q
  InitialTags,   \* InitialTags[q]: its tags, {} if q is not asked initially
  Operations,    \* the operations that are requested
  Verdicts,      \* what the reviewer plugins may say of a new question
  MaxRequests,   \* bound: how many requests are received in all
  NoRequest,     \* what an idle handler serves
  Overlapping,   \* the operations that are requested while others are in flight
  StatementsFail \* a statement or the process may fail

Statuses == {"available", "closed", "deleted", "pending"}
RelStatuses == {"available", "hide", "deleted"}
ReviewStatuses == {"pending", "approved", "rejected"}

TagOperations == {"add", "edit", "applyEdit"}
ListOperations == {"hide", "show", "pin", "unpin"}
Decisions == {"approve", "reject"}
AllOperations ==
  TagOperations \cup ListOperations \cup Decisions
    \cup {"close", "reopen", "adminSet", "remove", "recover"}
AllAndRemoveAll == AllOperations \cup {"removeAll"}

ASSUME QuestionAssumption ==
  /\ IsFiniteSet(Questions)
  /\ Owner \in [Questions -> Users]
  /\ InitialTags \in [Questions -> SUBSET Tags]
  /\ Operations \subseteq AllAndRemoveAll
  /\ Verdicts \subseteq {"approved", "needReview", "deleteDirectly"}
  /\ MaxRequests \in Nat
  /\ NoRequest \notin [op : AllOperations, q : Questions, tags : SUBSET Tags,
                        to : Statuses]
  /\ Overlapping \subseteq AllAndRemoveAll
  /\ StatementsFail \in BOOLEAN

VARIABLES
  status,    \* question.status; "none" until the question is asked
  pinned,    \* question.pin
  hidden,    \* question.show, negated
  rel,       \* rel[q][t]: the status of the tag_rel row, "none" without one
  review,    \* the status of the review row of a question, or "none"
  tagCount,  \* tag.question_count
  userCount, \* users.question_count
  received,  \* how many requests have been received
  todo, req, \* of every handler: the statements left, and the request
  seen,      \* of every handler: pin and show as it has read them
  verdict,   \* of every handler: the status a new question is to have
  plan,      \* of every handler: the tags it has yet to treat
  tally,     \* of every handler: the count it is to save
  clean,     \* history: no two requests overlapped and none failed
  overtaken, \* history: decided before the request that adds them ended
  unqueued,  \* history: their review, or their status after it, was not saved
  revived    \* history: not deleted any more, their rows as the deletion left them

question == <<status, pinned, hidden>>
counters == <<tagCount, userCount>>
locals == <<seen, verdict, plan, tally>>
history == <<clean, overtaken, unqueued, revived>>
vars == <<status, pinned, hidden, rel, review, tagCount, userCount,
          received, todo, req, seen, verdict, plan, tally,
          clean, overtaken, unqueued, revived>>

-----------------------------------------------------------------------------
(* Requests and the statements that serve them *)

\* Tags matter to three operations, which need some; a status to adminSet,
\* which accepts three of them ("oneof=available closed deleted").
Request ==
  {r \in [op : Operations \cap AllOperations, q : Questions,
          tags : SUBSET Tags, to : Statuses] :
     /\ r.op \in TagOperations <=> r.tags # {}
     /\ IF r.op = "adminSet" THEN r.to # "pending" ELSE r.to = "available"}

\* ChangeTag: compare the rows with the tags wanted, then drop, create and
\* enable rows, each with a statement of its own.
ChangeTags ==
  <<"listRels", "readRels", "dropRels", "createRels", "enableRels", "refreshTags">>

Statements ==
  {"read", "insert", "queueReview", "readReview", "setStatus", "closeReview",
   "listRels", "readRels", "dropRels", "createRels", "enableRels", "setRels",
   "refreshTags", "countQuestions", "saveQuestions", "saveOperation"}

CountUser == <<"countQuestions", "saveQuestions">>

AddQuestion ==
  <<"insert", "queueReview", "setStatus">> \o ChangeTags \o CountUser

\* Mutant: the rows are listed once they are deleted.
RemoveListsLate ==
  <<"read", "setStatus">> \o CountUser \o <<"setRels", "listRels", "refreshTags">>

\* The tags to count again are listed before their rows are deleted.
RemoveQuestion ==
  <<"read", "setStatus">> \o CountUser \o <<"listRels", "setRels", "refreshTags">>

\* Mutant: the rows of a recovered question stay deleted.
RecoverStatusOnly == <<"read", "setStatus">> \o CountUser

RecoverQuestion ==
  <<"read", "setStatus">> \o CountUser \o <<"setRels", "listRels", "refreshTags">>

\* Mutant: a decision does not count the questions of the user again.
DecideUncounted == <<"readReview", "setStatus", "closeReview">>

\* Mutant: the review is closed before the question has its status.
DecideCloseFirst ==
  <<"readReview", "closeReview", "setStatus">> \o CountUser

UpdateReview ==
  <<"readReview", "setStatus">> \o CountUser \o <<"closeReview">>

\* An edit by its author or a moderator is made at once.
UpdateQuestion == <<"read">> \o ChangeTags

\* An edit that had to be reviewed is made when its revision is approved.
RevisionAuditQuestion == ChangeTags

CloseQuestion == <<"setStatus">>
ReopenQuestion == <<"setStatus">>
AdminSetQuestionStatus == <<"setStatus">>

OperationVisibility ==
  <<"read", "setRels", "listRels", "refreshTags", "saveOperation">>

OperationPin == <<"read", "saveOperation">>

\* The database statements of a request, in the order the code issues them.
Programs ==
  [add |-> AddQuestion, edit |-> UpdateQuestion, applyEdit |-> RevisionAuditQuestion,
   close |-> CloseQuestion, reopen |-> ReopenQuestion,
   adminSet |-> AdminSetQuestionStatus,
   hide |-> OperationVisibility, show |-> OperationVisibility,
   pin |-> OperationPin, unpin |-> OperationPin,
   remove |-> RemoveQuestion, recover |-> RecoverQuestion,
   approve |-> UpdateReview, reject |-> UpdateReview]

Program(r) == Programs[r.op]

-----------------------------------------------------------------------------
NothingPlanned == [unread |-> {}, drop |-> {}, create |-> {}, enable |-> {},
                   refresh |-> {}, counted |-> {}]

NothingSeen == [pinned |-> FALSE, hidden |-> FALSE]

Listed(q) == {t \in Tags : rel[q][t] \in {"available", "hide"}}

\* CountTagRelByTagID counts the rows that are available, whatever the status
\* of their questions.
CountTagRel(t) == Cardinality({q \in Questions : rel[q][t] = "available"})

\* The questions of u that are neither deleted nor pending, unlisted or not.
UserQuestions(u) ==
  {q \in Questions : Owner[q] = u /\ status[q] \in {"available", "closed"}}

Init ==
  /\ status = [q \in Questions |-> IF InitialTags[q] = {} THEN "none" ELSE "available"]
  /\ pinned = [q \in Questions |-> FALSE]
  /\ hidden = [q \in Questions |-> FALSE]
  /\ rel = [q \in Questions |->
              [t \in Tags |-> IF t \in InitialTags[q] THEN "available" ELSE "none"]]
  /\ review = [q \in Questions |-> "none"]
  /\ tagCount = [t \in Tags |-> Cardinality({q \in Questions : t \in InitialTags[q]})]
  /\ userCount = [u \in Users |->
                    Cardinality({q \in Questions : Owner[q] = u /\ InitialTags[q] # {}})]
  /\ received = 0
  /\ clean = TRUE
  /\ overtaken = {} /\ unqueued = {} /\ revived = {}
  /\ todo = [h \in Handlers |-> <<>>]
  /\ req = [h \in Handlers |-> NoRequest]
  /\ seen = [h \in Handlers |-> NothingSeen]
  /\ verdict = [h \in Handlers |-> "pending"]
  /\ plan = [h \in Handlers |-> NothingPlanned]
  /\ tally = [h \in Handlers |-> 0]

Busy(h) == todo[h] # <<>>

Serving(h, ops, q) == Busy(h) /\ req[h].op \in ops /\ req[h].q = q

\* A handler takes a request.  Identifiers are unique: a question is asked
\* once.  The others concern a question that exists, or a review that does.
Receive(h, r) ==
  /\ ~Busy(h)
  /\ received < MaxRequests
  /\ \A g \in Handlers : Busy(g) => {r.op, req[g].op} \subseteq Overlapping
  /\ IF r.op = "add"
       THEN status[r.q] = "none" /\ \A g \in Handlers : ~Serving(g, {"add"}, r.q)
       ELSE status[r.q] # "none"
  /\ r.op \in Decisions => review[r.q] # "none"
  /\ received' = received + 1
  /\ clean' = (clean /\ \A g \in Handlers : ~Busy(g))
  /\ req' = [req EXCEPT ![h] = r]
  /\ todo' = [todo EXCEPT ![h] = Program(r)]
  /\ UNCHANGED <<question, rel, review, counters, locals, overtaken, unqueued, revived>>

\* RemoveAllUserQuestion, when an administrator removes all that a user wrote:
\* one statement; tag rows stay and nobody counts again.
RemoveAllUserQuestion(u) ==
  LET dropped == {q \in Questions : Owner[q] = u /\ status[q] \notin {"none", "deleted"}} IN
  /\ "removeAll" \in Operations
  /\ received < MaxRequests
  /\ \A g \in Handlers : Busy(g) => {"removeAll", req[g].op} \subseteq Overlapping
  /\ dropped # {}
  /\ received' = received + 1
  /\ status' = [q \in Questions |-> IF q \in dropped THEN "deleted" ELSE status[q]]
  /\ revived' = revived \ dropped
  /\ clean' = (clean /\ \A g \in Handlers : ~Busy(g))
  /\ UNCHANGED <<pinned, hidden, rel, review, counters, todo, req, locals, overtaken, unqueued>>

\* The next statement of handler h is one of names.
At(h, names) == Busy(h) /\ Head(todo[h]) \in names

\* On to the next statement; after the last one the handler is idle.
Advance(h) ==
  /\ todo' = [todo EXCEPT ![h] = Tail(@)]
  /\ req' = [req EXCEPT ![h] = IF Len(todo[h]) = 1 THEN NoRequest ELSE @]

\* The handler returns and keeps nothing.
Return(h) ==
  /\ todo' = [todo EXCEPT ![h] = <<>>]
  /\ req' = [req EXCEPT ![h] = NoRequest]
  /\ seen' = [seen EXCEPT ![h] = NothingSeen]
  /\ verdict' = [verdict EXCEPT ![h] = "pending"]
  /\ plan' = [plan EXCEPT ![h] = NothingPlanned]
  /\ tally' = [tally EXCEPT ![h] = 0]

-----------------------------------------------------------------------------
(* The question row and its review *)

\* What the handler reads makes it return.
Refused(r) ==
  \/ r.op \in {"edit", "remove"} /\ status[r.q] = "deleted"
  \/ r.op = "recover" /\ status[r.q] # "deleted"
  \/ r.op = "pin" /\ hidden[r.q]
  \/ r.op = "hide" /\ pinned[r.q]

Refuse(h) ==
  /\ At(h, {"read"})
  /\ Refused(req[h])
  /\ Return(h)
  /\ UNCHANGED <<question, rel, review, counters, received, history>>

ReadQuestion(h) ==
  /\ At(h, {"read"})
  /\ ~Refused(req[h])
  /\ seen' = IF req[h].op \in ListOperations
               THEN [seen EXCEPT ![h] = [pinned |-> pinned[req[h].q],
                                         hidden |-> hidden[req[h].q]]]
               ELSE seen
  /\ Advance(h)
  /\ UNCHANGED <<question, rel, review, counters, received, history, verdict, plan, tally>>

\* A new question waits, pending, for the verdict of the reviewers.
InsertQuestion(h) ==
  /\ At(h, {"insert"})
  /\ status' = [status EXCEPT ![req[h].q] = "pending"]
  /\ Advance(h)
  /\ UNCHANGED <<pinned, hidden, rel, review, counters, received, history, locals>>

StatusOf(v) == [approved |-> "available", needReview |-> "pending",
                deleteDirectly |-> "deleted"][v]

\* The reviewers' verdict; a question that needs a review is queued for one.
\* When that insertion fails, the failure is logged and the verdict stands.
QueueReview(h, v) ==
  /\ At(h, {"queueReview"})
  /\ verdict' = [verdict EXCEPT ![h] = StatusOf(v)]
  /\ \/ /\ v = "needReview"
        /\ review' = [review EXCEPT ![req[h].q] = "pending"]
        /\ UNCHANGED <<clean, unqueued>>
     \/ v # "needReview" /\ UNCHANGED <<review, clean, unqueued>>
     \/ /\ v = "needReview" /\ StatementsFail
        /\ UNCHANGED review
        /\ clean' = FALSE
        /\ unqueued' = unqueued \cup {req[h].q}
  /\ Advance(h)
  /\ UNCHANGED <<question, rel, counters, received, seen, plan, tally, overtaken, revived>>

\* UpdateReview returns when the review is not pending any more.
ReadReview(h) ==
  /\ At(h, {"readReview"})
  /\ IF review[req[h].q] = "pending" THEN Advance(h) /\ UNCHANGED locals
                                     ELSE Return(h)
  /\ UNCHANGED <<question, rel, review, counters, received, history>>

NewStatus(h) ==
  LET r == req[h] IN
  IF r.op = "add" THEN verdict[h]
  ELSE IF r.op = "adminSet" THEN r.to
  ELSE IF r.op = "close" THEN "closed"
  ELSE IF r.op \in {"remove", "reject"} THEN "deleted"
  ELSE "available"

\* The request of h is adding question q and will write its status again.
Adding(h, q) ==
  Serving(h, {"add"}, q) /\ Head(todo[h]) \in {"queueReview", "setStatus"}

\* No write of the status looks at the status it replaces; only a recovery
\* goes on to bring the tag rows back.
SetStatus(h) ==
  LET q == req[h].q
      decided == req[h].op \in Decisions IN
  /\ At(h, {"setStatus"})
  /\ status' = [status EXCEPT ![q] = NewStatus(h)]
  /\ overtaken' = IF decided /\ \E g \in Handlers : Adding(g, q) THEN overtaken \cup {q}
                  ELSE overtaken
  /\ revived' = IF NewStatus(h) = "deleted" THEN revived \ {q}
                ELSE IF status[q] = "deleted" /\ req[h].op # "recover" THEN revived \cup {q}
                ELSE revived
  /\ verdict' = [verdict EXCEPT ![h] = "pending"]
  /\ Advance(h)
  /\ UNCHANGED <<pinned, hidden, rel, review, counters, received, seen, plan, tally,
                 clean, unqueued>>

CloseReview(h) ==
  /\ At(h, {"closeReview"})
  /\ review' = [review EXCEPT ![req[h].q] =
                  IF req[h].op = "approve" THEN "approved" ELSE "rejected"]
  /\ Advance(h)
  /\ UNCHANGED <<question, rel, counters, received, history, locals>>

NowPinned(h) == IF req[h].op = "pin" THEN TRUE
                ELSE IF req[h].op = "unpin" THEN FALSE ELSE seen[h].pinned

NowHidden(h) == IF req[h].op = "hide" THEN TRUE
                ELSE IF req[h].op = "show" THEN FALSE ELSE seen[h].hidden

\* Mutant: only the column that the operation is about is written.
SaveOneColumn(h) ==
  /\ At(h, {"saveOperation"})
  /\ pinned' = [pinned EXCEPT ![req[h].q] =
                  IF req[h].op \in {"pin", "unpin"} THEN NowPinned(h) ELSE @]
  /\ hidden' = [hidden EXCEPT ![req[h].q] =
                  IF req[h].op \in {"hide", "show"} THEN NowHidden(h) ELSE @]
  /\ seen' = [seen EXCEPT ![h] = NothingSeen]
  /\ Advance(h)
  /\ UNCHANGED <<status, rel, review, counters, received, history, verdict, plan, tally>>

\* UpdateQuestionOperation writes pin and show, the one that changes and the
\* one that was read.
SaveOperation(h) ==
  /\ At(h, {"saveOperation"})
  /\ pinned' = [pinned EXCEPT ![req[h].q] = NowPinned(h)]
  /\ hidden' = [hidden EXCEPT ![req[h].q] = NowHidden(h)]
  /\ seen' = [seen EXCEPT ![h] = NothingSeen]
  /\ Advance(h)
  /\ UNCHANGED <<status, rel, review, counters, received, history, verdict, plan, tally>>

-----------------------------------------------------------------------------
(* The tag rows and the counters *)

\* The rows of a question that are not deleted, as the tags to count again;
\* an operation that changes tags works out what to do with each tag.
ListRels(h) ==
  LET q == req[h].q
      wanted == req[h].tags IN
  /\ At(h, {"listRels"})
  /\ plan' = [plan EXCEPT ![h] =
       IF wanted = {} THEN [@ EXCEPT !.refresh = Listed(q)]
       ELSE [@ EXCEPT !.unread = wanted,
                      !.drop = Listed(q) \ wanted,
                      !.refresh = Listed(q) \cup wanted]]
  /\ Advance(h)
  /\ UNCHANGED <<question, rel, review, counters, received, history, seen, verdict, tally>>

\* Each tag wanted is looked up: it needs a row, or its row enabled.
ReadRel(h, t) ==
  LET found == rel[req[h].q][t]
      p == [plan[h] EXCEPT
              !.unread = @ \ {t},
              !.create = IF found = "none" THEN @ \cup {t} ELSE @,
              !.enable = IF found \in {"hide", "deleted"} THEN @ \cup {t} ELSE @] IN
  /\ At(h, {"readRels"})
  /\ t \in plan[h].unread
  /\ plan' = [plan EXCEPT ![h] = p]
  /\ IF p.unread = {} THEN Advance(h) ELSE UNCHANGED <<todo, req>>
  /\ UNCHANGED <<question, rel, review, counters, received, history, seen, verdict, tally>>

\* The rows of tags ts of question q get status st.
SetRel(q, ts, st) ==
  rel' = [rel EXCEPT ![q] = [t \in Tags |-> IF t \in ts THEN st ELSE @[t]]]

DropRels(h) ==
  /\ At(h, {"dropRels"})
  /\ SetRel(req[h].q, plan[h].drop, "deleted")
  /\ plan' = [plan EXCEPT ![h].drop = {}]
  /\ Advance(h)
  /\ UNCHANGED <<question, review, counters, received, history, seen, verdict, tally>>

\* A row has a unique key: if another request has inserted one meanwhile,
\* the whole insertion fails and the tags are not changed any further.
CreateRels(h) ==
  /\ At(h, {"createRels"})
  /\ IF \A t \in plan[h].create : rel[req[h].q][t] = "none"
       THEN /\ SetRel(req[h].q, plan[h].create, "available")
            /\ plan' = [plan EXCEPT ![h].create = {}]
            /\ Advance(h)
            /\ UNCHANGED <<seen, verdict, tally>>
       ELSE Return(h) /\ UNCHANGED rel
  /\ UNCHANGED <<question, review, counters, received, history>>

EnableRels(h) ==
  /\ At(h, {"enableRels"})
  /\ SetRel(req[h].q, plan[h].enable, "available")
  /\ plan' = [plan EXCEPT ![h].enable = {}]
  /\ revived' = revived \ {req[h].q}
  /\ Advance(h)
  /\ UNCHANGED <<question, review, counters, received, seen, verdict, tally,
                 clean, overtaken, unqueued>>

\* Unlisting, listing, deleting and recovering a question set every row it
\* ever had, those an edit has deleted too.
SetRels(h) ==
  LET q == req[h].q IN
  /\ At(h, {"setRels"})
  /\ SetRel(q, {t \in Tags : rel[q][t] # "none"},
            IF req[h].op = "hide" THEN "hide"
            ELSE IF req[h].op = "remove" THEN "deleted" ELSE "available")
  /\ revived' = revived \ {q}
  /\ Advance(h)
  /\ UNCHANGED <<question, review, counters, received, locals, clean, overtaken, unqueued>>

\* RefreshTagQuestionCount counts and saves, one tag after the other.
CountTag(h, t) ==
  /\ At(h, {"refreshTags"})
  /\ plan[h].counted = {}
  /\ t \in plan[h].refresh
  /\ tally' = [tally EXCEPT ![h] = CountTagRel(t)]
  /\ plan' = [plan EXCEPT ![h].counted = {t}, ![h].refresh = @ \ {t}]
  /\ UNCHANGED <<question, rel, review, counters, received, history, todo, req, seen, verdict>>

SaveTagCount(h) ==
  /\ At(h, {"refreshTags"})
  /\ plan[h].counted # {}
  /\ tagCount' = [t \in Tags |-> IF t \in plan[h].counted THEN tally[h]
                                                         ELSE tagCount[t]]
  /\ tally' = [tally EXCEPT ![h] = 0]
  /\ plan' = [plan EXCEPT ![h].counted = {}]
  /\ UNCHANGED <<question, rel, review, userCount, received, history, todo, req, seen, verdict>>

EndRefresh(h) ==
  /\ At(h, {"refreshTags"})
  /\ plan[h].counted = {} /\ plan[h].refresh = {}
  /\ Advance(h)
  /\ UNCHANGED <<question, rel, review, counters, received, history, locals>>

CountQuestions(h) ==
  /\ At(h, {"countQuestions"})
  /\ tally' = [tally EXCEPT ![h] = Cardinality(UserQuestions(Owner[req[h].q]))]
  /\ Advance(h)
  /\ UNCHANGED <<question, rel, review, counters, received, history, seen, verdict, plan>>

SaveQuestionCount(h) ==
  /\ At(h, {"saveQuestions"})
  /\ userCount' = [userCount EXCEPT ![Owner[req[h].q]] = tally[h]]
  /\ tally' = [tally EXCEPT ![h] = 0]
  /\ Advance(h)
  /\ UNCHANGED <<question, rel, review, tagCount, received, history, seen, verdict, plan>>

-----------------------------------------------------------------------------
(* Failures *)

\* The request ends early: a statement fails or the process dies.
Fail(h) ==
  /\ StatementsFail
  /\ Busy(h)
  /\ Return(h)
  /\ clean' = FALSE
  /\ unqueued' = unqueued \cup {q \in Questions : Adding(h, q) /\ review[q] # "pending"}
  /\ UNCHANGED <<question, rel, review, counters, received, overtaken, revived>>

\* The failures the code only logs.
Tolerated(h) ==
  \/ At(h, {"saveQuestions"})
  \/ At(h, {"setRels"}) /\ req[h].op \in {"remove", "recover"}
  \/ At(h, {"refreshTags"}) /\ req[h].op \notin {"hide", "show"}

FailTolerated(h) ==
  /\ StatementsFail
  /\ Tolerated(h)
  /\ plan' = IF At(h, {"refreshTags"})
               THEN [plan EXCEPT ![h].refresh = {}, ![h].counted = {}] ELSE plan
  /\ tally' = [tally EXCEPT ![h] = 0]
  /\ Advance(h)
  /\ clean' = FALSE
  /\ UNCHANGED <<question, rel, review, counters, received, seen, verdict,
                 overtaken, unqueued, revived>>

\* When the questions cannot be counted, nothing is saved.
FailToCount(h) ==
  /\ StatementsFail
  /\ At(h, {"countQuestions"})
  /\ Len(todo[h]) > 2
  /\ todo' = [todo EXCEPT ![h] = Tail(Tail(@))]
  /\ clean' = FALSE
  /\ UNCHANGED <<question, rel, review, counters, received, req, locals,
                 overtaken, unqueued, revived>>

Step(h) ==
  \/ Refuse(h) \/ ReadQuestion(h) \/ InsertQuestion(h)
  \/ \E v \in Verdicts : QueueReview(h, v)
  \/ ReadReview(h) \/ SetStatus(h) \/ CloseReview(h) \/ SaveOperation(h)
  \/ ListRels(h) \/ DropRels(h) \/ CreateRels(h) \/ EnableRels(h) \/ SetRels(h)
  \/ \E t \in Tags : ReadRel(h, t) \/ CountTag(h, t)
  \/ SaveTagCount(h) \/ EndRefresh(h) \/ CountQuestions(h) \/ SaveQuestionCount(h)

Next ==
  \/ \E h \in Handlers :
       \/ \E r \in Request : Receive(h, r)
       \/ Step(h)
       \/ Fail(h) \/ FailTolerated(h) \/ FailToCount(h)
  \/ \E u \in Users : RemoveAllUserQuestion(u)

Spec == Init /\ [][Next]_vars

-----------------------------------------------------------------------------
(* Properties *)

TypeOK ==
  /\ status \in [Questions -> Statuses \cup {"none"}]
  /\ pinned \in [Questions -> BOOLEAN]
  /\ hidden \in [Questions -> BOOLEAN]
  /\ rel \in [Questions -> [Tags -> RelStatuses \cup {"none"}]]
  /\ review \in [Questions -> ReviewStatuses \cup {"none"}]
  /\ tagCount \in [Tags -> 0..Cardinality(Questions)]
  /\ userCount \in [Users -> 0..Cardinality(Questions)]
  /\ received \in 0..MaxRequests
  /\ todo \in [Handlers -> Seq(Statements)]
  /\ req \in [Handlers -> Request \cup {NoRequest}]
  /\ \A h \in Handlers : Busy(h) <=> req[h] # NoRequest
  /\ seen \in [Handlers -> [pinned : BOOLEAN, hidden : BOOLEAN]]
  /\ verdict \in [Handlers -> Statuses]
  /\ plan \in [Handlers -> [unread : SUBSET Tags, drop : SUBSET Tags,
                            create : SUBSET Tags, enable : SUBSET Tags,
                            refresh : SUBSET Tags, counted : SUBSET Tags]]
  /\ tally \in [Handlers -> 0..Cardinality(Questions)]
  /\ overtaken \subseteq Questions /\ unqueued \subseteq Questions /\ revived \subseteq Questions

\* "Hidden question cannot be placed at the top" and "Question cannot be
\* hidden when they are at the top" (OperationQuestion), although both are
\* checked on a row read before other handlers write it.
PinnedNotHidden == \A q \in Questions : ~(pinned[q] /\ hidden[q])

Idle == \A h \in Handlers : ~Busy(h)

\* As long as requests come one by one and none fails, the question count of a tag
\* is the number of its available rows, whichever operations set them in whatever
\* order (RefreshTagQuestionCount).
TagCountSettled ==
  Idle /\ clean => \A t \in Tags : tagCount[t] = CountTagRel(t)

\* Under the same condition the question count of a user is the number of questions
\* of theirs that are neither deleted nor pending (UpdateQuestionCount).
UserCountSettled ==
  Idle /\ clean => \A u \in Users : userCount[u] = Cardinality(UserQuestions(u))

Readable(q) == status[q] \in {"available", "closed"}

\* "At least one tag is required" (AddQuestion, UpdateQuestion): whatever was done to
\* a question one request after the other, it has a tag when it can be read, unless it
\* came back otherwise than by RecoverQuestion and nobody has listed or tagged it since.
LiveIsTagged ==
  Idle /\ clean => \A q \in Questions : Readable(q) /\ q \notin revived => Listed(q) # {}

\* The same however it came back: the administrator, an author who reopens or closes
\* it and the reviewer write a status over "deleted" too, and leave its rows deleted.
ReadableHasTag ==
  Idle /\ clean => \A q \in Questions : Readable(q) => Listed(q) # {}

\* A pending question has a review that somebody can still decide, whatever requests
\* overlap or fail, unless its review or its status could not be saved (unqueued) or it
\* was decided before the request that adds it ended (overtaken; ApprovedIsVisible).
PendingIsQueued ==
  \A q \in Questions \ (overtaken \cup unqueued) :
    /\ status[q] = "pending"
    /\ \A h \in Handlers : ~Adding(h, q)
    => review[q] = "pending"

\* "It will be visible after it has been approved": a question whose review
\* was approved is not pending any more.
ApprovedIsVisible ==
  Idle => \A q \in Questions : review[q] = "approved" => status[q] # "pending"
=============================================================================
