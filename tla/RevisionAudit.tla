--------------------------- MODULE RevisionAudit ---------------------------
(***************************************************************************)
(* Edits of questions, answers and tags, and the audit of those that wait *)
(* for one.  An edit by somebody trusted is written and recorded as a     *)
(* revision that has passed; another one is only recorded, and written    *)
(* when a moderator approves it.  Only the recording is a transaction.    *)
(* Texts are numbered by the request that brings them.  Changing the tags *)
(* of a question is one step here; QuestionLifecycle has its statements.  *)
(* What approving the edit of a tag does to its synonyms is left out. *)
(***************************************************************************)
EXTENDS Handling, FiniteSets

CONSTANTS
  Objects,
  Kind,           \* Kind[o]: what o is
  Mixed,          \* the tags of a question of which only some were changed
  OneAtATime,     \* an object has no two edits and no two audits in flight
  StatementsFail  \* a statement or the process may fail

Kinds == {"question", "answer", "tag"}
Edits == {"edit", "suggest"}
Audits == {"approve", "reject"}
RevisionStatuses == {"unreviewed", "passed", "rejected"}
Texts == 0..MaxRequests

ASSUME RevisionAssumption ==
  /\ Kind \in [Objects -> Kinds]
  /\ MaxRequests \in Nat
  /\ Mixed \notin Texts /\ NoRequest \notin Texts
  /\ NoRequest \notin [op : Edits \cup Audits, obj : Objects, rev : Texts, text : Texts]
  /\ OneAtATime \in BOOLEAN /\ StatementsFail \in BOOLEAN

VARIABLES
  text,       \* the text each object shows
  tagsOf,     \* the request whose tags a question has
  deleted,    \* whether the object is deleted
  revisionId, \* the column revision_id of each object, 0 before an edit
  revision,   \* the revision rows, in the order of their ids
  rewarded,   \* the revisions whose editor has been given points
  broken      \* history: a request on the object has failed

object == <<text, tagsOf, deleted>>
vars == <<text, tagsOf, deleted, revisionId, revision, received, todo, req, rewarded,
          broken>>

-----------------------------------------------------------------------------
(* The statements of a request *)

\* Mutant: an edit does not look for one that waits.
UpdateUnchecked(o) ==
  IF Kind[o] = "question"
    THEN <<"readObject", "saveText", "changeTags", "addRevision">>
    ELSE <<"readObject", "saveText", "addRevision">>

\* UpdateQuestion, AnswerService.Update, UpdateTag when no audit is needed.
Update(o) ==
  IF Kind[o] = "question"
    THEN <<"checkQueue", "readObject", "saveText", "changeTags", "addRevision">>
    ELSE <<"checkQueue", "readObject", "saveText", "addRevision">>

\* Mutant: a suggestion does not look for another one.
SuggestUnchecked == <<"readObject", "addRevision">>

\* The same three when the edit has to wait.
Suggest == <<"checkQueue", "readObject", "addRevision">>

\* Mutant: the tags of an approved revision are forgotten.
ApproveTextOnly(o) == <<"readRevision", "saveText", "close", "reward">>

\* RevisionAudit with revisionAuditQuestion, -Answer and -Tag.
Approve(o) ==
  CASE Kind[o] = "question" ->
         <<"readRevision", "saveText", "changeTags", "close", "reward">>
    [] Kind[o] = "answer" -> <<"readRevision", "saveText", "close", "reward">>
    [] Kind[o] = "tag" -> <<"readRevision", "saveText", "findTag", "close", "reward">>

\* Mutant: rejecting a revision does not look whether it was decided.
RejectUnread == <<"close">>

Reject == <<"readRevision", "close">>

Program(op, o) ==
  CASE op = "edit" -> Update(o)
    [] op = "suggest" -> Suggest
    [] op = "approve" -> Approve(o)
    [] op = "reject" -> Reject

Statements == {"checkQueue", "readObject", "saveText", "changeTags", "addRevision",
               "readRevision", "findTag", "close", "reward"}

-----------------------------------------------------------------------------
Revision == [obj : Objects, text : Texts, status : RevisionStatuses]

Unreviewed(o) ==
  {r \in DOMAIN revision : revision[r].obj = o /\ revision[r].status = "unreviewed"}

Init ==
  /\ text = [o \in Objects |-> 0]
  /\ tagsOf = [o \in Objects |-> 0]
  /\ deleted = [o \in Objects |-> FALSE]
  /\ revisionId = [o \in Objects |-> 0]
  /\ revision = <<>>
  /\ received = 0
  /\ todo = [h \in Handlers |-> <<>>]
  /\ req = [h \in Handlers |-> NoRequest]
  /\ rewarded = {}
  /\ broken = [o \in Objects |-> FALSE]

Start(h, op, o, r, t) ==
  /\ ~Busy(h)
  /\ received < MaxRequests
  /\ OneAtATime =>
       \A g \in Handlers : Busy(g) /\ req[g].obj = o => (req[g].op \in Edits) # (op \in Edits)
  /\ received' = received + 1
  /\ req' = [req EXCEPT ![h] = [op |-> op, obj |-> o, rev |-> r, text |-> t]]
  /\ todo' = [todo EXCEPT ![h] = Program(op, o)]
  /\ UNCHANGED <<object, revisionId, revision, rewarded, broken>>

ReceiveEdit(h, op, o) == Start(h, op, o, 0, received + 1)

\* A moderator decides a revision, maybe on a page loaded long ago.
ReceiveAudit(h, op, r) ==
  r \in DOMAIN revision /\ Start(h, op, revision[r].obj, r, revision[r].text)

\* Meanwhile an object is deleted or recovered.
ToggleDeleted(o) ==
  /\ received < MaxRequests
  /\ received' = received + 1
  /\ deleted' = [deleted EXCEPT ![o] = ~@]
  /\ UNCHANGED <<text, tagsOf, revisionId, revision, todo, req, rewarded, broken>>

Advance(h) ==
  /\ todo' = [todo EXCEPT ![h] = Tail(@)]
  /\ req' = [req EXCEPT ![h] = IF Len(todo[h]) = 1 THEN NoRequest ELSE @]

Return(h) ==
  /\ todo' = [todo EXCEPT ![h] = <<>>]
  /\ req' = [req EXCEPT ![h] = NoRequest]

-----------------------------------------------------------------------------
(* Editing *)

\* ExistUnreviewedByObjectID: an object with an edit that waits is not edited.
CheckQueue(h) ==
  /\ At(h, "checkQueue")
  /\ IF Unreviewed(req[h].obj) # {} THEN Return(h) ELSE Advance(h)
  /\ UNCHANGED <<object, revisionId, revision, received, rewarded, broken>>

ReadObject(h) ==
  /\ At(h, "readObject")
  /\ IF deleted[req[h].obj] THEN Return(h) ELSE Advance(h)
  /\ UNCHANGED <<object, revisionId, revision, received, rewarded, broken>>

SaveText(h) ==
  /\ At(h, "saveText")
  /\ text' = [text EXCEPT ![req[h].obj] = req[h].text]
  /\ Advance(h)
  /\ UNCHANGED <<tagsOf, deleted, revisionId, revision, received, rewarded, broken>>

ChangeTags(h) ==
  /\ At(h, "changeTags")
  /\ tagsOf' = [tagsOf EXCEPT ![req[h].obj] = req[h].text]
  /\ Advance(h)
  /\ UNCHANGED <<text, deleted, revisionId, revision, received, rewarded, broken>>

\* AddRevision, a transaction: the row, and revision_id, which every caller
\* asks to have updated.
AddRevision(h) ==
  LET q == req[h] IN
  /\ At(h, "addRevision")
  /\ revision' = Append(revision,
       [obj |-> q.obj, text |-> q.text,
        status |-> IF q.op = "edit" THEN "passed" ELSE "unreviewed"])
  /\ revisionId' = [revisionId EXCEPT ![q.obj] = Len(revision) + 1]
  /\ Advance(h)
  /\ UNCHANGED <<object, received, rewarded, broken>>

-----------------------------------------------------------------------------
(* Auditing *)

ReadRevision(h) ==
  /\ At(h, "readRevision")
  /\ IF revision[req[h].rev].status = "unreviewed" THEN Advance(h) ELSE Return(h)
  /\ UNCHANGED <<object, revisionId, revision, received, rewarded, broken>>

\* revisionAuditTag looks for the tag once its text is saved, and only among
\* those that are not deleted.
FindTag(h) ==
  /\ At(h, "findTag")
  /\ IF deleted[req[h].obj] THEN Return(h) ELSE Advance(h)
  /\ UNCHANGED <<object, revisionId, revision, received, rewarded, broken>>

Close(h) ==
  /\ At(h, "close")
  /\ revision' = [revision EXCEPT ![req[h].rev].status =
                    IF req[h].op = "approve" THEN "passed" ELSE "rejected"]
  /\ Advance(h)
  /\ UNCHANGED <<object, revisionId, received, rewarded, broken>>

\* reviewActivity.Review, a transaction that locks the editor: the points are
\* given unless this revision has brought them already.
Reward(h) ==
  /\ At(h, "reward")
  /\ rewarded' = rewarded \cup {req[h].rev}
  /\ Advance(h)
  /\ UNCHANGED <<object, revisionId, revision, received, broken>>

-----------------------------------------------------------------------------
(* Failures *)

Break(h) == broken' = [broken EXCEPT ![req[h].obj] = TRUE]

Fail(h) ==
  /\ StatementsFail
  /\ Busy(h)
  /\ Break(h)
  /\ Return(h)
  /\ UNCHANGED <<object, revisionId, revision, received, rewarded>>

\* Changing the tags fails when some are changed.  An audit returns the error;
\* UpdateQuestion tests another one and goes on.
FailTags(h) ==
  /\ StatementsFail
  /\ At(h, "changeTags")
  /\ tagsOf' = [tagsOf EXCEPT ![req[h].obj] = Mixed]
  /\ Break(h)
  /\ IF req[h].op = "edit" THEN Advance(h) ELSE Return(h)
  /\ UNCHANGED <<text, deleted, revisionId, revision, received, rewarded>>

\* revisionAuditQuestion and -Answer drop an error of reading the question:
\* nothing is saved, and the revision passes.
FailToSave(h) ==
  /\ StatementsFail
  /\ At(h, "saveText") /\ req[h].op = "approve" /\ Kind[req[h].obj] # "tag"
  /\ Break(h)
  /\ todo' = [todo EXCEPT ![h] = <<"close", "reward">>]
  /\ UNCHANGED <<object, revisionId, revision, received, req, rewarded>>

Step(h) ==
  \/ CheckQueue(h) \/ ReadObject(h) \/ SaveText(h) \/ ChangeTags(h) \/ AddRevision(h)
  \/ ReadRevision(h) \/ FindTag(h) \/ Close(h) \/ Reward(h)

Next ==
  \/ \E h \in Handlers :
       \/ \E op \in Edits, o \in Objects : ReceiveEdit(h, op, o)
       \/ \E op \in Audits, r \in Texts : ReceiveAudit(h, op, r)
       \/ Step(h) \/ Fail(h) \/ FailTags(h) \/ FailToSave(h)
  \/ \E o \in Objects : ToggleDeleted(o)

Spec == Init /\ [][Next]_vars

-----------------------------------------------------------------------------
(* Properties *)

TypeOK ==
  /\ text \in [Objects -> Texts]
  /\ tagsOf \in [Objects -> Texts \cup {Mixed}]
  /\ deleted \in [Objects -> BOOLEAN]
  /\ revision \in Seq(Revision)
  /\ revisionId \in [Objects -> 0..Len(revision)]
  /\ received \in Texts
  /\ todo \in [Handlers -> Seq(Statements)]
  /\ \A h \in Handlers :
       /\ Busy(h) <=> req[h] # NoRequest
       /\ Busy(h) => /\ req[h] \in [op : Edits \cup Audits, obj : Objects,
                                    rev : Texts, text : Texts]
                     /\ req[h].op \in Audits => req[h].rev \in DOMAIN revision
  /\ rewarded \subseteq 1..Len(revision)
  /\ broken \in [Objects -> BOOLEAN]

\* "This post currently has an edit waiting": at most one edit of an object
\* waits for its audit (UpdateQuestion, AnswerService.Update and UpdateTag
\* look before they record one).
OneUnreviewed == \A o \in Objects : \A r, s \in Unreviewed(o) : r = s

Served(o) == \E h \in Handlers : Busy(h) /\ req[h].obj = o

\* A question has the tags of the text it shows, whoever wrote and approved it.
TagsFollowText ==
  \A o \in Objects :
    Kind[o] = "question" /\ ~Served(o) /\ ~broken[o] => tagsOf[o] = text[o]

\* A rejected text is not shown and brings its author nothing, except that of a
\* tag that was deleted when it was approved: there the approval ends in an
\* error after the text is saved, and the revision can still be rejected.
RejectedNotShown ==
  \A r \in DOMAIN revision :
    LET o == revision[r].obj IN
    revision[r].status = "rejected"
      => /\ r \notin rewarded
         /\ revision[r].text = text[o] => broken[o] \/ Kind[o] = "tag"

\* The edit that waits, unless its text is shown already: then an approval
\* has saved it and the rest is bookkeeping.
Proposed ==
  [o \in Objects |->
     LET waiting == {revision[r].text : r \in Unreviewed(o)} \ {text[o]} IN
     IF waiting = {} THEN NoRequest ELSE CHOOSE t \in waiting : TRUE]

History == INSTANCE RevisionHistory WITH shown <- text, proposed <- Proposed,
                                         Nothing <- NoRequest

\* The statements implement what editing promises: nothing is written over a
\* text that an edit waits for, and what is approved is what was proposed.
ImplementsHistory == History!Spec

\* "The revision_id will be updated when admin approved" (AddRevision): it
\* does not name a revision that waits or was rejected.
RevisionIdIsReviewed ==
  \A o \in Objects : revisionId[o] # 0 => revision[revisionId[o]].status = "passed"
=============================================================================
